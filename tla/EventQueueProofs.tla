-------------------------- MODULE EventQueueProofs --------------------------
(***************************************************************************)
(* The event queue for any number of threads, objects and events: the       *)
(* semaphore and the list agree whatever the application does, and an        *)
(* application that destroys the queue with care (Careful) has its callbacks *)
(* one at a time and in order, within bounded memory, and never in a queue   *)
(* that was freed.                                                         *)
(***************************************************************************)
EXTENDS EventQueue, FiniteSetTheorems, TLAPS

-----------------------------------------------------------------------------
(* The dispatcher's thread. *)

(* There is no thread without a dispatcher. *)
DispatcherInv ==
    /\ pc \in [Threads -> Places]
    /\ disp \in [live : BOOLEAN, on : BOOLEAN, ending : BOOLEAN, queue : BOOLEAN,
                  known : BOOLEAN]
    /\ ~disp.live => pc["dispatcher"] = "idle"

(* Every step keeps the thread within the life of its dispatcher. *)
LEMMA DispatcherStep == DispatcherInv /\ [Next]_vars => DispatcherInv'
<1> SUFFICES ASSUME DispatcherInv, [Next]_vars PROVE DispatcherInv'
  OBVIOUS
<1> USE EventQueueAssumption DEF DispatcherInv, Places, Goto, life
<1>0. /\ "main" \in Threads /\ "dispatcher" \in Threads
      /\ \A t \in Helpers : t \in Threads /\ t # "dispatcher"
  BY DEF Threads
<1>1. CASE UNCHANGED vars
  BY <1>1 DEF vars
<1>2. ASSUME NEW o \in Objects, Open(o) \/ Fire(o) \/ Close(o) PROVE DispatcherInv'
  BY <1>2 DEF Open, Fire, Close
<1>3. ASSUME NEW t \in Helpers, CallDispatch(t) PROVE DispatcherInv'
  BY <1>0, <1>3 DEF CallDispatch
<1>4. ASSUME NEW t \in Threads, Dispatch(t) PROVE DispatcherInv'
  <2>1. CASE Enter(t) \/ CheckWatermarks(t) \/ Wait(t) \/ Take(t)
    BY <1>0, <1>4, <2>1 DEF Enter, CheckWatermarks, Wait, Take
  <2>2. CASE Begin(t) \/ End(t) \/ Again(t)
    BY <1>0, <1>4, <2>2 DEF Begin, End, Again, Back
  <2> QED
    BY <1>4, <2>1, <2>2 DEF Dispatch
<1>5. CASE StopDispatch
  BY <1>5 DEF StopDispatch
<1>6. CASE ThreadStart \/ ThreadTest \/ ThreadExit
  <2>1. disp' \in [live : BOOLEAN, on : BOOLEAN, ending : BOOLEAN, queue : BOOLEAN,
                   known : BOOLEAN] /\ disp'.live = disp.live
    BY <1>6 DEF ThreadStart, ThreadTest, ThreadExit
  <2> QED
    BY <1>0, <1>6, <2>1 DEF ThreadStart, ThreadTest, ThreadExit
<1>7. CASE CreateDispatcher \/ DestroyDispatcher
  <2>1. CASE CreateDispatcher
    BY <1>0, <2>1 DEF CreateDispatcher
  <2>2. CASE DestroyDispatcher
    <3>1. disp' = [disp EXCEPT !.on = FALSE] \/ disp' = disp
      BY <2>2 DEF DestroyDispatcher
    <3>2. pc' = [pc EXCEPT !["main"] = "stop"] \/ pc' = [pc EXCEPT !["main"] = "mark"]
      BY <2>2 DEF DestroyDispatcher
    <3> QED
      BY <1>0, <3>1, <3>2
  <2> QED
    BY <1>7, <2>1, <2>2
<1>8. CASE DestroyStops \/ DestroyMarks \/ DestroyJoins
  <2>1. CASE DestroyStops
    BY <1>0, <2>1 DEF DestroyStops
  <2>2. CASE DestroyMarks
    BY <1>0, <2>2 DEF DestroyMarks
  <2>3. CASE DestroyJoins
    BY <1>0, <2>3 DEF DestroyJoins, NoDispatcher
  <2> QED
    BY <1>8, <2>1, <2>2, <2>3
<1>9. ASSUME NEW how, AskDestroy(how) PROVE DispatcherInv'
  BY <1>0, <1>9 DEF AskDestroy
<1>10. CASE Destroy
  BY <1>0, <1>10 DEF Destroy, Answer
<1>11. CASE DestroyBridge \/ Free
  <2>1. CASE DestroyBridge
    BY <1>0, <2>1 DEF DestroyBridge
  <2>2. CASE Free
    <3>1. disp' = [disp EXCEPT !.on = FALSE, !.queue = FALSE] \/ disp' = disp
      BY <2>2 DEF Free
    <3> QED
      BY <1>0, <2>2, <3>1 DEF Free, Answer
  <2> QED
    BY <1>11, <2>1, <2>2
<1> QED
  BY <1>0, <1>1, <1>2, <1>3, <1>4, <1>5, <1>6, <1>7, <1>8, <1>9, <1>10, <1>11
  DEF Next, MainSteps, DispatcherSteps

-----------------------------------------------------------------------------
(* The semaphore and the list. *)

(* TokensMatch with the types it needs.  Takers is finite whatever Helpers     *)
(* is: a step adds at most one thread to it.                                *)
TokenInv ==
    /\ items \in Seq(Nat) /\ sem \in Nat /\ alloc \in Nat /\ sent \in Nat
    /\ pc \in [Threads -> Places]
    /\ IsFiniteSet(Takers)
    /\ TokensMatch

(* A thread that neither comes to the list nor leaves it keeps Takers. *)
LEMMA SameTakers ==
    ASSUME TokenInv, NEW t \in Threads, NEW place \in Places, Goto(t, place),
           pc[t] # "take", place # "take"
    PROVE  pc' \in [Threads -> Places] /\ Takers' = Takers
  BY DEF TokenInv, Goto, Takers

(* wombatQueue_enqueue adds an event and a token, or neither. *)
LEMMA EnqueueTokens ==
    ASSUME TokenInv, Enqueue
    PROVE  /\ items' \in Seq(Nat) /\ sem' \in Nat /\ alloc' \in Nat /\ sent' \in Nat
           /\ Len(items') - sem' = Len(items) - sem
<1> USE EventQueueAssumption DEF TokenInv
<1>1. Grown \in Nat
  BY DEF Grown
<1>2. CASE Fits
  BY <1>1, <1>2 DEF Enqueue
<1>3. CASE ~Fits
  BY <1>3 DEF Enqueue, list
<1> QED
  BY <1>2, <1>3

(* Every step of a thread that dispatches keeps the balance of tokens. *)
LEMMA DispatchTokens ==
    ASSUME TokenInv, NEW t \in Threads, Dispatch(t)
    PROVE  TokenInv'
<1> USE DEF Places
<1>c. Cardinality(Takers) \in Nat
  BY FS_CardinalityType DEF TokenInv
<1>1. CASE Enter(t)
  <2>1. pc' \in [Threads -> Places] /\ Takers' = Takers
    BY <1>1, SameTakers DEF Enter
  <2> QED
    BY <1>1, <2>1 DEF Enter, TokenInv, TokensMatch, list
<1>2. CASE CheckWatermarks(t)
  <2>1. pc' \in [Threads -> Places] /\ Takers' = Takers
    BY <1>2, SameTakers DEF CheckWatermarks
  <2> QED
    BY <1>2, <2>1 DEF CheckWatermarks, TokenInv, TokensMatch, list
<1>3. CASE Wait(t) /\ sem = 0
  <2>1. pc' \in [Threads -> Places] /\ Takers' = Takers
    BY <1>3, SameTakers DEF Wait
  <2> QED
    BY <1>3, <2>1 DEF Wait, TokenInv, TokensMatch
<1>4. CASE Wait(t) /\ sem > 0
  <2>1. /\ pc' \in [Threads -> Places]
        /\ Takers' = Takers \cup {t} /\ t \notin Takers
    BY <1>4 DEF Wait, TokenInv, Goto, Takers
  <2>2. /\ IsFiniteSet(Takers \cup {t})
        /\ Cardinality(Takers \cup {t}) = Cardinality(Takers) + 1
    BY <2>1, FS_AddElement DEF TokenInv
  <2> QED
    BY <1>4, <1>c, <2>1, <2>2 DEF Wait, TokenInv, TokensMatch
<1>5. CASE Take(t)
  <2>1. /\ pc' \in [Threads -> Places]
        /\ Takers' = Takers \ {t} /\ t \in Takers
    BY <1>5 DEF Take, TokenInv, Goto, Takers
  <2>2. /\ IsFiniteSet(Takers \ {t})
        /\ Cardinality(Takers \ {t}) = Cardinality(Takers) - 1
        /\ Cardinality(Takers \ {t}) \in Nat
    BY <2>1, FS_RemoveElement, FS_CardinalityType DEF TokenInv
  <2>3. items # <<>>
    BY <1>c, <2>2 DEF TokenInv, TokensMatch
  <2>4. items' \in Seq(Nat) /\ Len(items') = Len(items) - 1
    BY <1>5, <2>3 DEF Take, TokenInv
  <2> QED
    BY <1>5, <1>c, <2>1, <2>2, <2>4 DEF Take, TokenInv, TokensMatch
<1>6. CASE Begin(t) \/ End(t)
  <2>1. pc' \in [Threads -> Places] /\ Takers' = Takers
    BY <1>6, SameTakers DEF Begin, End
  <2> QED
    BY <1>6, <2>1 DEF Begin, End, TokenInv, TokensMatch, list
<1>7. CASE Again(t)
  <2>1. pc' \in [Threads -> Places] /\ Takers' = Takers
    BY <1>7, SameTakers DEF Again, Back
  <2> QED
    BY <1>7, <2>1 DEF Again, TokenInv, TokensMatch, list
<1> QED
  BY <1>1, <1>2, <1>3, <1>4, <1>5, <1>6, <1>7 DEF Dispatch, Wait, TokenInv

(* The other steps of the threads do not touch the list. *)
LEMMA OtherTokens ==
    ASSUME TokenInv, UNCHANGED list, pc' \in [Threads -> Places], Takers' = Takers
    PROVE  TokenInv'
  BY DEF TokenInv, TokensMatch, list

(* Every step keeps the balance. *)
LEMMA TokenStep == DispatcherInv /\ TokenInv /\ [Next]_vars => TokenInv'
<1> SUFFICES ASSUME DispatcherInv, TokenInv, [Next]_vars PROVE TokenInv'
  OBVIOUS
<1> USE DEF Places
<1>0. "main" \in Threads /\ "dispatcher" \in Threads /\ \A t \in Helpers : t \in Threads
  BY DEF Threads
<1>1. CASE UNCHANGED vars
  BY <1>1, OtherTokens DEF vars, TokenInv, Takers
<1>2. ASSUME NEW o \in Objects, Open(o) PROVE TokenInv'
  BY <1>2, OtherTokens DEF Open, TokenInv, Takers
<1>3. ASSUME NEW o \in Objects, Fire(o) \/ Close(o) PROVE TokenInv'
  <2>1. Enqueue /\ UNCHANGED pc
    BY <1>3 DEF Fire, Close
  <2>2. Cardinality(Takers) \in Nat
    BY FS_CardinalityType DEF TokenInv
  <2>3. Takers' = Takers
    BY <2>1 DEF Takers
  <2>4. /\ items' \in Seq(Nat) /\ sem' \in Nat /\ alloc' \in Nat /\ sent' \in Nat
        /\ Len(items') - sem' = Len(items) - sem
    BY <2>1, EnqueueTokens
  <2>5. Len(items') \in Nat /\ Len(items) \in Nat
    BY <2>4 DEF TokenInv
  <2> QED
    BY <2>1, <2>2, <2>3, <2>4, <2>5 DEF TokenInv, TokensMatch
<1>4. ASSUME NEW t \in Helpers, CallDispatch(t) PROVE TokenInv'
  BY <1>0, <1>4, SameTakers, OtherTokens DEF CallDispatch
<1>5. ASSUME NEW t \in Threads, Dispatch(t) PROVE TokenInv'
  BY <1>5, DispatchTokens
<1>6. CASE StopDispatch
  BY <1>6, OtherTokens DEF StopDispatch, TokenInv, Takers
<1>7. CASE ThreadStart \/ ThreadTest \/ ThreadExit
  BY <1>0, <1>7, SameTakers, OtherTokens DEF ThreadStart, ThreadTest, ThreadExit
<1>8. CASE CreateDispatcher
  <2>1. pc["dispatcher"] # "take" /\ Goto("dispatcher", "start") /\ UNCHANGED list
    BY <1>8 DEF CreateDispatcher, DispatcherInv
  <2> QED
    BY <1>0, <2>1, SameTakers, OtherTokens
<1>9. CASE DestroyDispatcher \/ DestroyStops \/ DestroyMarks
  BY <1>0, <1>9, SameTakers, OtherTokens DEF DestroyDispatcher, DestroyStops, DestroyMarks
<1>10. CASE DestroyJoins
  BY <1>0, <1>10, OtherTokens DEF DestroyJoins, TokenInv, Takers
<1>11. ASSUME NEW how, AskDestroy(how) PROVE TokenInv'
  BY <1>0, <1>11, SameTakers, OtherTokens DEF AskDestroy
<1>12. CASE Destroy \/ DestroyBridge \/ Free
  BY <1>0, <1>12, SameTakers, OtherTokens DEF Destroy, DestroyBridge, Free, Answer
<1> QED
  BY <1>0, <1>1, <1>2, <1>3, <1>4, <1>5, <1>6, <1>7, <1>8, <1>9, <1>10, <1>11, <1>12
  DEF Next, MainSteps, DispatcherSteps

(* No event is on the list at the start, and no thread is there. *)
LEMMA TokenInit == Init => DispatcherInv /\ TokenInv
<1> SUFFICES ASSUME Init PROVE DispatcherInv /\ TokenInv
  OBVIOUS
<1>1. pc \in [Threads -> Places] /\ Takers = {} /\ pc["dispatcher"] = "idle"
  BY DEF Init, Takers, Places, Threads
<1>2. DispatcherInv
  BY <1>1 DEF Init, DispatcherInv, NoDispatcher
<1>3. TokenInv
  BY <1>1, EventQueueAssumption, FS_EmptySet DEF Init, TokenInv, TokensMatch
<1> QED
  BY <1>2, <1>3

(* wombatQueue's semaphore counts the events on its list, one more or less for *)
(* each thread between the two, for any threads that dispatch, with or without  *)
(* the dispatch lock, and however the queue and the dispatcher are destroyed.  *)
THEOREM SemaphoreCounts == Spec => []TokensMatch
<1>1. DispatcherInv /\ TokenInv => TokensMatch
  BY DEF TokenInv
<1> QED
  BY <1>1, TokenInit, DispatcherStep, TokenStep, PTL DEF Spec

-----------------------------------------------------------------------------
(* Mutual exclusion and the order of events, with care. *)

(* The places of qpidBridgeMamaQueue_dispatch's loop. *)
Loop == {"check", "wait", "take", "call", "callback", "again"}

OpenSet == {o \in Objects : obj[o] \in {"open", "closing"}}

(* The call of mamaQueue_destroy and its variants is under way. *)
Destroying == pc["main"] \in {"destroy", "lock", "free"} \cup Loop

(* Who may be where.  The lock is held over the whole loop, but for the main    *)
(* thread's timed dispatch, during which nobody else dispatches.             *)
PlaceInv ==
    /\ pc \in [Threads -> Places]
    /\ dlock \in Threads \cup {"free"}
    /\ \A t \in Helpers : pc[t] \in {"idle", "enter"} \cup Loop
    /\ pc["dispatcher"] \in {"idle", "start", "test", "enter", "exit", "done"} \cup Loop
    /\ pc["main"] \in {"idle", "stop", "mark", "join", "destroy", "lock", "free"} \cup Loop
    /\ dlock # "free" => pc[dlock] \in Loop /\ dlock # "main"
    /\ \A t \in Threads : pc[t] \in Loop => dlock = t \/ t = "main"

(* What a destroy that is under way may rely on. *)
LifeInv ==
    /\ disp \in [live : BOOLEAN, on : BOOLEAN, ending : BOOLEAN, queue : BOOLEAN,
                  known : BOOLEAN]
    /\ queue \in {"live", "dying", "freed"}
    /\ ask \in {"none", "once", "wait", "timed"}
    /\ ask # "none" <=> Destroying
    /\ disp.live => ~Destroying /\ queue = "live" /\ disp.queue
    /\ ~disp.live => ~disp.known /\ pc["dispatcher"] = "idle"
    /\ pc["main"] \in {"stop", "mark", "join"} => disp.live
    /\ ask # "none" => \A t \in Helpers : pc[t] # "enter"
    /\ ask \in {"wait", "timed"} => dlock = "free"
    /\ pc["main"] \in Loop => ask \in {"wait", "timed"}
    /\ queue = "dying" <=> pc["main"] = "free"
    /\ queue # "live" => dlock = "free" /\ \A t \in Helpers : pc[t] = "idle"
    /\ queue = "freed" => pc["main"] = "idle"

(* No object is open once mamaQueue_destroy has counted none. *)
ObjectInv ==
    /\ obj \in [Objects -> {"none", "open", "closing", "gone"}]
    /\ IsFiniteSet(OpenSet)
    /\ pc["main"] \in {"lock", "free"} \/ queue # "live" => OpenSet = {}

(* Events are numbered in the order of the list, and the callback that began   *)
(* last is that of the event before the list, or before the one in hand.     *)
OrderInv ==
    /\ begun \in Nat
    /\ hand \in [Threads -> Nat]
    /\ \A i \in 1 .. Len(items) : items[i] = sent - Len(items) + i
    /\ (\A t \in Threads : pc[t] # "call") => begun = sent - Len(items)
    /\ \A t \in Threads : pc[t] = "call" =>
          hand[t] = begun + 1 /\ begun + 1 = sent - Len(items)

(* The control of the threads: who is where, and what a destroy relies on. *)
CareInv == PlaceInv /\ LifeInv

(* A step that moves no thread and keeps the lock and the lifetimes. *)
LEMMA CareSame ==
    ASSUME CareInv, UNCHANGED <<pc, dlock, life>>
    PROVE  CareInv'
  BY DEF CareInv, PlaceInv, LifeInv, Destroying, Loop, life

(* A thread in the loop goes on in it. *)
LEMMA CareInside ==
    ASSUME CareInv, NEW t \in Threads, NEW place \in Loop, pc[t] \in Loop, Goto(t, place),
           UNCHANGED <<dlock, life>>
    PROVE  CareInv'
<1>1. /\ pc' \in [Threads -> Places] /\ pc'[t] \in Loop
      /\ \A u \in Threads : u # t => pc'[u] = pc[u]
      /\ \A u \in Threads : pc'[u] \in Loop <=> pc[u] \in Loop
      /\ \A u \in Threads : pc'[u] \notin Loop => pc'[u] = pc[u]
  BY DEF CareInv, PlaceInv, Goto, Places, Loop
<1>2. /\ "main" \in Threads /\ "dispatcher" \in Threads
      /\ \A u \in Helpers : u \in Threads
      /\ "free" \notin Threads
  BY EventQueueAssumption DEF Threads
<1>3. PlaceInv'
  BY <1>1, <1>2 DEF CareInv, PlaceInv
<1>4. Destroying' = Destroying
  BY <1>1, <1>2 DEF Destroying, Loop
<1>5. LifeInv'
  BY <1>1, <1>2, <1>4 DEF CareInv, LifeInv, life, PlaceInv, Loop
<1> QED
  BY <1>3, <1>5 DEF CareInv

(* A thread that dispatches: the lock is had by one, and given back at the end. *)
LEMMA CareDispatch ==
    ASSUME CareInv, NEW t \in Threads, Dispatch(t)
    PROVE  CareInv'
<1>0. /\ "main" \in Threads /\ "dispatcher" \in Threads
      /\ \A u \in Helpers : u \in Threads /\ u # "main" /\ u # "dispatcher"
      /\ "free" \notin Threads
  BY EventQueueAssumption DEF Threads
<1>1. CASE Enter(t)
  <2>1. /\ pc[t] = "enter" /\ dlock = "free" /\ dlock' = t /\ t # "main"
        /\ pc' = [pc EXCEPT ![t] = "check"] /\ UNCHANGED life
    BY <1>0, <1>1 DEF Enter, Goto, CareInv, PlaceInv, Loop
  <2>2. PlaceInv'
    BY <1>0, <2>1 DEF CareInv, PlaceInv, Loop, Places
  <2>3. ask = "none" /\ queue = "live"
    BY <1>0, <2>1 DEF CareInv, PlaceInv, LifeInv, Threads, Loop
  <2>4. LifeInv'
    BY <1>0, <2>1, <2>3 DEF CareInv, PlaceInv, LifeInv, Destroying, life, Loop
  <2> QED
    BY <2>2, <2>4 DEF CareInv
<1>2. CASE CheckWatermarks(t)
  BY <1>2, CareInside DEF CheckWatermarks, Loop
<1>3. CASE Wait(t)
  BY <1>3, CareInside DEF Wait, flags, Loop
<1>4. CASE Take(t)
  BY <1>4, CareInside DEF Take, flags, Loop
<1>5. CASE Begin(t)
  BY <1>5, CareInside DEF Begin, flags, Loop
<1>6. CASE End(t)
  BY <1>6, CareInside DEF End, flags, Loop
<1>7. CASE Again(t) /\ dlock = t /\ running
  BY <1>7, CareInside DEF Again, Loop
<1>8. CASE Again(t) /\ ~(dlock = t /\ running)
  <2>1. /\ pc[t] = "again" /\ UNCHANGED life
        /\ pc' = [pc EXCEPT ![t] = Back(t)]
        /\ dlock' = IF dlock = t THEN "free" ELSE dlock
    BY <1>8 DEF Again, Goto
  <2>2. dlock' = "free" \/ t = "main"
    BY <2>1 DEF CareInv, PlaceInv, Loop
  <2>3. /\ dlock' # "free" => dlock' = dlock /\ dlock # t
        /\ t # "main" => dlock = t
    BY <2>1 DEF CareInv, PlaceInv, Loop
  <2>4. Back(t) \notin Loop /\ Back(t) \in Places
    BY DEF Back, Loop, Places
  <2>5. /\ t = "main" => Back(t) = "destroy"
        /\ t = "dispatcher" => Back(t) = "test"
        /\ t \in Helpers => Back(t) = "idle"
    BY <1>0 DEF Back
  <2>6. PlaceInv'
    BY <1>0, <2>1, <2>2, <2>3, <2>4, <2>5 DEF CareInv, PlaceInv
  <2>7. Destroying' = Destroying
    BY <1>0, <2>1, <2>5 DEF Destroying, Loop, CareInv, PlaceInv
  <2>8. LifeInv'
    BY <1>0, <2>1, <2>3, <2>4, <2>5, <2>7 DEF CareInv, PlaceInv, LifeInv, life, Loop
  <2> QED
    BY <2>6, <2>8 DEF CareInv
<1> QED
  BY <1>1, <1>2, <1>3, <1>4, <1>5, <1>6, <1>7, <1>8 DEF Dispatch

(* The dispatcher's thread and the calls that make and destroy it. *)
LEMMA CareDispatcher ==
    ASSUME CareInv,
           \/ ThreadStart \/ ThreadTest \/ ThreadExit
           \/ CreateDispatcher \/ DestroyDispatcher
           \/ DestroyStops \/ DestroyMarks \/ DestroyJoins
    PROVE  CareInv'
<1> USE DEF Goto, Loop, Places, flags, life
<1>0. /\ "main" \in Threads /\ "dispatcher" \in Threads
      /\ \A u \in Helpers : u \in Threads /\ u # "main" /\ u # "dispatcher"
      /\ "free" \notin Threads
  BY EventQueueAssumption DEF Threads
<1>1. CASE ThreadStart
  <2>1. disp' = [disp EXCEPT !.on = TRUE] /\ disp.live
    BY <1>1 DEF ThreadStart, CareInv, LifeInv
  <2>2. PlaceInv'
    BY <1>0, <1>1 DEF ThreadStart, CareInv, PlaceInv
  <2>3. LifeInv'
    BY <1>0, <1>1, <2>1 DEF ThreadStart, CareInv, PlaceInv, LifeInv, Destroying
  <2> QED
    BY <2>2, <2>3 DEF CareInv
<1>2. CASE ThreadTest
  <2>1. disp.live
    BY <1>2 DEF ThreadTest, CareInv, LifeInv
  <2>2. PlaceInv'
    BY <1>0, <1>2 DEF ThreadTest, CareInv, PlaceInv
  <2>3. LifeInv'
    BY <1>0, <1>2, <2>1 DEF ThreadTest, CareInv, PlaceInv, LifeInv, Destroying
  <2> QED
    BY <2>2, <2>3 DEF CareInv
<1>3. CASE ThreadExit
  <2>1. disp.live /\ disp.queue
    BY <1>3 DEF ThreadExit, CareInv, LifeInv
  <2>2. disp' = [disp EXCEPT !.on = FALSE, !.known = FALSE]
    BY <1>3, <2>1 DEF ThreadExit
  <2>3. PlaceInv'
    BY <1>0, <1>3 DEF ThreadExit, CareInv, PlaceInv
  <2>4. LifeInv'
    BY <1>0, <1>3, <2>1, <2>2 DEF ThreadExit, CareInv, PlaceInv, LifeInv, Destroying
  <2> QED
    BY <2>3, <2>4 DEF CareInv
<1>4. CASE CreateDispatcher
  <2>1. pc["dispatcher"] = "idle" /\ pc["main"] = "idle" /\ queue = "live"
    BY <1>4 DEF CreateDispatcher, CareInv, LifeInv
  <2>2. PlaceInv'
    BY <1>0, <1>4, <2>1 DEF CreateDispatcher, CareInv, PlaceInv
  <2>3. LifeInv'
    BY <1>0, <1>4, <2>1 DEF CreateDispatcher, CareInv, PlaceInv, LifeInv, Destroying
  <2> QED
    BY <2>2, <2>3 DEF CareInv
<1>5. CASE DestroyDispatcher
  <2>1. /\ disp' = [disp EXCEPT !.on = FALSE] \/ disp' = disp
        /\ pc' = [pc EXCEPT !["main"] = "stop"] \/ pc' = [pc EXCEPT !["main"] = "mark"]
        /\ pc["main"] = "idle" /\ disp.live
        /\ UNCHANGED <<dlock, queue, ask>>
    BY <1>5 DEF DestroyDispatcher
  <2>2. disp' \in [live : BOOLEAN, on : BOOLEAN, ending : BOOLEAN, queue : BOOLEAN,
                   known : BOOLEAN]
        /\ disp'.live /\ disp'.queue = disp.queue
    BY <2>1 DEF CareInv, LifeInv
  <2>3. PlaceInv'
    BY <1>0, <2>1 DEF CareInv, PlaceInv
  <2>4. LifeInv'
    BY <1>0, <2>1, <2>2 DEF CareInv, PlaceInv, LifeInv, Destroying
  <2> QED
    BY <2>3, <2>4 DEF CareInv
<1>6. CASE DestroyStops
  <2>1. PlaceInv'
    BY <1>0, <1>6 DEF DestroyStops, CareInv, PlaceInv
  <2>2. LifeInv'
    BY <1>0, <1>6 DEF DestroyStops, CareInv, PlaceInv, LifeInv, Destroying
  <2> QED
    BY <2>1, <2>2 DEF CareInv
<1>7. CASE DestroyMarks
  <2>1. PlaceInv'
    BY <1>0, <1>7 DEF DestroyMarks, CareInv, PlaceInv
  <2>2. LifeInv'
    BY <1>0, <1>7 DEF DestroyMarks, CareInv, PlaceInv, LifeInv, Destroying
  <2> QED
    BY <2>1, <2>2 DEF CareInv
<1>8. CASE DestroyJoins
  <2>1. PlaceInv'
    BY <1>0, <1>8 DEF DestroyJoins, CareInv, PlaceInv
  <2>2. LifeInv'
    BY <1>0, <1>8 DEF DestroyJoins, NoDispatcher, CareInv, PlaceInv, LifeInv, Destroying
  <2> QED
    BY <2>1, <2>2 DEF CareInv
<1> QED
  BY <1>1, <1>2, <1>3, <1>4, <1>5, <1>6, <1>7, <1>8

(* Destroying the queue, with care. *)
LEMMA CareDestroy ==
    ASSUME Careful, CareInv,
           \/ \E how \in {"once", "wait", "timed"} : AskDestroy(how)
           \/ Destroy \/ DestroyBridge \/ Free
           \/ \E t \in Helpers : CallDispatch(t)
    PROVE  CareInv'
<1> USE DEF Goto, Loop, Places, flags, life
<1>0. /\ "main" \in Threads /\ "dispatcher" \in Threads
      /\ \A u \in Helpers : u \in Threads /\ u # "main" /\ u # "dispatcher"
      /\ "free" \notin Threads
      /\ \A u \in Threads : u \in Helpers \/ u = "main" \/ u = "dispatcher"
  BY EventQueueAssumption DEF Threads
<1>1. ASSUME NEW how \in {"once", "wait", "timed"}, AskDestroy(how) PROVE CareInv'
  <2>1. pc["main"] = "idle" /\ Ready(how) /\ pc["dispatcher"] = "idle"
    BY <1>1 DEF AskDestroy, Ready, CareInv, LifeInv
  <2>2. \A u \in Helpers : pc[u] # "enter"
    BY <2>1 DEF Ready
  <2>3. how # "once" => dlock = "free"
    BY <1>0, <2>1 DEF Ready, CareInv, PlaceInv
  <2>4. PlaceInv'
    BY <1>0, <1>1, <2>1 DEF AskDestroy, CareInv, PlaceInv
  <2>5. LifeInv'
    BY <1>0, <1>1, <2>1, <2>2, <2>3 DEF AskDestroy, Ready, CareInv, PlaceInv, LifeInv, Destroying
  <2> QED
    BY <2>4, <2>5 DEF CareInv
<1>2. CASE Destroy
  <2>1. /\ pc["main"] = "destroy" /\ UNCHANGED <<dlock, queue, disp>> /\ queue = "live"
        /\ ask # "none"
    BY <1>2 DEF Destroy, CareInv, LifeInv, Destroying
  <2>2. \/ pc' = [pc EXCEPT !["main"] = "lock"] /\ ask' = ask
        \/ pc' = [pc EXCEPT !["main"] = "idle"] /\ ask' = "none"
        \/ pc' = [pc EXCEPT !["main"] = "check"] /\ ask' = ask /\ ask # "once"
    BY <1>2 DEF Destroy, Answer
  <2>3. PlaceInv'
    BY <1>0, <2>1, <2>2 DEF CareInv, PlaceInv
  <2>4. LifeInv'
    BY <1>0, <2>1, <2>2 DEF CareInv, PlaceInv, LifeInv, Destroying
  <2> QED
    BY <2>3, <2>4 DEF CareInv
<1>3. CASE DestroyBridge
  <2>1. ASSUME NEW u \in Helpers PROVE pc[u] = "idle"
    <3>1. ask # "none"
      BY <1>3 DEF DestroyBridge, CareInv, LifeInv, Destroying
    <3>2. pc[u] # "enter"
      BY <3>1 DEF CareInv, LifeInv
    <3>3. u \in Threads /\ u # "main" /\ dlock # u
      BY <1>0, <1>3 DEF DestroyBridge
    <3> QED
      BY <3>2, <3>3 DEF CareInv, PlaceInv
  <2>2. PlaceInv'
    BY <1>0, <1>3 DEF DestroyBridge, CareInv, PlaceInv
  <2>3. LifeInv'
    BY <1>0, <1>3, <2>1 DEF DestroyBridge, CareInv, PlaceInv, LifeInv, Destroying
  <2> QED
    BY <2>2, <2>3 DEF CareInv
<1>4. CASE Free
  <2>1. disp' = disp /\ ~disp.live
    BY <1>4 DEF Free, CareInv, LifeInv, Destroying
  <2>2. PlaceInv'
    BY <1>0, <1>4 DEF Free, Answer, CareInv, PlaceInv
  <2>3. LifeInv'
    BY <1>0, <1>4, <2>1 DEF Free, Answer, CareInv, PlaceInv, LifeInv, Destroying
  <2> QED
    BY <2>2, <2>3 DEF CareInv
<1>5. ASSUME NEW t \in Helpers, CallDispatch(t) PROVE CareInv'
  <2>1. ask = "none" /\ queue = "live"
    BY <1>5 DEF CallDispatch
  <2>2. PlaceInv'
    BY <1>0, <1>5 DEF CallDispatch, CareInv, PlaceInv
  <2>3. LifeInv'
    BY <1>0, <1>5, <2>1 DEF CallDispatch, CareInv, PlaceInv, LifeInv, Destroying
  <2> QED
    BY <2>2, <2>3 DEF CareInv
<1> QED
  BY <1>1, <1>2, <1>3, <1>4, <1>5

(* With care, every step keeps the threads in their places. *)
LEMMA CareStep == ASSUME Careful PROVE CareInv /\ [Next]_vars => CareInv'
<1> SUFFICES ASSUME CareInv, [Next]_vars PROVE CareInv'
  OBVIOUS
<1>0. "main" \in Threads /\ "dispatcher" \in Threads /\ \A t \in Helpers : t \in Threads
  BY DEF Threads
<1>1. CASE UNCHANGED vars
  BY <1>1, CareSame DEF vars, flags
<1>2. ASSUME NEW o \in Objects, Open(o) \/ Fire(o) \/ Close(o) PROVE CareInv'
  BY <1>2, CareSame DEF Open, Fire, Close, flags
<1>3. CASE StopDispatch
  BY <1>3, CareSame DEF StopDispatch
<1>4. ASSUME NEW t \in Threads, Dispatch(t) PROVE CareInv'
  BY <1>4, CareDispatch
<1> QED
  BY <1>0, <1>1, <1>2, <1>3, <1>4, CareDispatcher, CareDestroy
  DEF Next, MainSteps, DispatcherSteps

(* At most one thread is in the loop: the one with the lock, or the main thread *)
(* while nobody has it.                                                    *)
LEMMA Alone ==
    ASSUME CareInv, NEW t \in Threads, NEW u \in Threads, pc[t] \in Loop, pc[u] \in Loop
    PROVE  t = u
<1>1. "free" \notin Threads /\ "main" \in Threads
  BY EventQueueAssumption DEF Threads
<1>2. pc["main"] \in Loop => dlock = "free"
  BY DEF CareInv, LifeInv
<1> QED
  BY <1>1, <1>2 DEF CareInv, PlaceInv

-----------------------------------------------------------------------------
(* Events in order. *)

(* An event put on the list comes after those that are there. *)
LEMMA EnqueueOrder ==
    ASSUME TokenInv, OrderInv, Enqueue, UNCHANGED <<begun, hand, pc>>
    PROVE  OrderInv'
<1>1. CASE ~Fits
  BY <1>1 DEF Enqueue, list, OrderInv
<1>2. CASE Fits
  <2>1. /\ items \in Seq(Nat) /\ sent \in Nat /\ Len(items) \in Nat
        /\ items' = Append(items, sent + 1) /\ sent' = sent + 1
    BY <1>2 DEF Enqueue, TokenInv
  <2>2. Len(items') = Len(items) + 1
    BY <2>1
  <2>3. ASSUME NEW i \in 1 .. Len(items') PROVE items'[i] = sent' - Len(items') + i
    BY <2>1, <2>2 DEF OrderInv
  <2>4. sent' - Len(items') = sent - Len(items)
    BY <2>1, <2>2
  <2> QED
    BY <2>3, <2>4 DEF OrderInv
<1> QED
  BY <1>1, <1>2

(* Callbacks begin in the order of the list. *)
LEMMA DispatchOrder ==
    ASSUME CareInv, TokenInv, OrderInv, NEW t \in Threads, Dispatch(t)
    PROVE  OrderInv'
<1>0. items \in Seq(Nat) /\ sent \in Nat /\ Len(items) \in Nat /\ pc \in [Threads -> Places]
  BY DEF TokenInv
<1>1. CASE Enter(t) \/ CheckWatermarks(t) \/ Wait(t) \/ Again(t)
  <2>1. /\ UNCHANGED <<items, sent, begun, hand>>
        /\ \A u \in Threads : pc'[u] = "call" <=> pc[u] = "call"
    BY <1>0, <1>1 DEF Enter, CheckWatermarks, Wait, Again, Back, Goto, list
  <2> QED
    BY <2>1 DEF OrderInv
<1>2. CASE Take(t) /\ items = <<>>
  <2>1. /\ UNCHANGED <<items, sent, begun, hand>>
        /\ \A u \in Threads : pc'[u] = "call" <=> pc[u] = "call"
    BY <1>0, <1>2 DEF Take, Goto
  <2> QED
    BY <2>1 DEF OrderInv
<1>3. CASE Take(t) /\ items # <<>>
  <2>1. /\ pc[t] = "take" /\ hand' = [hand EXCEPT ![t] = Head(items)]
        /\ items' = Tail(items) /\ pc' = [pc EXCEPT ![t] = "call"]
        /\ UNCHANGED <<sent, begun>>
    BY <1>3 DEF Take, Goto
  <2>2. \A u \in Threads : pc[u] # "call"
    BY <2>1, Alone DEF Loop
  <2>3. begun = sent - Len(items) /\ begun \in Nat
    BY <2>2 DEF OrderInv
  <2>4. Len(items) > 0 /\ Head(items) = items[1] /\ Len(items') = Len(items) - 1
    BY <1>0, <1>3, <2>1
  <2>5. Head(items) = begun + 1
    BY <1>0, <2>3, <2>4 DEF OrderInv
  <2>6. ASSUME NEW i \in 1 .. Len(items') PROVE items'[i] = sent' - Len(items') + i
    <3>1. i + 1 \in 1 .. Len(items) /\ items'[i] = items[i + 1]
      BY <1>0, <1>3, <2>1, <2>4
    <3>2. items[i + 1] = sent - Len(items) + (i + 1)
      BY <3>1 DEF OrderInv
    <3>3. sent' = sent /\ i \in Int /\ Len(items') = Len(items) - 1
      BY <2>1, <2>4
    <3> HIDE DEF OrderInv
    <3> QED
      BY <1>0, <3>1, <3>2, <3>3
  <2>7. pc'[t] = "call" /\ \A u \in Threads : pc'[u] = "call" => u = t
    BY <1>0, <2>1, <2>2
  <2>8. hand' \in [Threads -> Nat] /\ hand'[t] = begun + 1 /\ begun + 1 \in Nat
    BY <2>1, <2>3, <2>5 DEF OrderInv
  <2>9. begun + 1 = sent - Len(items')
    BY <1>0, <2>3, <2>4
  <2> QED
    BY <2>1, <2>3, <2>6, <2>7, <2>8, <2>9 DEF OrderInv
<1>4. CASE Begin(t)
  <2>1. /\ pc[t] = "call" /\ begun' = hand[t] /\ pc' = [pc EXCEPT ![t] = "callback"]
        /\ UNCHANGED <<items, sent, hand>>
    BY <1>4 DEF Begin, Goto, list
  <2>2. \A u \in Threads : pc'[u] # "call"
    BY <1>0, <2>1, Alone DEF Loop
  <2>3. begun' = sent - Len(items) /\ begun' \in Nat
    BY <2>1 DEF OrderInv
  <2> QED
    BY <2>1, <2>2, <2>3 DEF OrderInv
<1>5. CASE End(t)
  <2>1. /\ pc[t] = "callback" /\ hand' = [hand EXCEPT ![t] = 0]
        /\ UNCHANGED <<items, sent, begun>>
        /\ \A u \in Threads : pc'[u] = "call" <=> pc[u] = "call"
    BY <1>0, <1>5 DEF End, Goto, list
  <2> QED
    BY <2>1 DEF OrderInv
<1> QED
  BY <1>1, <1>2, <1>3, <1>4, <1>5 DEF Dispatch

(* No other step takes an event or begins a callback. *)
LEMMA OtherOrder ==
    ASSUME OrderInv, UNCHANGED <<items, sent, begun, hand>>,
           \A u \in Threads : pc'[u] = "call" <=> pc[u] = "call"
    PROVE  OrderInv'
  BY DEF OrderInv

(* Every step keeps the order. *)
LEMMA OrderStep == CareInv /\ TokenInv /\ OrderInv /\ [Next]_vars => OrderInv'
<1> SUFFICES ASSUME CareInv, TokenInv, OrderInv, [Next]_vars PROVE OrderInv'
  OBVIOUS
<1> USE DEF Goto, list
<1>0. /\ "main" \in Threads /\ "dispatcher" \in Threads /\ \A t \in Helpers : t \in Threads
      /\ pc \in [Threads -> Places]
  BY DEF Threads, TokenInv
<1>1. CASE UNCHANGED vars
  BY <1>1, OtherOrder DEF vars
<1>2. ASSUME NEW o \in Objects, Open(o) PROVE OrderInv'
  BY <1>2, OtherOrder DEF Open
<1>3. ASSUME NEW o \in Objects, Fire(o) \/ Close(o) PROVE OrderInv'
  BY <1>3, EnqueueOrder DEF Fire, Close
<1>4. ASSUME NEW t \in Helpers, CallDispatch(t) PROVE OrderInv'
  BY <1>0, <1>4, OtherOrder DEF CallDispatch
<1>5. ASSUME NEW t \in Threads, Dispatch(t) PROVE OrderInv'
  BY <1>5, DispatchOrder
<1>6. CASE StopDispatch
  BY <1>6, OtherOrder DEF StopDispatch
<1>7. CASE ThreadStart \/ ThreadTest \/ ThreadExit
  BY <1>0, <1>7, OtherOrder DEF ThreadStart, ThreadTest, ThreadExit
<1>8. CASE CreateDispatcher
  <2>1. pc["dispatcher"] = "idle"
    BY <1>8 DEF CreateDispatcher, CareInv, LifeInv
  <2> QED
    BY <1>0, <1>8, <2>1, OtherOrder DEF CreateDispatcher
<1>9. CASE DestroyDispatcher \/ DestroyStops \/ DestroyMarks \/ DestroyJoins
  BY <1>0, <1>9, OtherOrder DEF DestroyDispatcher, DestroyStops, DestroyMarks, DestroyJoins
<1>10. ASSUME NEW how, AskDestroy(how) PROVE OrderInv'
  BY <1>0, <1>10, OtherOrder DEF AskDestroy
<1>11. CASE Destroy \/ DestroyBridge \/ Free
  BY <1>0, <1>11, OtherOrder DEF Destroy, DestroyBridge, Free, Answer
<1> QED
  BY <1>0, <1>1, <1>2, <1>3, <1>4, <1>5, <1>6, <1>7, <1>8, <1>9, <1>10, <1>11
  DEF Next, MainSteps, DispatcherSteps

(* All of it holds of a new queue. *)
LEMMA CareInit == Init => CareInv /\ OrderInv
<1> SUFFICES ASSUME Init PROVE CareInv /\ OrderInv
  OBVIOUS
<1>1. /\ pc \in [Threads -> Places] /\ \A t \in Threads : pc[t] = "idle"
      /\ "main" \in Threads /\ "dispatcher" \in Threads /\ \A t \in Helpers : t \in Threads
  BY DEF Init, Threads, Places
<1>2. PlaceInv
  BY <1>1 DEF Init, PlaceInv, Loop
<1>3. LifeInv
  BY <1>1 DEF Init, LifeInv, NoDispatcher, Destroying, Loop
<1>4. OrderInv
  <2>1. Len(items) = 0 /\ sent = 0 /\ begun = 0 /\ hand \in [Threads -> Nat]
    BY DEF Init
  <2>2. \A i \in 1 .. Len(items) : items[i] = sent - Len(items) + i
    BY <2>1
  <2>3. begun = sent - Len(items)
    BY <2>1
  <2>4. \A t \in Threads : pc[t] # "call"
    BY <1>1
  <2>5. begun \in Nat /\ hand \in [Threads -> Nat]
    BY <2>1
  <2> QED
    BY <2>2, <2>3, <2>4, <2>5, Zenon DEF OrderInv
<1> QED
  BY <1>2, <1>3, <1>4 DEF CareInv

(* A callback that begins is the next event's, and no other is under way. *)
LEMMA NextInOrder ==
    ASSUME CareInv, TokenInv, OrderInv, [Next]_vars, begun' # begun
    PROVE  begun' = begun + 1 /\ \A u \in Threads : pc[u] # "callback"
<1>1. ASSUME NEW t \in Threads, Begin(t)
      PROVE  begun' = begun + 1 /\ \A u \in Threads : pc[u] # "callback"
  BY <1>1, Alone DEF Begin, OrderInv, Loop
<1>2. ASSUME NEW t \in Threads, Dispatch(t) PROVE Begin(t)
  BY <1>2 DEF Dispatch, Enter, CheckWatermarks, Wait, Take, End, Again
<1>3. \E t \in Threads : Dispatch(t)
  BY DEF Next, MainSteps, DispatcherSteps, Threads, vars, Open, Fire, Close, CallDispatch,
         StopDispatch, ThreadStart, ThreadTest, ThreadExit, CreateDispatcher,
         DestroyDispatcher, DestroyStops, DestroyMarks, DestroyJoins, AskDestroy, Destroy,
         DestroyBridge, Free
<1> QED
  BY <1>1, <1>2, <1>3

(* The callbacks of a queue run one at a time and in the order in which its     *)
(* events were put on it, for any number of application threads that call       *)
(* mamaQueue_dispatch beside the dispatcher (qpidBridgeMamaQueue_dispatch), as   *)
(* long as mamaQueue_destroyWait does not dispatch beside them.              *)
THEOREM CallbacksInOrder == ASSUME Careful PROVE Spec => InOrder
<1>1. /\ DispatcherInv /\ TokenInv /\ CareInv /\ OrderInv /\ [Next]_vars
      => [\A t \in Threads : begun' # begun =>
            /\ begun' = begun + 1
            /\ \A u \in Threads : pc[u] # "callback"]_vars
  BY NextInOrder
<1> QED
  BY <1>1, TokenInit, CareInit, DispatcherStep, TokenStep, CareStep, OrderStep, PTL
  DEF Spec, InOrder

-----------------------------------------------------------------------------
(* Memory. *)

(* At most one thread is between the semaphore and the list. *)
LEMMA OneTaker ==
    ASSUME CareInv, TokenInv
    PROVE  Cardinality(Takers) \in 0 .. 1
<1>1. CASE Takers = {}
  BY <1>1, FS_EmptySet
<1>2. ASSUME NEW t \in Takers PROVE Cardinality(Takers) \in 0 .. 1
  <2>1. Takers = {t}
    BY <1>2, Alone DEF Takers, Loop
  <2> QED
    BY <2>1, FS_Singleton
<1> QED
  BY <1>1, <1>2

(* The list grows when it is full, that is, when it has as many events as there *)
(* are tokens, and one more for the thread that holds one.                   *)
LEMMA MemoryStep ==
    CareInv /\ TokenInv /\ MemoryBounded /\ [Next]_vars => MemoryBounded'
<1> SUFFICES ASSUME CareInv, TokenInv, MemoryBounded, [Next]_vars PROVE MemoryBounded'
  OBVIOUS
<1>1. ASSUME Enqueue PROVE MemoryBounded'
  <2>1. /\ Cardinality(Takers) \in 0 .. 1 /\ Len(items) = sem + Cardinality(Takers)
        /\ sem \in Nat /\ alloc \in Nat /\ MaxSize \in Nat /\ ChunkSize \in Nat
    BY OneTaker, EventQueueAssumption DEF TokenInv, TokensMatch
  <2>2. alloc' = Grown \/ alloc' = alloc
    BY <1>1 DEF Enqueue, list
  <2>3. Grown <= MaxSize + 1
    BY <2>1 DEF Grown, MemoryBounded
  <2> QED
    BY <2>2, <2>3 DEF MemoryBounded
<1>2. ASSUME NEW t, Dispatch(t) PROVE alloc' = alloc
  BY <1>2 DEF Dispatch, Enter, CheckWatermarks, Wait, Take, Begin, End, Again, list
<1>3. CASE ~Enqueue
  <2>1. alloc' = alloc
    BY <1>2, <1>3
    DEF Next, MainSteps, DispatcherSteps, vars, list, Open, Fire, Close, CallDispatch,
        StopDispatch, ThreadStart, ThreadTest, ThreadExit, CreateDispatcher,
        DestroyDispatcher, DestroyStops, DestroyMarks, DestroyJoins, AskDestroy, Destroy,
        DestroyBridge, Free
  <2> QED
    BY <2>1 DEF MemoryBounded
<1> QED
  BY <1>1, <1>3

(* wombatQueueImpl_allocChunk compares mMaxSize with the semaphore and not with  *)
(* the list: still, the list's memory passes mMaxSize by at most one item,      *)
(* whatever mMaxSize and mChunkSize are and however many threads dispatch.    *)
THEOREM MemoryIsBounded == ASSUME Careful PROVE Spec => []MemoryBounded
<1>1. Init => MemoryBounded
  BY EventQueueAssumption DEF Init, MemoryBounded
<1> QED
  BY <1>1, TokenInit, CareInit, DispatcherStep, TokenStep, CareStep, MemoryStep, PTL
  DEF Spec

-----------------------------------------------------------------------------
(* Lifetimes. *)

(* Once mamaQueue_destroy has counted no open object, none is opened. *)
LEMMA ObjectStep == CareInv /\ ObjectInv /\ [Next]_vars => ObjectInv'
<1> SUFFICES ASSUME CareInv, ObjectInv, [Next]_vars PROVE ObjectInv'
  OBVIOUS
<1> USE DEF Goto, life, objects
<1>0. /\ "main" \in Threads /\ "dispatcher" \in Threads
      /\ \A t \in Helpers : t \in Threads /\ t # "main"
      /\ pc \in [Threads -> Places]
  BY EventQueueAssumption DEF Threads, CareInv, PlaceInv
<1>a. ASSUME UNCHANGED <<obj, queue>>, pc'["main"] \notin {"lock", "free"} PROVE ObjectInv'
  BY <1>a DEF ObjectInv, OpenSet
<1>b. ASSUME UNCHANGED <<obj, queue>>, pc'["main"] = pc["main"] PROVE ObjectInv'
  BY <1>b DEF ObjectInv, OpenSet
<1>1. CASE UNCHANGED vars
  BY <1>1, <1>b DEF vars
<1>2. ASSUME NEW o \in Objects, Open(o) PROVE ObjectInv'
  <2>1. pc["main"] \notin {"lock", "free"} /\ queue = "live"
    BY <1>2 DEF Open, CareInv, LifeInv, Destroying
  <2>2. OpenSet' = OpenSet \cup {o}
    BY <1>2 DEF Open, OpenSet, ObjectInv
  <2>3. IsFiniteSet(OpenSet')
    BY <2>2, FS_AddElement DEF ObjectInv
  <2> QED
    BY <1>2, <2>1, <2>3 DEF Open, ObjectInv
<1>3. ASSUME NEW o \in Objects, Fire(o) PROVE ObjectInv'
  BY <1>3, <1>b DEF Fire
<1>4. ASSUME NEW o \in Objects, Close(o) PROVE ObjectInv'
  <2>1. OpenSet' = OpenSet
    BY <1>4 DEF Close, OpenSet, ObjectInv
  <2> QED
    BY <1>4, <2>1 DEF Close, ObjectInv
<1>5. ASSUME NEW t \in Helpers, CallDispatch(t) PROVE ObjectInv'
  BY <1>0, <1>5, <1>b DEF CallDispatch
<1>6. ASSUME NEW t \in Threads, End(t) PROVE ObjectInv'
  <2>1. OpenSet' \subseteq OpenSet
    BY <1>6 DEF End, OpenSet, ObjectInv
  <2>2. IsFiniteSet(OpenSet')
    BY <2>1, FS_Subset DEF ObjectInv
  <2>3. pc'["main"] \in {"lock", "free"} => pc["main"] \in {"lock", "free"}
    BY <1>0, <1>6 DEF End
  <2>4. obj' \in [Objects -> {"none", "open", "closing", "gone"}] /\ queue' = queue
    BY <1>6 DEF End, ObjectInv
  <2> QED
    BY <2>1, <2>2, <2>3, <2>4 DEF ObjectInv
<1>7. ASSUME NEW t \in Threads, Dispatch(t), ~End(t) PROVE ObjectInv'
  <2>1. /\ UNCHANGED <<obj, queue>>
        /\ pc'["main"] = pc["main"] \/ pc'["main"] \notin {"lock", "free"}
    BY <1>0, <1>7 DEF Dispatch, Enter, CheckWatermarks, Wait, Take, Begin, Again, Back
  <2> QED
    BY <2>1, <1>a, <1>b
<1>8. CASE StopDispatch
  BY <1>8, <1>b DEF StopDispatch
<1>9. CASE ThreadStart \/ ThreadTest \/ ThreadExit \/ CreateDispatcher
  BY <1>0, <1>9, <1>b DEF ThreadStart, ThreadTest, ThreadExit, CreateDispatcher
<1>10. CASE DestroyDispatcher \/ DestroyStops \/ DestroyMarks \/ DestroyJoins
  BY <1>0, <1>10, <1>a DEF DestroyDispatcher, DestroyStops, DestroyMarks, DestroyJoins
<1>11. ASSUME NEW how, AskDestroy(how) PROVE ObjectInv'
  BY <1>0, <1>11, <1>a DEF AskDestroy
<1>12. CASE Destroy
  <2>1. CASE OpenObjects = 0
    <3>1. OpenSet = {}
      BY <2>1, FS_EmptySet DEF OpenObjects, OpenSet, ObjectInv
    <3> QED
      BY <1>12, <3>1 DEF Destroy, ObjectInv, OpenSet
  <2>2. CASE OpenObjects # 0
    BY <1>0, <1>12, <2>2, <1>a DEF Destroy, Answer
  <2> QED
    BY <2>1, <2>2
<1>13. CASE DestroyBridge \/ Free
  BY <1>13 DEF DestroyBridge, Free, ObjectInv, OpenSet
<1> QED
  BY <1>0, <1>1, <1>2, <1>3, <1>4, <1>5, <1>6, <1>7, <1>8, <1>9, <1>10, <1>11, <1>12, <1>13
  DEF Next, MainSteps, DispatcherSteps

(* With care, no thread is in a queue that was freed, for any number of threads *)
(* and objects: mamaQueue_destroy's count of open objects and the dispatch lock  *)
(* that qpidBridgeMamaQueue_destroy takes are enough, although neither is held   *)
(* from the check to the free; and mamaDispatcher_destroy finds its queue.    *)
THEOREM FreedIsUnused == ASSUME Careful PROVE Spec => []NoUseAfterFree
<1>1. Init => ObjectInv
  <2> SUFFICES ASSUME Init PROVE ObjectInv
    OBVIOUS
  <2>1. OpenSet = {}
    BY DEF Init, OpenSet
  <2> QED
    BY <2>1, FS_EmptySet DEF Init, ObjectInv
<1>2. CareInv /\ ObjectInv => NoUseAfterFree
  <2> SUFFICES ASSUME CareInv, ObjectInv PROVE NoUseAfterFree
    OBVIOUS
  <2>0. "dispatcher" \in Threads /\ \A t \in Threads : t \in Helpers \cup {"main", "dispatcher"}
    BY DEF Threads
  <2>1. ASSUME queue # "live", NEW t \in Threads PROVE ~Using(t)
    <3>1. pc["dispatcher"] = "idle" /\ pc["main"] \in {"idle", "free"}
      BY <2>1 DEF CareInv, LifeInv
    <3>2. \A u \in Helpers : pc[u] = "idle"
      BY <2>1 DEF CareInv, LifeInv
    <3> QED
      BY <2>0, <3>1, <3>2 DEF Using
  <2>2. queue # "live" => OpenObjects = 0
    <3>1. queue # "live" => OpenSet = {}
      BY DEF ObjectInv
    <3> QED
      BY <3>1, FS_EmptySet DEF OpenObjects, OpenSet
  <2>3. ~disp.live => pc["dispatcher"] = "idle"
    BY DEF CareInv, LifeInv
  <2>4. pc["main"] = "join" => disp.queue
    BY DEF CareInv, LifeInv
  <2> QED
    BY <2>1, <2>2, <2>3, <2>4 DEF NoUseAfterFree
<1> QED
  BY <1>1, <1>2, CareInit, CareStep, ObjectStep, PTL DEF Spec
=============================================================================
