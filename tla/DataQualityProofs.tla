-------------------------- MODULE DataQualityProofs --------------------------
(***************************************************************************)
(* Data quality for every setting, any number of messages, losses,           *)
(* repetitions and takeovers: what the application is told, what is asked of   *)
(* the publisher, and that the variables keep their types.  For subscriptions  *)
(* that drop old updates of one publisher, also that no update is missing      *)
(* while the quality is OK.                                                 *)
(***************************************************************************)
EXTENDS DataQuality, SelectionProofs

-----------------------------------------------------------------------------
(* onQuality. *)

(* QualityIsTold with the states from which resetDqState, and a gap, say        *)
(* nothing: there is nothing to say.                                        *)
ToldInv ==
    /\ dq \in {"OK", "NOT_ESTABLISHED"} => told = "OK"
    /\ dq = "POSSIBLY_STALE" => told # "OK"
    /\ dq = "WAITING_FOR_RECAP" => told # "OK" \/ own

(* Images. *)
LEMMA ImageTold == ASSUME ToldInv, NEW m, ProcessImage(m), OwnWaitEnds PROVE ToldInv'
  BY DEF ProcessImage, ResetDqState, State, ToldInv

(* Updates. *)
LEMMA UpdateTold == ASSUME ToldInv, NEW m, CheckSeqNum(m), OwnWaitEnds PROVE ToldInv'
<1>1. CASE AcceptTakeover(m)
  BY <1>1 DEF AcceptTakeover, ResetDqState, ToldInv, OwnWaitEnds
<1>2. CASE NoGap(m)
  BY <1>2 DEF NoGap, ResetDqState, State, ToldInv, OwnWaitEnds
<1>3. CASE Dropped(m)
  BY <1>3 DEF Dropped, State, ToldInv, OwnWaitEnds
<1>4. CASE Duplicate(m)
  BY <1>4 DEF Duplicate, ToldInv, OwnWaitEnds
<1>5. CASE Gap(m)
  BY <1>5 DEF Gap, State, ToldInv, OwnWaitEnds
<1> QED
  BY <1>1, <1>2, <1>3, <1>4, <1>5 DEF CheckSeqNum, MissedSequence

(* Every step keeps the application informed. *)
LEMMA ToldStep == ToldInv /\ [Next]_vars => ToldInv'
<1> SUFFICES ASSUME ToldInv, [Next]_vars PROVE ToldInv'
  OBVIOUS
<1>1. CASE UNCHANGED vars
  BY <1>1 DEF vars, context, history, ToldInv
<1>2. ASSUME NEW k, NEW st, Publish(k, st) PROVE ToldInv'
  BY <1>2 DEF Publish, context, history, ToldInv
<1>3. CASE PublishRecap \/ Takeover \/ Lose \/ Repeat
  BY <1>3 DEF PublishRecap, Takeover, Lose, Repeat, context, history, ToldInv
<1>4. CASE SetPossiblyStale \/ RequestRecap
  BY <1>4 DEF SetPossiblyStale, RequestRecap, history, ToldInv
<1>8. CASE RecapTimeout \/ Refusal
  BY <1>8 DEF RecapTimeout, Refusal, StopWaitForResponse, context, ToldInv
<1>5. ASSUME NEW st, Answer(st) PROVE ToldInv'
  BY <1>5 DEF Answer, context, history, ToldInv
<1>6. CASE ProcessUpdate
  BY <1>6, UpdateTold DEF ProcessUpdate, ToldInv, OwnWaitEnds
<1>7. CASE ProcessRecap \/ ProcessReply
  BY <1>7, ImageTold DEF ProcessRecap, ProcessReply
<1> QED
  BY <1>1, <1>2, <1>3, <1>4, <1>5, <1>6, <1>7, <1>8 DEF Next, Environment, Respond, Process

(* For every setting: an application that was told of bad data is told when      *)
(* they are good again (resetDqState), and is never left to believe in data      *)
(* for which a recap is awaited, whichever of a gap, a stale message, a          *)
(* disconnection or a takeover made the subscription wait (handleStaleData); its   *)
(* own request is the one exception, of which onQuality says nothing.          *)
THEOREM QualityKeepsUp == Spec => []QualityIsTold
<1>1. Init => ToldInv
  BY DEF Init, ToldInv
<1>2. ToldInv => QualityIsTold
  BY DEF ToldInv, QualityIsTold
<1> QED
  BY <1>1, <1>2, ToldStep, PTL DEF Spec

-----------------------------------------------------------------------------
(* Recap requests. *)

(* Images. *)
LEMMA ImageAsked == ASSUME NEW m, ProcessImage(m) PROVE WaitingIsAsked'
  BY DEF ProcessImage, ResetDqState, WaitingIsAsked

(* Updates. *)
LEMMA UpdateAsked == ASSUME WaitingIsAsked, NEW m, CheckSeqNum(m) PROVE WaitingIsAsked'
<1>1. CASE AcceptTakeover(m) \/ NoGap(m)
  BY <1>1 DEF AcceptTakeover, NoGap, ResetDqState, WaitingIsAsked
<1>2. CASE Dropped(m) \/ Duplicate(m)
  BY <1>2 DEF Dropped, Duplicate, State, WaitingIsAsked
<1>3. CASE Gap(m)
  <2>1. \/ dq' = State(m) /\ asked' = asked /\ givenUp' = givenUp
        \/ /\ dq' = "WAITING_FOR_RECAP"
           /\ asked' = IF State(m) = "WAITING_FOR_RECAP" THEN asked ELSE asked \cup {"recap"}
           /\ givenUp' = (givenUp /\ State(m) = "WAITING_FOR_RECAP")
    BY <1>3 DEF Gap
  <2>2. CASE State(m) = "WAITING_FOR_RECAP"
    <3>1. dq = "WAITING_FOR_RECAP"
      BY <2>2 DEF State
    <3>2. CASE givenUp
      BY <2>1, <2>2, <3>2, Zenon DEF WaitingIsAsked
    <3>3. CASE ~givenUp
      BY <2>1, <2>2, <3>1, <3>3 DEF WaitingIsAsked
    <3> QED
      BY <3>2, <3>3
  <2>3. CASE State(m) # "WAITING_FOR_RECAP"
    BY <2>1, <2>3 DEF WaitingIsAsked
  <2> QED
    BY <2>2, <2>3
<1> QED
  BY <1>1, <1>2, <1>3 DEF CheckSeqNum, MissedSequence

(* Every step keeps the request, or ends the wait, or gives the request up. *)
LEMMA AskedStep == WaitingIsAsked /\ [Next]_vars => WaitingIsAsked'
<1> SUFFICES ASSUME WaitingIsAsked, [Next]_vars PROVE WaitingIsAsked'
  OBVIOUS
<1> USE DEF context, history
<1>1. CASE UNCHANGED vars
  BY <1>1 DEF vars, WaitingIsAsked
<1>2. ASSUME NEW k, NEW st, Publish(k, st) PROVE WaitingIsAsked'
  BY <1>2 DEF Publish, WaitingIsAsked
<1>3. CASE PublishRecap \/ Takeover \/ Lose \/ Repeat
  BY <1>3 DEF PublishRecap, Takeover, Lose, Repeat, WaitingIsAsked
<1>4. CASE SetPossiblyStale \/ RequestRecap
  BY <1>4 DEF SetPossiblyStale, RequestRecap, WaitingIsAsked
<1>5. CASE RecapTimeout \/ Refusal
  BY <1>5 DEF RecapTimeout, Refusal, StopWaitForResponse, WaitingIsAsked
<1>6. ASSUME NEW st, Answer(st) PROVE WaitingIsAsked'
  BY <1>6 DEF Answer, WaitingIsAsked
<1>7. CASE ProcessUpdate
  <2>1. CASE CheckSeqNum(Head(wire))
    BY <2>1, UpdateAsked
  <2>2. CASE UNCHANGED <<dq, asked, givenUp>>
    BY <2>2 DEF WaitingIsAsked
  <2> QED
    BY <1>7, <2>1, <2>2 DEF ProcessUpdate
<1>8. CASE ProcessRecap \/ ProcessReply
  BY <1>8, ImageAsked DEF ProcessRecap, ProcessReply
<1> QED
  BY <1>1, <1>2, <1>3, <1>4, <1>5, <1>6, <1>7, <1>8 DEF Next, Environment, Respond, Process

(* For every setting: a subscription that waits for a recap has a request that  *)
(* is to be answered, unless that request was given up, unanswered or refused     *)
(* (imageRequest_stopWaitForResponse).  An image that answers an earlier request,  *)
(* or comes unasked, never ends the request and leaves the wait, and a wait that   *)
(* begins after one was given up asks again (dqStrategy_sendRecapRequest).        *)
THEOREM WaitsForAnAnswer == Spec => []WaitingIsAsked
<1>1. Init => WaitingIsAsked
  BY DEF Init, WaitingIsAsked
<1> QED
  BY <1>1, AskedStep, PTL DEF Spec

-----------------------------------------------------------------------------
(* Scans of the cache. *)

(* What every turn of the loop keeps, the scan keeps. *)
LEMMA ScanKeeps ==
    ASSUME NEW M, NEW ms \in Seq(M), NEW v, NEW from, NEW end, NEW stops, NEW X,
           [last |-> from, view |-> v, over |-> FALSE] \in X,
           \A acc \in X : \A m \in M : ScanStep(acc, m, end, stops) \in X
    PROVE  Scan(ms, v, from, end, stops) \in X
<1> DEFINE n == Len(ms)
           x0 == [last |-> from, view |-> v, over |-> FALSE]
           step == [k \in 1 .. n |-> [x \in X |-> ScanStep(x, ms[k], end, stops)]]
           Body(f) == [k \in 0 .. n |-> IF k = 0 THEN x0
                                        ELSE ScanStep(f[k - 1], ms[k], end, stops)]
           g == CHOOSE f : f = Body(f)
<1>1. n \in Nat /\ \A k \in 1 .. n : ms[k] \in M
  OBVIOUS
<1>2. step \in [1 .. n -> [X -> X]]
  BY <1>1
<1>3. x0 \in X
  OBVIOUS
<1>4. Scan(ms, v, from, end, stops) = g[n]
  BY DEF Scan
<1> HIDE DEF n, step, x0
<1>5. PICK f : LoopStates(n, X, x0, step, f)
  BY <1>1, <1>2, <1>3, LoopRuns
<1>6. f \in [0 .. n -> X] /\ f[0] = x0 /\ \A i \in 1 .. n : f[i] = step[i][f[i - 1]]
  BY <1>5 DEF LoopStates
<1>7. \A i \in 1 .. n : f[i] = ScanStep(f[i - 1], ms[i], end, stops)
  <2> SUFFICES ASSUME NEW i \in 1 .. n PROVE f[i] = ScanStep(f[i - 1], ms[i], end, stops)
    OBVIOUS
  <2>1. i - 1 \in 0 .. n
    BY <1>1
  <2>2. f[i - 1] \in X
    BY <1>6, <2>1
  <2> QED
    BY <1>6, <2>2 DEF step
<1>8. f = Body(f)
  <2>1. \A k \in 0 .. n : f[k] = IF k = 0 THEN x0 ELSE ScanStep(f[k - 1], ms[k], end, stops)
    <3> SUFFICES ASSUME NEW k \in 0 .. n
                 PROVE  f[k] = IF k = 0 THEN x0 ELSE ScanStep(f[k - 1], ms[k], end, stops)
      OBVIOUS
    <3>1. k = 0 \/ k \in 1 .. n
      BY <1>1
    <3> QED
      BY <1>6, <1>7, <3>1
  <2> QED
    BY <1>6, <2>1
<1>9. g = Body(g)
  BY <1>8
<1> HIDE DEF g
<1>10. \A k \in 0 .. n : g[k] = IF k = 0 THEN x0 ELSE ScanStep(g[k - 1], ms[k], end, stops)
  <2> SUFFICES ASSUME NEW k \in 0 .. n
               PROVE  g[k] = IF k = 0 THEN x0 ELSE ScanStep(g[k - 1], ms[k], end, stops)
    OBVIOUS
  <2>1. Body(g)[k] = IF k = 0 THEN x0 ELSE ScanStep(g[k - 1], ms[k], end, stops)
    OBVIOUS
  <2> QED
    BY <1>9, <2>1
<1>11. g[n] \in X
  <2> DEFINE S == {k \in 0 .. n : g[k] \notin X}
  <2> SUFFICES ASSUME S # {} PROVE FALSE
    BY <1>1
  <2>1. S \in SUBSET Nat
    BY <1>1
  <2>2. PICK k \in S : \A j \in S : k <= j
    BY <2>1, Smallest
  <2>3. k \in 0 .. n /\ g[k] \notin X
    OBVIOUS
  <2>4. k # 0
    BY <1>3, <1>10, <2>3
  <2>5. k \in 1 .. n /\ k - 1 \in 0 .. n /\ ~(k <= k - 1)
    BY <1>1, <2>3, <2>4
  <2>6. g[k - 1] \in X
    BY <2>2, <2>5
  <2> QED
    BY <1>1, <1>10, <2>3, <2>4, <2>5, <2>6
<1> QED
  BY <1>4, <1>11

-----------------------------------------------------------------------------
(* Types. *)

(* What the publisher, the network and the inbox keep, with what was chosen. *)
OutsideType ==
    /\ set \in Settings
    /\ head \in 1 .. MaxSeq /\ sender \in 1 .. MaxTakeovers + 1
    /\ wire \in Seq(Msg) /\ Len(wire) <= MaxWire
    /\ reply \in Msgs

(* The cache: the slots below mCurCacheIdx have been written. *)
CacheType ==
    /\ cache \in Seq(Msg) /\ Len(cache) <= CacheSize
    /\ idx \in 0 .. CacheSize - 1 /\ idx <= Len(cache)

(* What the subscription keeps besides. *)
QualityType ==
    /\ dq \in DqStates
    /\ seq \in 0 .. MaxSeq
    /\ sid \in 0 .. MaxTakeovers + 1
    /\ try \in BOOLEAN /\ gap \in BOOLEAN /\ givenUp \in BOOLEAN
    /\ asked \subseteq {"initial", "recap"}
    /\ told \in {"OK", "STALE", "MAYBE_STALE", "DUPLICATE"}
    /\ view \in ViewType

TypeInv == OutsideType /\ CacheType /\ QualityType /\ expecting \in BOOLEAN /\ own \in BOOLEAN

(* The bounds are numbers. *)
LEMMA BoundsAreNumbers ==
    /\ MaxSeq \in Nat \ {0} /\ CacheSize \in Nat \ {0} /\ MaxTakeovers \in Nat /\ MaxWire \in Nat
    /\ Counts \subseteq Nat \ {0} /\ Statuses \subseteq {"OK", "STALE"}
    /\ Settings \subseteq SettingType
  BY DataQualityAssumption

(* A message, field by field. *)
LEMMA MsgFields ==
    ASSUME NEW m \in Msg
    PROVE  /\ m.type \in {"update", "initial", "recap"} /\ m.seq \in 0 .. MaxSeq
           /\ m.count \in Nat \ {0} /\ m.sender \in 1 .. MaxTakeovers + 1
           /\ m.status \in {"OK", "STALE"}
<1>1. /\ m.type \in {"update", "initial", "recap"} /\ m.seq \in 0 .. MaxSeq
      /\ m.count \in Counts \cup {1} /\ m.sender \in 1 .. MaxTakeovers + 1
      /\ m.status \in Statuses \cup {"OK"}
  BY DEF Msg
<1>2. 1 \in Nat \ {0}
  OBVIOUS
<1> QED
  BY <1>1, <1>2, BoundsAreNumbers

(* What is shown has the type of a view. *)
LEMMA ShowType ==
    ASSUME NEW v \in ViewType, NEW m \in Msg
    PROVE  Show(v, m) \in ViewType /\ Fresh(m) \in ViewType
<1>1. /\ m.seq \in 0 .. MaxSeq /\ m.sender \in 1 .. MaxTakeovers + 1
      /\ MaxSeq \in Nat /\ MaxTakeovers \in Nat
  BY MsgFields, BoundsAreNumbers
<1>2. v.top \in 0 .. MaxSeq
  BY DEF ViewType
<1>3. m.sender \in 0 .. MaxTakeovers + 1 /\ m.seq + 1 \in 1 .. MaxSeq + 1
  BY <1>1
<1>4. (IF m.seq > v.top THEN m.seq ELSE v.top) \in 0 .. MaxSeq
  BY <1>1, <1>2
<1>5. (v.hole \/ m.sender # v.from \/ m.seq - m.count >= v.next) \in BOOLEAN
  OBVIOUS
<1>6. Fresh(m) \in ViewType
  BY <1>1, <1>3 DEF Fresh, ViewType
<1> QED
  BY <1>3, <1>4, <1>5, <1>6 DEF Show, ViewType

(* A scan shows messages and counts on. *)
ScanType == [last : 0 .. MaxSeq, view : ViewType, over : BOOLEAN]

(* One turn keeps the type. *)
LEMMA ScanStepType ==
    ASSUME NEW acc \in ScanType, NEW m \in Msg, NEW end, NEW stops \in BOOLEAN
    PROVE  ScanStep(acc, m, end, stops) \in ScanType
<1>1. acc.last \in 0 .. MaxSeq /\ acc.view \in ViewType /\ acc.over \in BOOLEAN
  BY DEF ScanType
<1>2. m.seq \in 0 .. MaxSeq
  BY MsgFields
<1>3. Show(acc.view, m) \in ViewType
  BY <1>1, ShowType
<1>4. CASE acc.over
  BY <1>4 DEF ScanStep
<1>5. CASE ~acc.over /\ m.seq = acc.last + 1
  <2> DEFINE o == m.seq + 1 = end
  <2>1. ScanStep(acc, m, end, stops) = [last |-> m.seq, view |-> Show(acc.view, m), over |-> o]
    BY <1>5 DEF ScanStep
  <2>2. o \in BOOLEAN
    OBVIOUS
  <2> HIDE DEF o
  <2> QED
    BY <1>2, <1>3, <2>1, <2>2 DEF ScanType
<1>6. CASE ~acc.over /\ m.seq # acc.last + 1
  <2> DEFINE o == stops /\ m.seq > acc.last + 1
  <2>1. ScanStep(acc, m, end, stops) = [acc EXCEPT !.over = o]
    BY <1>6 DEF ScanStep
  <2>2. o \in BOOLEAN
    OBVIOUS
  <2> HIDE DEF o
  <2> QED
    BY <2>1, <2>2 DEF ScanType
<1> QED
  BY <1>1, <1>4, <1>5, <1>6

(* So does the scan, of a cache of any length. *)
LEMMA ScanHasType ==
    ASSUME NEW ms \in Seq(Msg), NEW v \in ViewType, NEW from \in 0 .. MaxSeq, NEW end,
           NEW stops \in BOOLEAN
    PROVE  Scan(ms, v, from, end, stops) \in ScanType
<1>1. [last |-> from, view |-> v, over |-> FALSE] \in ScanType
  BY DEF ScanType
<1>2. \A acc \in ScanType : \A m \in Msg : ScanStep(acc, m, end, stops) \in ScanType
  BY ScanStepType
<1> QED
  BY <1>1, <1>2, ScanKeeps

(* The part of the ring that an image is followed by. *)
LEMMA WrittenType ==
    ASSUME CacheType
    PROVE  SubSeq(cache, Len(cache) - idx + 1, Len(cache)) \in Seq(Msg)
<1>1. Len(cache) \in Nat /\ idx \in Nat /\ idx <= Len(cache)
  BY BoundsAreNumbers DEF CacheType
<1>2. Len(cache) - idx + 1 \in 1 .. Len(cache) + 1
  BY <1>1
<1> QED
  BY <1>1, <1>2 DEF CacheType

(* dqContext_cacheMsg: the index wraps when the ring is full, and not before. *)
LEMMA CacheMsgType ==
    ASSUME CacheType, NEW m \in Msg, CacheMsg(m)
    PROVE  CacheType'
<1>1. /\ Len(cache) \in Nat /\ idx \in Nat /\ idx <= Len(cache) /\ CacheSize \in Nat \ {0}
      /\ Len(cache) <= CacheSize /\ cache \in Seq(Msg)
  BY BoundsAreNumbers DEF CacheType
<1>2. /\ idx' \in 0 .. CacheSize - 1 /\ idx' <= idx + 1
  <2>1. CASE idx + 1 < CacheSize
    <3>1. idx + 1 \in 0 .. CacheSize - 1
      BY <1>1, <2>1
    <3>2. (idx + 1) % CacheSize = idx + 1
      BY <1>1, <3>1, SMTT(30)
    <3> QED
      BY <1>1, <3>1, <3>2 DEF CacheMsg
  <2>2. CASE idx + 1 = CacheSize
    <3>1. (idx + 1) % CacheSize = 0
      BY <1>1, <2>2
    <3> QED
      BY <1>1, <3>1 DEF CacheMsg
  <2> QED
    BY <1>1, <2>1, <2>2 DEF CacheType
<1>3. CASE Len(cache) < CacheSize
  <2>1. cache' = Append(cache, m)
    BY <1>3 DEF CacheMsg
  <2>2. cache' \in Seq(Msg) /\ Len(cache') = Len(cache) + 1
    BY <1>1, <2>1
  <2> QED
    BY <1>1, <1>2, <1>3, <2>2 DEF CacheType
<1>4. CASE ~(Len(cache) < CacheSize)
  <2>1. cache' = Append(Tail(cache), m) /\ Len(cache) = CacheSize
    BY <1>1, <1>4 DEF CacheMsg
  <2>2. Tail(cache) \in Seq(Msg) /\ Len(Tail(cache)) = Len(cache) - 1
    BY <1>1, <2>1
  <2>3. cache' \in Seq(Msg) /\ Len(cache') = CacheSize
    BY <1>1, <2>1, <2>2
  <2> QED
    BY <1>1, <1>2, <2>3 DEF CacheType
<1> QED
  BY <1>3, <1>4

(* dqContext_clearCache. *)
LEMMA ClearCacheType ==
    ASSUME CacheType, NEW c, ClearCacheIf(c)
    PROVE  CacheType'
<1>1. CASE c
  <2>1. cache' = <<>> /\ idx' = 0
    BY <1>1 DEF ClearCacheIf
  <2> QED
    BY <2>1, BoundsAreNumbers DEF CacheType
<1>2. CASE ~c
  BY <1>2 DEF ClearCacheIf, CacheType
<1> QED
  BY <1>1, <1>2

(* An image. *)
LEMMA ImageType ==
    ASSUME TypeInv, NEW m \in Msg, ProcessImage(m)
    PROVE  CacheType' /\ QualityType' /\ expecting' \in BOOLEAN /\ reply' \in Msgs
<1>1. CacheType'
  BY ClearCacheType DEF ProcessImage, TypeInv
<1>2. expecting' \in BOOLEAN /\ reply' \in Msgs /\ asked' \subseteq {"initial", "recap"}
  BY DEF ProcessImage, Msgs
<1>3. Fresh(m) \in ViewType /\ m.seq \in 0 .. MaxSeq /\ m.sender \in 0 .. MaxTakeovers + 1
  <2>1. view \in ViewType
    BY DEF TypeInv, QualityType
  <2> QED
    BY <2>1, ShowType, MsgFields, BoundsAreNumbers
<1>4. ApplyPreInitialCache(Fresh(m), m.seq) \in ScanType
  BY <1>3, WrittenType, ScanHasType DEF ApplyPreInitialCache, TypeInv
<1>5. /\ ApplyPreInitialCache(Fresh(m), m.seq).last \in 0 .. MaxSeq
      /\ ApplyPreInitialCache(Fresh(m), m.seq).view \in ViewType
  BY <1>4 DEF ScanType
<1>6. seq' \in 0 .. MaxSeq /\ view' \in ViewType
  BY <1>3, <1>5 DEF ProcessImage
<1>7. dq' \in DqStates /\ told' \in {"OK", "STALE", "MAYBE_STALE", "DUPLICATE"}
  BY DEF ProcessImage, ResetDqState, DqStates, TypeInv, QualityType
<1>8. try' \in BOOLEAN /\ gap' \in BOOLEAN /\ givenUp' \in BOOLEAN /\ sid' \in 0 .. MaxTakeovers + 1
  BY <1>3 DEF ProcessImage, TypeInv, QualityType
<1> QED
  BY <1>1, <1>2, <1>6, <1>7, <1>8 DEF QualityType

(* An update. *)
LEMMA UpdateType ==
    ASSUME TypeInv, NEW m \in Msg, CheckSeqNum(m)
    PROVE  CacheType' /\ QualityType'
<1>1. /\ view \in ViewType /\ Show(view, m) \in ViewType /\ Fresh(m) \in ViewType
      /\ m.seq \in 0 .. MaxSeq /\ m.sender \in 0 .. MaxTakeovers + 1
      /\ seq \in 0 .. MaxSeq /\ dq \in DqStates
  BY ShowType, MsgFields, BoundsAreNumbers DEF TypeInv, QualityType
<1>2. /\ Base(m) \in 0 .. MaxSeq /\ State(m) \in DqStates /\ Forward(view, m) \in ViewType
  BY <1>1 DEF Base, State, Forward, DqStates
<1>3. CASE AcceptTakeover(m)
  BY <1>1, <1>3 DEF AcceptTakeover, ResetDqState, DqStates, TypeInv, QualityType, CacheType
<1>4. CASE NoGap(m)
  <2>1. CacheType'
    BY <1>4, ClearCacheType DEF NoGap, TypeInv
  <2> QED
    BY <1>1, <1>2, <1>4, <2>1 DEF NoGap, ResetDqState, DqStates, TypeInv, QualityType
<1>5. CASE Dropped(m)
  <2>1. CacheType'
    BY <1>5, ClearCacheType DEF Dropped, TypeInv
  <2> QED
    BY <1>1, <1>2, <1>5, <2>1 DEF Dropped, TypeInv, QualityType
<1>6. CASE Duplicate(m)
  BY <1>1, <1>2, <1>6 DEF Duplicate, DqStates, TypeInv, QualityType, CacheType
<1>7. CASE Gap(m)
  <2>1. CacheType'
    BY <1>7, ClearCacheType DEF Gap, TypeInv
  <2>2. FillGap(view, Base(m), m.seq) \in ScanType
    BY <1>1, <1>2, ScanHasType DEF FillGap, TypeInv, CacheType
  <2>3. FillGap(view, Base(m), m.seq).view \in ViewType
    BY <2>2 DEF ScanType
  <2>4. Forward(FillGap(view, Base(m), m.seq).view, m) \in ViewType
    BY <2>3, ShowType DEF Forward
  <2>5. view' \in ViewType
    BY <1>2, <1>7, <2>4 DEF Gap
  <2>6. /\ try' \in BOOLEAN /\ gap' \in BOOLEAN /\ givenUp' \in BOOLEAN /\ sid' \in 0 .. MaxTakeovers + 1
        /\ dq' \in DqStates /\ seq' \in 0 .. MaxSeq
    BY <1>1, <1>2, <1>7 DEF Gap, DqStates, TypeInv, QualityType
  <2>7. /\ asked' \subseteq {"initial", "recap"}
        /\ told' \in {"OK", "STALE", "MAYBE_STALE", "DUPLICATE"}
    BY <1>7 DEF Gap, TypeInv, QualityType
  <2> QED
    BY <2>1, <2>5, <2>6, <2>7 DEF QualityType
<1> QED
  BY <1>3, <1>4, <1>5, <1>6, <1>7 DEF CheckSeqNum, MissedSequence

(* A message leaves or joins the wire. *)
LEMMA WireType ==
    ASSUME OutsideType, wire # <<>>
    PROVE  Head(wire) \in Msg /\ Tail(wire) \in Seq(Msg) /\ Len(Tail(wire)) <= MaxWire
  BY BoundsAreNumbers DEF OutsideType

(* A message is sent, or repeated. *)
LEMMA AppendType ==
    ASSUME OutsideType, NEW m \in Msg, Len(wire) < MaxWire
    PROVE  /\ Append(wire, m) \in Seq(Msg) /\ Len(Append(wire, m)) <= MaxWire
           /\ <<m>> \o wire \in Seq(Msg) /\ Len(<<m>> \o wire) <= MaxWire
  BY BoundsAreNumbers DEF OutsideType

(* The images of the publisher. *)
LEMMA ImageIsMsg ==
    ASSUME OutsideType, NEW type \in {"initial", "recap"}, NEW st \in Statuses \cup {"OK"}
    PROVE  Image(type, st) \in Msg
  BY BoundsAreNumbers DEF OutsideType, Image, Msg

(* Every step keeps the types. *)
LEMMA TypeStep == TypeInv /\ [Next]_vars => TypeInv'
<1> SUFFICES ASSUME TypeInv, [Next]_vars PROVE TypeInv'
  OBVIOUS
<1> USE DEF context, publisher, history
<1>a. OutsideType /\ CacheType /\ QualityType /\ expecting \in BOOLEAN /\ own \in BOOLEAN
  BY DEF TypeInv
<1>b. UNCHANGED <<set, head, sender, wire, reply>> => OutsideType'
  BY <1>a DEF OutsideType
<1>c. UNCHANGED <<cache, idx>> => CacheType'
  BY <1>a DEF CacheType
<1>d. UNCHANGED <<dq, seq, sid, try, gap, asked, told, view, givenUp>> => QualityType'
  BY <1>a DEF QualityType
<1>f. OwnWaitEnds => own' \in BOOLEAN
  BY <1>a DEF OwnWaitEnds
<1>1. CASE UNCHANGED vars
  BY <1>1, <1>a, <1>b, <1>c, <1>d DEF vars, TypeInv
<1>2. ASSUME NEW k \in Counts, NEW st \in Statuses, Publish(k, st) PROVE TypeInv'
  <2> DEFINE m == [type |-> "update", seq |-> head', count |-> k, sender |-> sender,
                   status |-> st]
  <2>1. k \in Nat \ {0} /\ head' = head + k /\ head' \in 1 .. MaxSeq
    BY <1>2, <1>a, BoundsAreNumbers DEF Publish, OutsideType
  <2>2. m \in Msg
    BY <1>a, <2>1, BoundsAreNumbers DEF OutsideType, Msg
  <2>3. wire' = Append(wire, m) /\ Len(wire) < MaxWire
    BY <1>2 DEF Publish
  <2> HIDE DEF m
  <2>4. OutsideType'
    BY <1>2, <1>a, <2>1, <2>2, <2>3, AppendType DEF Publish, OutsideType
  <2> QED
    BY <1>2, <1>a, <1>c, <1>d, <2>4 DEF Publish, TypeInv
<1>3. CASE PublishRecap
  <2>1. Image("recap", "OK") \in Msg
    BY <1>a, ImageIsMsg
  <2>2. OutsideType'
    BY <1>3, <1>a, <2>1, AppendType DEF PublishRecap, OutsideType
  <2> QED
    BY <1>3, <1>a, <1>c, <1>d, <2>2 DEF PublishRecap, TypeInv
<1>4. CASE Takeover
  <2>1. sender' \in 1 .. MaxTakeovers + 1 /\ head' \in 1 .. MaxSeq
    BY <1>4, <1>a, BoundsAreNumbers DEF Takeover, OutsideType
  <2>2. OutsideType'
    BY <1>4, <1>a, <2>1 DEF Takeover, OutsideType
  <2> QED
    BY <1>4, <1>a, <1>c, <1>d, <2>2 DEF Takeover, TypeInv
<1>5. CASE Lose
  <2>1. OutsideType'
    BY <1>5, <1>a, WireType DEF Lose, OutsideType
  <2> QED
    BY <1>5, <1>a, <1>c, <1>d, <2>1 DEF Lose, TypeInv
<1>6. CASE Repeat
  <2>1. Head(wire) \in Msg
    BY <1>6, <1>a, WireType DEF Repeat
  <2>2. OutsideType'
    BY <1>6, <1>a, <2>1, AppendType DEF Repeat, OutsideType
  <2> QED
    BY <1>6, <1>a, <1>c, <1>d, <2>2 DEF Repeat, TypeInv
<1>7. CASE SetPossiblyStale \/ RequestRecap
  <2>1. QualityType'
    BY <1>7, <1>a DEF SetPossiblyStale, RequestRecap, QualityType, DqStates
  <2> QED
    BY <1>7, <1>a, <1>b, <1>c, <2>1 DEF SetPossiblyStale, RequestRecap, TypeInv
<1>8. ASSUME NEW rs, StopWaitForResponse(rs) PROVE TypeInv'
  <2>1. reply' \in Msgs
    BY <1>8, <1>a DEF StopWaitForResponse, OutsideType, Msgs
  <2>2. OutsideType' /\ QualityType'
    BY <1>8, <1>a, <2>1 DEF StopWaitForResponse, OutsideType, QualityType
  <2> QED
    BY <1>8, <1>a, <1>c, <2>2 DEF StopWaitForResponse, TypeInv
<1>9. ASSUME NEW st \in Statuses, Answer(st) PROVE TypeInv'
  <2>1. Image("initial", st) \in Msg /\ Image("recap", st) \in Msg
    BY <1>a, ImageIsMsg
  <2>2. reply' \in Msgs
    BY <1>9, <2>1 DEF Answer, Msgs
  <2>3. OutsideType'
    BY <1>9, <1>a, <2>2 DEF Answer, OutsideType
  <2> QED
    BY <1>9, <1>a, <1>c, <1>d, <2>3 DEF Answer, TypeInv
<1>10. CASE ProcessUpdate
  <2>1. Head(wire) \in Msg /\ OutsideType'
    BY <1>10, <1>a, WireType DEF ProcessUpdate, OutsideType
  <2>2. CacheType' /\ QualityType'
    BY <1>10, <1>a, <1>d, <2>1, CacheMsgType, UpdateType DEF ProcessUpdate
  <2> QED
    BY <1>10, <1>a, <1>f, <2>1, <2>2 DEF ProcessUpdate, TypeInv
<1>11. CASE ProcessRecap
  <2>1. Head(wire) \in Msg
    BY <1>11, <1>a, WireType DEF ProcessRecap
  <2>2. CacheType' /\ QualityType' /\ expecting' \in BOOLEAN /\ reply' \in Msgs
    BY <1>11, <2>1, ImageType DEF ProcessRecap
  <2>3. OutsideType'
    BY <1>11, <1>a, <2>2, WireType DEF ProcessRecap, OutsideType
  <2> QED
    BY <1>11, <1>f, <2>2, <2>3 DEF ProcessRecap, TypeInv
<1>12. CASE ProcessReply
  <2>1. reply \in Msg
    BY <1>12, <1>a DEF ProcessReply, OutsideType, Msgs
  <2>2. CacheType' /\ QualityType' /\ expecting' \in BOOLEAN /\ reply' \in Msgs
    BY <1>12, <2>1, ImageType DEF ProcessReply
  <2>3. OutsideType'
    BY <1>12, <1>a, <2>2 DEF ProcessReply, OutsideType
  <2> QED
    BY <1>12, <1>f, <2>2, <2>3 DEF ProcessReply, TypeInv
<1> QED
  BY <1>1, <1>2, <1>3, <1>4, <1>5, <1>6, <1>7, <1>8, <1>9, <1>10, <1>11, <1>12
  DEF Next, Environment, Respond, Process, RecapTimeout, Refusal

(* Of a fresh subscription. *)
LEMMA TypeInit == Init => TypeInv
<1> SUFFICES ASSUME Init PROVE TypeInv
  OBVIOUS
<1>1. OutsideType
  BY BoundsAreNumbers DEF Init, OutsideType, Msgs
<1>2. CacheType
  BY BoundsAreNumbers DEF Init, CacheType
<1>3. QualityType
  <2>1. view \in ViewType
    BY BoundsAreNumbers DEF Init, ViewType
  <2>2. dq \in DqStates /\ seq \in 0 .. MaxSeq /\ sid \in 0 .. MaxTakeovers + 1
    BY BoundsAreNumbers DEF Init, DqStates
  <2>3. try \in BOOLEAN /\ gap \in BOOLEAN /\ givenUp \in BOOLEAN
    BY DEF Init
  <2>4. /\ asked \subseteq {"initial", "recap"}
        /\ told \in {"OK", "STALE", "MAYBE_STALE", "DUPLICATE"}
    BY DEF Init
  <2> QED
    BY <2>1, <2>2, <2>3, <2>4 DEF QualityType
<1>4. expecting \in BOOLEAN /\ own \in BOOLEAN
  BY BoundsAreNumbers DEF Init, SettingType
<1> QED
  BY <1>1, <1>2, <1>3, <1>4 DEF TypeInv

(* For every setting, size of the cache, bound and fault: the variables keep     *)
(* their types.  What takes an argument is the ring of dqContext_cacheMsg: its    *)
(* index stays inside the cache, never passes the number of messages that the    *)
(* cache holds, and so a scan below it (dqContext_applyPreInitialCache) reads     *)
(* only slots that were written, however often the ring has wrapped.           *)
THEOREM TypesAreKept == Spec => []TypeOK
<1>1. TypeInv => TypeOK
  BY DEF TypeInv, OutsideType, CacheType, QualityType, TypeOK
<1> QED
  BY <1>1, TypeInit, TypeStep, PTL DEF Spec

-----------------------------------------------------------------------------
(* A subscription that drops old updates, while its first publisher serves it.   *)
(* It may require an initial image, keep the updates that precede an image, or    *)
(* ask for images while it has a cache.                                      *)

OnePublisher == set.ignoreDups /\ sender = 1

(* That was so before, if it is now: no step changes the settings, and a takeover  *)
(* brings a publisher that was not there.                                    *)
LEMMA OnePublisherBefore == TypeInv /\ [Next]_vars /\ OnePublisher' => OnePublisher
<1> SUFFICES ASSUME TypeInv, [Next]_vars, OnePublisher' PROVE OnePublisher
  OBVIOUS
<1>1. set' = set /\ (sender' = sender \/ sender' = sender + 1)
  <2> USE DEF publisher
  <2>1. CASE UNCHANGED vars
    BY <2>1 DEF vars
  <2>2. CASE Environment
    BY <2>2 DEF Environment, Publish, PublishRecap, Takeover, Lose, Repeat, SetPossiblyStale,
                RequestRecap, RecapTimeout, Refusal, StopWaitForResponse
  <2>3. CASE Respond \/ Process
    BY <2>3 DEF Respond, Answer, Process, ProcessUpdate, ProcessRecap, ProcessReply
  <2> QED
    BY <2>1, <2>2, <2>3 DEF Next
<1>2. sender \in Nat \ {0}
  BY BoundsAreNumbers DEF TypeInv, OutsideType
<1> QED
  BY <1>1, <1>2 DEF OnePublisher

FlowMsg == [type : {"update", "initial", "recap"}, seq : Nat \ {0}, count : Nat \ {0},
            sender : {1}, status : {"OK", "STALE"}]

(* The wire: an update comes after all that it follows, or is one of them again; *)
(* none begins the sequence, which is at 1 when the publisher starts.          *)
WireInv ==
    /\ head \in Nat \ {0} /\ wire \in Seq(FlowMsg)
    /\ \A i \in 1 .. Len(wire) : wire[i].seq <= head
    /\ \A i \in 1 .. Len(wire) : wire[i].type = "update" => wire[i].seq - wire[i].count >= 1
    /\ \A i, j \in 1 .. Len(wire) :
          i <= j /\ wire[i].type = "update" /\ wire[j].type = "update" =>
            wire[j] = wire[i] \/ wire[j].seq - wire[j].count >= wire[i].seq

(* What was published so far. *)
Published == {m \in FlowMsg : m.seq <= head}

(* There is no takeover, images and cached updates were published, and the      *)
(* subscription is in one of five states.                                    *)
PlainInv ==
    /\ set \in Settings /\ sender = 1 /\ sid \in {0, 1}
    /\ reply # NoMsg => reply \in Published
    /\ cache \in Seq(Published)
    /\ dq \in {"OK", "NOT_ESTABLISHED", "WAITING_FOR_RECAP", "POSSIBLY_STALE",
               "STALE_NO_RECAP"}
    /\ seq \in 0 .. head

(* The view that has all up to n. *)
Shown(n) == [from |-> 1, top |-> n, next |-> n + 1, hole |-> FALSE]

(* The application has all up to seq. *)
Whole == view = Shown(seq)

(* Something is missing, and the update that would hide it does not come. *)
Broken ==
    /\ head > seq
    /\ \A i \in 1 .. Len(wire) :
          wire[i].type = "update" /\ wire[i].seq - wire[i].count = seq => wire[i].status # "OK"

(* The application may miss something only while a recap is awaited; then a gap  *)
(* is not filled from the cache any more: that would begin at a view with a hole. *)
FlowInv ==
    /\ dq = "NOT_ESTABLISHED" => seq = 0 /\ ~try
    /\ dq \in {"OK", "POSSIBLY_STALE", "STALE_NO_RECAP"} => Whole
    /\ dq = "WAITING_FOR_RECAP" => Whole \/ (Broken /\ (set.onInitial \/ ~try))

(* The first message leaves the wire. *)
LEMMA TailWire ==
    ASSUME WireInv, wire # <<>>, wire' = Tail(wire), head' = head
    PROVE  /\ WireInv'
           /\ \A i \in 1 .. Len(wire') : i + 1 \in 1 .. Len(wire) /\ wire'[i] = wire[i + 1]
<1>1. /\ wire \in Seq(FlowMsg) /\ Len(wire) \in Nat /\ wire' \in Seq(FlowMsg)
      /\ Len(wire') = Len(wire) - 1
  BY DEF WireInv
<1>2. \A i \in 1 .. Len(wire') : i + 1 \in 1 .. Len(wire) /\ wire'[i] = wire[i + 1]
  BY <1>1
<1>3. ASSUME NEW i \in 1 .. Len(wire'), NEW j \in 1 .. Len(wire'), i <= j,
             wire'[i].type = "update", wire'[j].type = "update"
      PROVE  wire'[j] = wire'[i] \/ wire'[j].seq - wire'[j].count >= wire'[i].seq
  <2>1. i + 1 \in 1 .. Len(wire) /\ j + 1 \in 1 .. Len(wire) /\ i + 1 <= j + 1
    BY <1>1, <1>2, <1>3
  <2> QED
    BY <1>2, <1>3, <2>1 DEF WireInv
<1>4. /\ \A i \in 1 .. Len(wire') : wire'[i].seq <= head
      /\ \A i \in 1 .. Len(wire') :
            wire'[i].type = "update" => wire'[i].seq - wire'[i].count >= 1
  BY <1>2 DEF WireInv
<1> QED
  BY <1>1, <1>2, <1>3, <1>4 DEF WireInv

(* The first message is there twice. *)
LEMMA RepeatWire ==
    ASSUME WireInv, wire # <<>>, wire' = <<Head(wire)>> \o wire, head' = head
    PROVE  /\ WireInv'
           /\ \A i \in 1 .. Len(wire') : \E k \in 1 .. Len(wire) : wire'[i] = wire[k]
<1> DEFINE f(i) == IF i = 1 THEN 1 ELSE i - 1
<1>1. /\ wire \in Seq(FlowMsg) /\ Len(wire) \in Nat \ {0} /\ wire' \in Seq(FlowMsg)
      /\ Len(wire') = Len(wire) + 1 /\ Head(wire) = wire[1]
  BY DEF WireInv
<1>2. \A i \in 1 .. Len(wire') : f(i) \in 1 .. Len(wire) /\ wire'[i] = wire[f(i)]
  BY <1>1
<1>3. \A i, j \in 1 .. Len(wire') : i <= j => f(i) <= f(j)
  BY <1>1
<1> HIDE DEF f
<1>4. ASSUME NEW i \in 1 .. Len(wire'), NEW j \in 1 .. Len(wire'), i <= j,
             wire'[i].type = "update", wire'[j].type = "update"
      PROVE  wire'[j] = wire'[i] \/ wire'[j].seq - wire'[j].count >= wire'[i].seq
  BY <1>2, <1>3, <1>4 DEF WireInv
<1>5. /\ \A i \in 1 .. Len(wire') : wire'[i].seq <= head
      /\ \A i \in 1 .. Len(wire') :
            wire'[i].type = "update" => wire'[i].seq - wire'[i].count >= 1
  BY <1>2 DEF WireInv
<1>6. \A i \in 1 .. Len(wire') : \E k \in 1 .. Len(wire) : wire'[i] = wire[k]
  BY <1>2
<1> QED
  BY <1>1, <1>4, <1>5, <1>6 DEF WireInv

(* A message is published: an update that follows the last one, or a recap. *)
LEMMA AppendWire ==
    ASSUME WireInv, NEW m \in FlowMsg, wire' = Append(wire, m),
           head' \in Nat, head <= head', m.seq <= head',
           m.type = "update" => m.seq - m.count = head
    PROVE  /\ WireInv'
           /\ \A i \in 1 .. Len(wire') :
                 wire'[i] = m \/ \E k \in 1 .. Len(wire) : wire'[i] = wire[k]
<1>1. /\ wire \in Seq(FlowMsg) /\ Len(wire) \in Nat /\ wire' \in Seq(FlowMsg)
      /\ Len(wire') = Len(wire) + 1 /\ wire'[Len(wire) + 1] = m
      /\ head \in Nat \ {0} /\ m.seq \in Nat /\ m.count \in Nat
  BY DEF WireInv, FlowMsg
<1>2. \A i \in 1 .. Len(wire) : wire'[i] = wire[i]
  BY <1>1
<1>3. \A i \in 1 .. Len(wire') : i \in 1 .. Len(wire) \/ i = Len(wire) + 1
  BY <1>1
<1>4. ASSUME NEW i \in 1 .. Len(wire)
      PROVE  wire[i] \in FlowMsg /\ wire[i].seq \in Nat /\ wire[i].seq <= head
  <2>1. wire[i] \in FlowMsg
    BY <1>1
  <2>2. wire[i].seq \in Nat
    BY <2>1 DEF FlowMsg
  <2> QED
    BY <2>1, <2>2 DEF WireInv
<1>5. \A i \in 1 .. Len(wire') : wire'[i].seq <= head'
  BY <1>1, <1>2, <1>3, <1>4
<1>6. \A i \in 1 .. Len(wire') :
         wire'[i].type = "update" => wire'[i].seq - wire'[i].count >= 1
  BY <1>1, <1>2, <1>3 DEF WireInv
<1>7. ASSUME NEW i \in 1 .. Len(wire'), NEW j \in 1 .. Len(wire'), i <= j,
             wire'[i].type = "update", wire'[j].type = "update"
      PROVE  wire'[j] = wire'[i] \/ wire'[j].seq - wire'[j].count >= wire'[i].seq
  <2>1. CASE j \in 1 .. Len(wire)
    <3>1. i \in 1 .. Len(wire)
      BY <1>1, <1>7, <2>1
    <3> QED
      BY <1>2, <1>7, <2>1, <3>1 DEF WireInv
  <2>2. CASE j = Len(wire) + 1 /\ i \in 1 .. Len(wire)
    BY <1>1, <1>2, <1>4, <1>7, <2>2
  <2>3. CASE j = Len(wire) + 1 /\ i = Len(wire) + 1
    BY <2>3
  <2> QED
    BY <1>3, <2>1, <2>2, <2>3
<1>8. \A i \in 1 .. Len(wire') :
         wire'[i] = m \/ \E k \in 1 .. Len(wire) : wire'[i] = wire[k]
  BY <1>1, <1>2, <1>3
<1>9. head' \in Nat \ {0}
  BY <1>1
<1> QED
  BY <1>1, <1>5, <1>6, <1>7, <1>8, <1>9 DEF WireInv

(* What was missing stays so, as long as only messages of the wire are on it. *)
LEMMA BrokenStays ==
    ASSUME Broken, WireInv, UNCHANGED seq, seq \in Nat, head' \in Nat, head <= head',
           \A i \in 1 .. Len(wire') :
              \/ \E k \in 1 .. Len(wire) : wire'[i] = wire[k]
              \/ wire'[i].type = "update" => wire'[i].seq - wire'[i].count = head
    PROVE  Broken'
<1>1. head \in Nat /\ head > seq
  BY DEF WireInv, Broken
<1>2. head' > seq'
  BY <1>1
<1> QED
  BY <1>1, <1>2 DEF Broken

(* The message that follows is shown to who has all before it. *)
LEMMA ShowNext ==
    ASSUME NEW n \in Nat, NEW m \in FlowMsg, m.seq > n, m.seq - m.count <= n
    PROVE  Show(Shown(n), m) = Shown(m.seq)
<1>1. m.seq \in Nat /\ m.count \in Nat /\ m.sender = 1
  BY DEF FlowMsg
<1>2. /\ Shown(n).hole = FALSE /\ Shown(n).from = 1 /\ Shown(n).next = n + 1
      /\ Shown(n).top = n
  BY DEF Shown
<1>3. ~(Shown(n).hole \/ m.sender # Shown(n).from \/ m.seq - m.count >= Shown(n).next)
  BY <1>1, <1>2
<1>4. m.seq > Shown(n).top
  BY <1>2
<1> HIDE DEF Shown
<1>5. Show(Shown(n), m) = [from |-> 1, top |-> m.seq, next |-> m.seq + 1, hole |-> FALSE]
  BY <1>1, <1>3, <1>4 DEF Show
<1> QED
  BY <1>5 DEF Shown

(* A scan of published messages by who has all up to n: it has all up to last,   *)
(* and a scan that does not stop early is over when all before end are shown.   *)
Caught(end, stops) ==
    {r \in [last : 0 .. head, view : {Shown(n) : n \in 0 .. head}, over : BOOLEAN] :
       r.view = Shown(r.last) /\ (r.over => stops \/ r.last + 1 = end)}

(* One turn keeps all shown up to last. *)
LEMMA ScanStepCatches ==
    ASSUME head \in Nat, NEW end, NEW stops \in BOOLEAN, NEW acc \in Caught(end, stops),
           NEW m \in Published
    PROVE  ScanStep(acc, m, end, stops) \in Caught(end, stops)
<1>1. /\ acc \in [last : 0 .. head, view : {Shown(n) : n \in 0 .. head}, over : BOOLEAN]
      /\ acc.last \in 0 .. head /\ acc.last \in Nat /\ acc.over \in BOOLEAN
      /\ acc.view = Shown(acc.last)
  BY DEF Caught
<1>2. /\ m \in FlowMsg /\ m.seq \in Nat /\ m.count \in Nat \ {0} /\ m.seq \in 0 .. head
  BY DEF Published, FlowMsg
<1>3. CASE acc.over
  BY <1>3 DEF ScanStep
<1>4. CASE ~acc.over /\ m.seq = acc.last + 1
  <2> DEFINE o == m.seq + 1 = end
             r == [last |-> m.seq, view |-> Shown(m.seq), over |-> o]
  <2>1. Show(acc.view, m) = Shown(m.seq)
    BY <1>1, <1>2, <1>4, ShowNext
  <2>2. ScanStep(acc, m, end, stops) = r
    BY <1>4, <2>1 DEF ScanStep
  <2>3. o \in BOOLEAN /\ (o => m.seq + 1 = end)
    OBVIOUS
  <2> HIDE DEF o
  <2>4. r \in [last : 0 .. head, view : {Shown(n) : n \in 0 .. head}, over : BOOLEAN]
    BY <1>2, <2>3
  <2>5. r.view = Shown(r.last) /\ (r.over => stops \/ r.last + 1 = end)
    BY <2>3
  <2> HIDE DEF r
  <2> QED
    BY <2>2, <2>4, <2>5 DEF Caught
<1>5. CASE ~acc.over /\ m.seq # acc.last + 1
  <2> DEFINE o == stops /\ m.seq > acc.last + 1
             r == [acc EXCEPT !.over = o]
  <2>1. ScanStep(acc, m, end, stops) = r
    BY <1>5 DEF ScanStep
  <2>2. o \in BOOLEAN /\ (o => stops)
    OBVIOUS
  <2> HIDE DEF o
  <2>3. r \in [last : 0 .. head, view : {Shown(n) : n \in 0 .. head}, over : BOOLEAN]
    BY <1>1, <2>2
  <2>4. r.last = acc.last /\ r.view = acc.view /\ r.over = o
    BY <1>1
  <2> HIDE DEF r
  <2> QED
    BY <1>1, <2>1, <2>2, <2>3, <2>4 DEF Caught
<1> QED
  BY <1>1, <1>3, <1>4, <1>5

(* So does the scan, of a cache of any length. *)
LEMMA ScanCatches ==
    ASSUME head \in Nat, NEW ms \in Seq(Published), NEW from \in 0 .. head, NEW end,
           NEW stops \in BOOLEAN
    PROVE  /\ Scan(ms, Shown(from), from, end, stops).last \in 0 .. head
           /\ Scan(ms, Shown(from), from, end, stops).view
                = Shown(Scan(ms, Shown(from), from, end, stops).last)
           /\ Scan(ms, Shown(from), from, end, stops).over /\ ~stops =>
                Scan(ms, Shown(from), from, end, stops).last + 1 = end
<1>1. [last |-> from, view |-> Shown(from), over |-> FALSE] \in Caught(end, stops)
  <2> DEFINE r == [last |-> from, view |-> Shown(from), over |-> FALSE]
  <2>1. r \in [last : 0 .. head, view : {Shown(n) : n \in 0 .. head}, over : BOOLEAN]
    OBVIOUS
  <2>2. r.view = Shown(r.last) /\ ~r.over
    OBVIOUS
  <2> HIDE DEF r
  <2> QED
    BY <2>1, <2>2 DEF Caught, r
<1>2. \A acc \in Caught(end, stops) : \A m \in Published :
         ScanStep(acc, m, end, stops) \in Caught(end, stops)
  BY ScanStepCatches
<1>3. Scan(ms, Shown(from), from, end, stops) \in Caught(end, stops)
  BY <1>1, <1>2, ScanKeeps
<1> QED
  BY <1>3 DEF Caught

(* The cache, emptied or not. *)
LEMMA ClearKeeps ==
    ASSUME NEW c, ClearCacheIf(c), cache \in Seq(Published), head' = head
    PROVE  cache' \in Seq(Published')
  BY DEF ClearCacheIf, Published

(* An image is all there is to know, and the cache goes on from there. *)
LEMMA ImageFlow ==
    ASSUME OnePublisher, TypeInv, PlainInv, NEW m \in Published, head \in Nat,
           ProcessImage(m), UNCHANGED <<set, head, sender>>
    PROVE  PlainInv' /\ FlowInv'
<1>1. /\ m.sender = 1 /\ m.seq \in Nat /\ m.seq \in 0 .. head
  BY DEF Published, FlowMsg
<1>2. ~IsTakeover(m) /\ ~Held(m) /\ State(m) = dq
  BY <1>1 DEF PlainInv, IsTakeover, Held, State
<1>3. /\ dq' \in {"OK", "STALE_NO_RECAP"} /\ sid' = 1 /\ reply' = NoMsg
  BY <1>1, <1>2 DEF ProcessImage, ResetDqState
<1>4. cache' \in Seq(Published')
  BY ClearKeeps DEF ProcessImage, PlainInv
<1>5. Fresh(m) = Shown(m.seq)
  BY <1>1 DEF Fresh, Shown
<1>6. SubSeq(cache, Len(cache) - idx + 1, Len(cache)) \in Seq(Published)
  <2>1. Len(cache) \in Nat /\ idx \in Nat /\ idx <= Len(cache)
    BY BoundsAreNumbers DEF TypeInv, CacheType
  <2>2. Len(cache) - idx + 1 \in 1 .. Len(cache) + 1
    BY <2>1
  <2> QED
    BY <2>1, <2>2 DEF PlainInv
<1> DEFINE shown == ApplyPreInitialCache(Fresh(m), m.seq)
<1>7. shown.last \in 0 .. head /\ shown.view = Shown(shown.last)
  BY <1>1, <1>5, <1>6, ScanCatches DEF ApplyPreInitialCache
<1>8. \/ seq' = shown.last /\ view' = shown.view
      \/ seq' = m.seq /\ view' = Fresh(m)
  BY DEF ProcessImage
<1> HIDE DEF shown
<1>9. seq' \in 0 .. head /\ Whole'
  BY <1>1, <1>5, <1>7, <1>8 DEF Whole
<1>10. PlainInv'
  BY <1>3, <1>4, <1>9 DEF PlainInv
<1> QED
  BY <1>3, <1>9, <1>10 DEF FlowInv

(* An update from the wire. *)
LEMMA UpdateFlow ==
    ASSUME OnePublisher, TypeInv, WireInv, PlainInv, FlowInv, ProcessUpdate
    PROVE  PlainInv' /\ FlowInv'
<1> DEFINE m == Head(wire)
<1>1. /\ wire # <<>> /\ wire' = Tail(wire) /\ m.type = "update"
      /\ UNCHANGED <<set, head, sender, reply>>
  BY DEF ProcessUpdate, publisher
<1>2. /\ m = wire[1] /\ 1 \in 1 .. Len(wire) /\ m \in FlowMsg
  BY <1>1 DEF WireInv
<1>3. /\ m.seq \in Nat /\ m.count \in Nat \ {0} /\ m.sender = 1 /\ m.status \in {"OK", "STALE"}
      /\ m.seq <= head /\ m.seq - m.count >= 1 /\ head \in Nat
  BY <1>1, <1>2 DEF WireInv, FlowMsg
<1>4. \A i \in 1 .. Len(wire') : i + 1 \in 1 .. Len(wire) /\ wire'[i] = wire[i + 1]
  BY <1>1, TailWire
<1>5. set.ignoreDups /\ try \in BOOLEAN
  BY DEF OnePublisher, PlainInv, TypeInv, QualityType
<1>6. ~IsTakeover(m) /\ ~Held(m) /\ Base(m) = seq /\ State(m) = dq
  BY <1>3 DEF PlainInv, IsTakeover, Held, Base, State
<1>7. \/ CacheMsg(m) /\ UNCHANGED <<dq, seq, sid, try, view>>
      \/ NoGap(m) \/ Dropped(m) \/ Duplicate(m) \/ MissedSequence(m)
  BY <1>6 DEF ProcessUpdate, CheckSeqNum, AcceptTakeover
<1>8. seq \in Nat /\ seq <= head
  BY <1>3 DEF PlainInv
<1>p. m \in Published /\ Published' = Published
  BY <1>1, <1>2, <1>3 DEF Published
<1> HIDE DEF m
<1>9. ASSUME Broken, UNCHANGED seq PROVE Broken'
  BY <1>1, <1>4, <1>8, <1>9, <1>3, BrokenStays
<1>q. ASSUME NEW c, ClearCacheIf(c) PROVE cache' \in Seq(Published')
  BY <1>1, <1>q, ClearKeeps DEF PlainInv
<1>14. CASE CacheMsg(m) /\ UNCHANGED <<dq, seq, sid, try, view>>
  <2>1. cache \in Seq(Published)
    BY DEF PlainInv
  <2>2. cache # <<>> => Tail(cache) \in Seq(Published)
    BY <2>1
  <2>3. ~(Len(cache) < CacheSize) => cache # <<>>
    BY BoundsAreNumbers
  <2>4. cache' \in Seq(Published')
    BY <1>14, <1>p, <2>1, <2>2, <2>3 DEF CacheMsg
  <2>5. PlainInv'
    BY <1>1, <1>14, <1>p, <2>4 DEF PlainInv
  <2>6. Whole => Whole'
    BY <1>14 DEF Whole
  <2> QED
    BY <1>1, <1>9, <1>14, <2>5, <2>6 DEF FlowInv
<1>10. CASE NoGap(m)
  <2>1. /\ dq' = "OK" /\ seq' = m.seq /\ sid' = sid
        /\ m.status = "OK"
        /\ \/ dq = "NOT_ESTABLISHED" /\ view' = Fresh(m)
           \/ dq # "NOT_ESTABLISHED" /\ view' = Show(view, m) /\ m.seq = seq + m.count
    BY <1>6, <1>10 DEF NoGap, ResetDqState, Good, InSequence, Forward
  <2>2. PlainInv'
    <3>1. cache' \in Seq(Published')
      BY <1>10, <1>q DEF NoGap
    <3> QED
      BY <1>1, <1>3, <1>p, <2>1, <3>1 DEF PlainInv
  <2>3. CASE dq = "NOT_ESTABLISHED"
    <3>1. view' = Fresh(m)
      BY <2>1, <2>3
    <3>2. Whole'
      BY <1>3, <2>1, <3>1 DEF Whole, Shown, Fresh
    <3> QED
      BY <2>1, <2>2, <3>2 DEF FlowInv
  <2>4. CASE dq # "NOT_ESTABLISHED"
    <3>1. view' = Show(view, m) /\ m.seq = seq + m.count
      BY <2>1, <2>4
    <3>2. m.seq - m.count = seq /\ m.seq > seq
      BY <1>3, <1>8, <3>1
    <3>3. ~Broken
      BY <1>1, <1>2, <2>1, <3>2 DEF Broken
    <3>4. Whole
      BY <2>4, <3>3 DEF FlowInv, PlainInv
    <3>5. Show(Shown(seq), m) = Shown(m.seq)
      BY <1>2, <1>8, <3>2, ShowNext
    <3>6. Whole'
      BY <2>1, <3>1, <3>4, <3>5 DEF Whole
    <3> QED
      BY <2>1, <2>2, <3>6 DEF FlowInv
  <2> QED
    BY <2>3, <2>4
<1>11. CASE Dropped(m)
  <2>0. UNCHANGED <<dq, seq, sid, view>>
    BY <1>6, <1>11 DEF Dropped
  <2>1. (try' => try) /\ UNCHANGED <<dq, seq, sid, view>>
    <3>1. try' = (try /\ ~InSequence(m))
      BY <1>11 DEF Dropped
    <3>2. CASE try
      BY <2>0, <3>2
    <3>3. CASE ~try
      BY <1>5, <2>0, <3>1, <3>3
    <3> QED
      BY <3>2, <3>3
  <2>2. cache' \in Seq(Published')
    BY <1>11, <1>q DEF Dropped
  <2>3. PlainInv'
    BY <1>1, <1>p, <2>1, <2>2 DEF PlainInv
  <2>4. Whole => Whole'
    BY <2>1 DEF Whole
  <2> QED
    BY <1>1, <1>9, <2>1, <2>3, <2>4 DEF FlowInv
<1>12. CASE Duplicate(m)
  BY <1>3, <1>5, <1>8, <1>12 DEF Duplicate, Old
<1>13. CASE MissedSequence(m)
  <2> DEFINE found == FillGap(view, seq, m.seq)
             fill == ~set.onInitial /\ try /\ ~InSequence(m)
  <2>1. /\ ~Good(m) /\ m.seq > seq
    BY <1>3, <1>5, <1>8, <1>13 DEF MissedSequence, Old
  <2>2. cache' \in Seq(Published')
    BY <1>13, <1>q DEF MissedSequence, Gap
  <2>3. CASE fill /\ found.over /\ dq' = dq /\ seq' = m.seq
    <3>1. view' = Show(found.view, m) /\ sid' = sid
      BY <1>6, <1>13, <2>3 DEF MissedSequence, Gap, Forward
    <3>2. dq # "NOT_ESTABLISHED"
      BY <2>3 DEF InSequence
    <3>3. Whole
      BY <2>3, <3>2 DEF FlowInv, PlainInv
    <3>4. /\ found.last \in 0 .. head /\ found.view = Shown(found.last)
          /\ found.over => found.last + 1 = m.seq
      BY <1>3, <3>3, ScanCatches DEF FillGap, Whole, PlainInv
    <3> HIDE DEF found
    <3>5. /\ found.last \in Nat /\ m.seq > found.last /\ m.seq - m.count <= found.last
      BY <1>3, <2>3, <3>4
    <3>6. Show(Shown(found.last), m) = Shown(m.seq)
      BY <1>2, <3>5, ShowNext
    <3>7. Whole'
      BY <2>3, <3>1, <3>4, <3>6 DEF Whole
    <3>8. PlainInv'
      BY <1>1, <1>3, <1>p, <2>2, <2>3, <3>1 DEF PlainInv
    <3> QED
      BY <2>3, <3>2, <3>7, <3>8 DEF FlowInv, PlainInv
  <2>4. CASE dq' = "WAITING_FOR_RECAP" /\ seq' = seq
    <3>1. sid' = sid /\ (set.onInitial \/ ~try')
      BY <1>5, <1>13 DEF MissedSequence, Gap
    <3>2. PlainInv'
      BY <1>1, <1>p, <2>2, <2>4, <3>1 DEF PlainInv
    <3>3. ASSUME NEW i \in 1 .. Len(wire'), wire'[i].type = "update",
                 wire'[i].seq - wire'[i].count = seq
          PROVE  wire'[i].status # "OK"
      <4>1. /\ i + 1 \in 1 .. Len(wire) /\ wire'[i] = wire[i + 1] /\ 1 <= i + 1
            /\ wire[1].type = "update" /\ wire[i + 1].type = "update"
        BY <1>1, <1>2, <1>4, <3>3 DEF m
      <4>2. wire[i + 1] = wire[1] \/ wire[i + 1].seq - wire[i + 1].count >= wire[1].seq
        BY <1>2, <4>1 DEF WireInv
      <4>3. wire'[i] = m
        BY <1>2, <1>3, <1>8, <2>1, <3>3, <4>1, <4>2
      <4>4. m.seq = seq + m.count
        BY <1>3, <1>8, <3>3, <4>3
      <4> QED
        BY <2>1, <4>3, <4>4 DEF Good, InSequence
    <3>4. Broken'
      BY <1>1, <1>3, <1>8, <2>1, <2>4, <3>3 DEF Broken
    <3> QED
      BY <1>1, <2>4, <3>1, <3>2, <3>4 DEF FlowInv
  <2> QED
    BY <1>6, <1>13, <2>3, <2>4 DEF MissedSequence, Gap
<1> QED
  BY <1>7, <1>10, <1>11, <1>12, <1>13, <1>14

(* Every step keeps the wire, the settings and what is known of the view. *)
LEMMA FlowStep ==
    ASSUME OnePublisher, OnePublisher', TypeInv, WireInv, PlainInv, FlowInv, [Next]_vars
    PROVE  (WireInv /\ PlainInv /\ FlowInv)'
<1> USE DEF context, publisher, history
<1>0. head \in Nat \ {0} /\ seq \in Nat /\ wire \in Seq(FlowMsg) /\ sender = 1
  BY DEF WireInv, PlainInv
<1>a. ASSUME UNCHANGED <<set, dq, seq, try, view>>, Broken => Broken' PROVE FlowInv'
  BY <1>a DEF FlowInv, Whole
<1>b. ASSUME UNCHANGED <<wire, head>> PROVE WireInv'
  BY <1>b DEF WireInv
<1>c. UNCHANGED <<wire, head, seq>> => (Broken <=> Broken')
  BY DEF Broken
<1>d. ASSUME UNCHANGED head PROVE Published' = Published
  BY <1>d DEF Published
<1>e. ASSUME UNCHANGED <<set, head, sender, dq, seq, sid, cache, reply>> PROVE PlainInv'
  BY <1>d, <1>e DEF PlainInv
<1>1. CASE UNCHANGED vars
  BY <1>1, <1>a, <1>b, <1>c, <1>e DEF vars
<1>2. ASSUME NEW k \in Counts, NEW st \in Statuses, Publish(k, st)
      PROVE  (WireInv /\ PlainInv /\ FlowInv)'
  <2> DEFINE m == [type |-> "update", seq |-> head', count |-> k, sender |-> sender,
                   status |-> st]
  <2>1. /\ k \in Nat \ {0} /\ st \in {"OK", "STALE"} /\ head' = head + k
        /\ wire' = Append(wire, m)
    BY <1>2, DataQualityAssumption DEF Publish
  <2>2. /\ head' \in Nat \ {0} /\ head <= head'
    BY <1>0, <2>1
  <2>3. m \in FlowMsg /\ m.type = "update" /\ m.seq <= head' /\ m.seq - m.count = head
    BY <1>0, <2>1, <2>2 DEF FlowMsg
  <2> HIDE DEF m
  <2>4. /\ WireInv'
        /\ \A i \in 1 .. Len(wire') :
              wire'[i] = m \/ \E j \in 1 .. Len(wire) : wire'[i] = wire[j]
    BY <2>1, <2>2, <2>3, AppendWire
  <2>5. Broken => Broken'
    BY <1>0, <1>2, <2>2, <2>3, <2>4, BrokenStays DEF Publish
  <2>6. PlainInv'
    <3>1. UNCHANGED <<set, sender, reply, dq, seq, sid, cache>>
      BY <1>2 DEF Publish
    <3>2. \A x \in Published : x \in Published'
      BY <1>0, <2>2 DEF Published, FlowMsg
    <3>3. cache \in Seq(Published')
      BY <3>2 DEF PlainInv
    <3>4. seq \in 0 .. head'
      BY <1>0, <2>2 DEF PlainInv
    <3> QED
      BY <3>1, <3>2, <3>3, <3>4 DEF PlainInv
  <2>7. FlowInv'
    BY <1>2, <1>a, <2>5 DEF Publish
  <2> QED
    BY <2>4, <2>6, <2>7
<1>3. CASE PublishRecap
  <2> DEFINE m == Image("recap", "OK")
  <2>1. wire' = Append(wire, m) /\ head' = head
    BY <1>3 DEF PublishRecap
  <2>2. m \in FlowMsg /\ m.type = "recap" /\ m.seq <= head
    BY <1>0 DEF Image, FlowMsg
  <2> HIDE DEF m
  <2>3. /\ WireInv'
        /\ \A i \in 1 .. Len(wire') :
              wire'[i] = m \/ \E j \in 1 .. Len(wire) : wire'[i] = wire[j]
    BY <1>0, <2>1, <2>2, AppendWire
  <2>4. Broken => Broken'
    BY <1>0, <1>3, <2>1, <2>2, <2>3, BrokenStays DEF PublishRecap
  <2>5. PlainInv' /\ FlowInv'
    BY <1>3, <1>a, <1>e, <2>4 DEF PublishRecap
  <2> QED
    BY <2>3, <2>5
<1>4. CASE Takeover
  BY <1>0, <1>4 DEF Takeover, OnePublisher
<1>5. CASE Lose
  <2>1. /\ WireInv'
        /\ \A i \in 1 .. Len(wire') : i + 1 \in 1 .. Len(wire) /\ wire'[i] = wire[i + 1]
    BY <1>5, TailWire DEF Lose
  <2>2. Broken => Broken'
    BY <1>0, <1>5, <2>1, BrokenStays DEF Lose
  <2>3. PlainInv' /\ FlowInv'
    BY <1>5, <1>a, <1>e, <2>2 DEF Lose
  <2> QED
    BY <2>1, <2>3
<1>6. CASE Repeat
  <2>1. /\ WireInv'
        /\ \A i \in 1 .. Len(wire') : \E k \in 1 .. Len(wire) : wire'[i] = wire[k]
    BY <1>6, RepeatWire DEF Repeat
  <2>2. Broken => Broken'
    <3>1. head' = head /\ seq' = seq
      BY <1>6 DEF Repeat
    <3> QED
      BY <1>0, <2>1, <3>1, BrokenStays
  <2>3. PlainInv' /\ FlowInv'
    BY <1>6, <1>a, <1>e, <2>2 DEF Repeat
  <2> QED
    BY <2>1, <2>3
<1>7. CASE SetPossiblyStale
  <2>1. /\ dq' = "POSSIBLY_STALE" /\ dq = "OK"
        /\ UNCHANGED <<set, head, sender, wire, reply, seq, sid, try, cache, view>>
    BY <1>7 DEF SetPossiblyStale
  <2>2. Whole'
    BY <2>1 DEF FlowInv, Whole
  <2>3. PlainInv'
    BY <1>d, <2>1 DEF PlainInv
  <2> QED
    BY <1>b, <2>1, <2>2, <2>3 DEF FlowInv
<1>8. CASE RequestRecap
  <2>1. /\ dq' = "WAITING_FOR_RECAP"
        /\ UNCHANGED <<set, head, sender, wire, reply, seq, sid, try, cache, view>>
    BY <1>8 DEF RequestRecap
  <2>2. Whole => Whole'
    BY <2>1 DEF Whole
  <2>3. dq = "NOT_ESTABLISHED" => Broken /\ ~try
    BY <1>0 DEF FlowInv, WireInv, Broken
  <2>4. Whole \/ (Broken /\ (set.onInitial \/ ~try))
    BY <2>3 DEF FlowInv, PlainInv
  <2>5. PlainInv'
    BY <1>d, <2>1 DEF PlainInv
  <2> QED
    BY <1>b, <1>c, <2>1, <2>2, <2>4, <2>5 DEF FlowInv
<1>9. ASSUME NEW rs, StopWaitForResponse(rs) PROVE (WireInv /\ PlainInv /\ FlowInv)'
  <2>1. /\ reply' \in {reply, NoMsg}
        /\ UNCHANGED <<set, head, sender, wire, dq, seq, sid, try, cache, view>>
    BY <1>9 DEF StopWaitForResponse
  <2>2. PlainInv'
    BY <1>d, <2>1 DEF PlainInv
  <2> QED
    BY <1>a, <1>b, <1>c, <2>1, <2>2
<1>10. ASSUME NEW st \in Statuses, Answer(st) PROVE (WireInv /\ PlainInv /\ FlowInv)'
  <2>1. UNCHANGED <<set, head, sender, wire, dq, seq, sid, try, cache, view>>
    BY <1>10 DEF Answer
  <2>2. Image("initial", st) \in Published /\ Image("recap", st) \in Published
    BY <1>0, BoundsAreNumbers DEF Image, Published, FlowMsg
  <2>3. reply' \in Published
    BY <1>10, <2>2 DEF Answer
  <2>4. PlainInv'
    BY <1>d, <2>1, <2>3 DEF PlainInv
  <2> QED
    BY <1>a, <1>b, <1>c, <2>1, <2>4
<1>11. CASE ProcessUpdate
  <2>1. WireInv'
    BY <1>11, TailWire DEF ProcessUpdate
  <2> QED
    BY <1>11, <2>1, UpdateFlow
<1>12. CASE ProcessRecap
  <2>1. WireInv'
    BY <1>12, TailWire DEF ProcessRecap
  <2>2. Head(wire) = wire[1] /\ 1 \in 1 .. Len(wire) /\ Head(wire) \in FlowMsg
    BY <1>0, <1>12 DEF ProcessRecap
  <2>3. Head(wire) \in Published
    BY <1>12, <2>2 DEF ProcessRecap, WireInv, Published
  <2> QED
    BY <1>0, <1>12, <2>1, <2>3, ImageFlow DEF ProcessRecap
<1>13. CASE ProcessReply
  BY <1>0, <1>13, <1>b, ImageFlow DEF ProcessReply, PlainInv
<1> QED
  BY <1>1, <1>2, <1>3, <1>4, <1>5, <1>6, <1>7, <1>8, <1>9, <1>10, <1>11, <1>12, <1>13
  DEF Next, Environment, Respond, Process, RecapTimeout, Refusal

(* A subscription that drops old updates is never missing an update while its     *)
(* quality is OK, as long as one publisher serves it: with or without an initial  *)
(* image, with a cache of any size that is applied to images or fills gaps, in     *)
(* part or in full, and for any sequence numbers, message counts, stale messages,  *)
(* losses, repetitions, disconnections, timeouts and images that arrive late or     *)
(* early.  A state that waits for a recap is left by an update in sequence         *)
(* (resetDqState in dqStrategy_checkSeqNum) only when nothing was missed, and a     *)
(* gap that dqContext_fillGap filled in part is not filled a second time.         *)
THEOREM NoGapIsSilent == Spec => []NoSilentGap
<1> DEFINE Inv == OnePublisher => WireInv /\ PlainInv /\ FlowInv
<1>1. Init => TypeInv /\ Inv
  <2> SUFFICES ASSUME Init PROVE TypeInv /\ WireInv /\ PlainInv /\ FlowInv
    OBVIOUS
  <2>1. Len(wire) = 0 /\ wire \in Seq(FlowMsg) /\ head = 1
    BY DEF Init
  <2>2. WireInv
    BY <2>1 DEF WireInv
  <2>3. PlainInv
    BY DEF Init, PlainInv
  <2>4. FlowInv
    BY DEF Init, FlowInv
  <2> QED
    BY <2>2, <2>3, <2>4, TypeInit
<1>2. TypeInv /\ Inv => NoSilentGap
  <2>1. Whole /\ seq \in Nat => UpToDate
    BY DEF Whole, Shown, Complete, UpToDate
  <2>2. WireInv /\ PlainInv => seq \in Nat
    BY DEF WireInv, PlainInv
  <2> QED
    BY <2>1, <2>2 DEF OnePublisher, FlowInv, NoSilentGap
<1>3. TypeInv /\ Inv /\ [Next]_vars => TypeInv' /\ Inv'
  BY TypeStep, FlowStep, OnePublisherBefore
<1> QED
  BY <1>1, <1>2, <1>3, PTL DEF Spec
=============================================================================
