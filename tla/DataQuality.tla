---------------------------- MODULE DataQuality ----------------------------
(***************************************************************************)
(* Data quality of a market data subscription (dqstrategy.c and             *)
(* listenermsgcallback.c under mama/c_cpp/src/c): sequence numbers, gaps,   *)
(* recaps, the cache of messages that precede an image, and takeovers       *)
(* between fault tolerant publishers.                                      *)
(*                                                                         *)
(* The publisher's updates reach the subscription on a first-in first-out   *)
(* wire that may lose or repeat them; images (initials and recaps) come     *)
(* through an inbox, at any time after they were requested, or unasked on    *)
(* the wire.  All callbacks of a subscription run on its queue, so the       *)
(* handling of a message is one step.  The settings are the transport's     *)
(* properties; a run chooses among Settings.                               *)
(***************************************************************************)
EXTENDS Integers, Sequences, SequencesExt

CONSTANTS
    Settings,     \* see SettingType
    Counts,       \* how many updates one published message stands for
    Statuses,     \* status of a published message: OK or STALE
    CacheSize,    \* mCacheSize
    NoMsg,
    MaxSeq,       \* bound: sequence numbers
    MaxWire,      \* bound: messages on the wire
    MaxTakeovers, \* bound: takeovers of the publisher
    MaxEvents     \* bound: takeovers, lost and repeated messages, disconnections,
                  \* unasked recaps, requests of the application and those given up

SettingType ==
    [initial    : BOOLEAN,   \* mRequiresInitial
     ignoreDups : BOOLEAN,   \* DQ_SCHEME_INGORE_DUPS, else DELIVER_ALL
     onInitial  : BOOLEAN,   \* PRE_INITIAL_SCHEME_ON_INITIAL, else ON_GAP
     preRecap   : BOOLEAN,   \* mamaTransportImpl_preRecapCacheEnabled
     waitFt     : BOOLEAN]   \* DQ_FT_WAIT_FOR_RECAP, else DO_NOT_WAIT

ASSUME DataQualityAssumption ==
    /\ Settings \subseteq SettingType
    /\ Counts \subseteq Nat \ {0} /\ Statuses \subseteq {"OK", "STALE"}
    /\ CacheSize \in Nat \ {0}
    /\ MaxSeq \in Nat \ {0}
    /\ {MaxWire, MaxTakeovers, MaxEvents} \subseteq Nat

VARIABLES
    set,               \* the settings
    head, sender,      \* the publisher: its last sequence number and its id
    wire,              \* messages of the topic in flight
    reply,             \* the image in flight, or NoMsg
    dq, seq, sid,      \* mDQState, mSeqNum, mSenderId
    try,               \* mTryToFillGap
    cache,             \* the last CacheSize messages cached, oldest first
    idx,               \* mCurCacheIdx
    expecting,         \* mExpectingInitial, and the image has not arrived
    asked,             \* requests that wait for a response
    told,              \* the quality last passed to onQuality
    view,              \* what the application was shown
    gap,               \* onGap was called and no image arrived since
    givenUp,           \* history: the last request was given up
    own,               \* history: the wait for a recap began with requestRecap
    events             \* counts for MaxEvents

publisher == <<head, sender>>
context == <<dq, seq, sid, try, cache, idx>>
history == <<givenUp, own>>
vars == <<set, publisher, wire, reply, context, expecting, asked, told, view, gap, history,
          events>>

DqStates == {"OK", "NOT_ESTABLISHED", "WAITING_FOR_RECAP", "POSSIBLY_STALE",
             "DUPLICATE", "STALE_NO_RECAP", "WAITING_FOR_RECAP_AFTER_FT"}

Msg == [type : {"update", "initial", "recap"}, seq : 0 .. MaxSeq,
        count : Counts \cup {1}, sender : 1 .. MaxTakeovers + 1,
        status : Statuses \cup {"OK"}]

Msgs == Msg \cup {NoMsg}

-----------------------------------------------------------------------------
(* What the application holds: top is the latest update it has seen, from    *)
(* the publisher from; next is the update that would continue it; hole says  *)
(* that an update was skipped or came from another publisher.               *)

ViewType == [from : 0 .. MaxTakeovers + 1, top : 0 .. MaxSeq, next : 1 .. MaxSeq + 1,
             hole : BOOLEAN]

(* An image, or the first message of a publisher that is taken as it comes. *)
Fresh(m) == [from |-> m.sender, top |-> m.seq, next |-> m.seq + 1, hole |-> FALSE]

Show(v, m) ==
    [from |-> m.sender,
     top  |-> IF m.seq > v.top THEN m.seq ELSE v.top,
     next |-> m.seq + 1,
     hole |-> v.hole \/ m.sender # v.from \/ m.seq - m.count >= v.next]

Complete(v) == ~v.hole /\ v.next = v.top + 1

-----------------------------------------------------------------------------
(* dqContext_initializeContext, and the state of a new subscription. *)
Init ==
    /\ set \in Settings
    /\ head = 1 /\ sender = 1
    /\ wire = <<>>
    /\ reply = NoMsg
    /\ dq = "NOT_ESTABLISHED" /\ seq = 0 /\ sid = 0
    /\ try = FALSE
    /\ cache = <<>> /\ idx = 0
    /\ expecting = set.initial
    /\ asked = IF set.initial THEN {"initial"} ELSE {}
    /\ told = "OK"
    /\ view = [from |-> 0, top |-> 0, next |-> 1, hole |-> FALSE]
    /\ gap = FALSE
    /\ givenUp = FALSE /\ own = FALSE
    /\ events = 0

-----------------------------------------------------------------------------
(* The environment. *)

Event == events < MaxEvents /\ events' = events + 1

Publish(k, st) ==
    /\ head + k <= MaxSeq /\ Len(wire) < MaxWire
    /\ head' = head + k
    /\ wire' = Append(wire, [type |-> "update", seq |-> head', count |-> k,
                             sender |-> sender, status |-> st])
    /\ UNCHANGED <<set, sender, reply, context, expecting, asked, told, view, gap, history,
                   events>>

Image(type, st) == [type |-> type, seq |-> head, count |-> 1, sender |-> sender, status |-> st]

PublishRecap ==
    /\ Event /\ Len(wire) < MaxWire
    /\ wire' = Append(wire, Image("recap", "OK"))
    /\ UNCHANGED <<set, publisher, reply, context, expecting, asked, told, view, gap,
                   history>>

(* Another publisher goes on with the same sequence, or begins its own. *)
Takeover ==
    /\ Event /\ sender <= MaxTakeovers
    /\ sender' = sender + 1
    /\ head' \in {1, head}
    /\ UNCHANGED <<set, wire, reply, context, expecting, asked, told, view, gap, history>>

Lose ==
    /\ Event /\ wire # <<>>
    /\ wire' = Tail(wire)
    /\ UNCHANGED <<set, publisher, reply, context, expecting, asked, told, view, gap,
                   history>>

Repeat ==
    /\ Event /\ wire # <<>> /\ Len(wire) < MaxWire
    /\ wire' = <<Head(wire)>> \o wire
    /\ UNCHANGED <<set, publisher, reply, context, expecting, asked, told, view, gap,
                   history>>

(* A request is answered with the image of that moment. *)
Answer(st) ==
    /\ asked # {} /\ reply = NoMsg
    /\ reply' = Image(IF "initial" \in asked THEN "initial" ELSE "recap", st)
    /\ UNCHANGED <<set, publisher, wire, context, expecting, asked, told, view, gap, history,
                   events>>

-----------------------------------------------------------------------------
(* The cache. *)

(* Mutant: the index does not wrap. *)
CacheMsgNoWrap(m) ==
    /\ cache' = IF Len(cache) < CacheSize THEN Append(cache, m) ELSE Append(Tail(cache), m)
    /\ idx' = idx + 1

(* dqContext_cacheMsg: a ring, of which cache holds what is left. *)
CacheMsg(m) ==
    /\ cache' = IF Len(cache) < CacheSize THEN Append(cache, m) ELSE Append(Tail(cache), m)
    /\ idx' = (idx + 1) % CacheSize

(* dqContext_clearCache, if c. *)
ClearCacheIf(c) ==
    /\ cache' = IF c THEN <<>> ELSE cache
    /\ idx' = IF c THEN 0 ELSE idx

(* One message of a scan, in the state acc: the one that is expected is shown.  *)
(* A scan for the numbers before end is over when the last of them was found; one *)
(* that stops is over at the first number that is too large.                   *)
ScanStep(acc, m, end, stops) ==
    CASE acc.over -> acc
      [] ~acc.over /\ m.seq = acc.last + 1 ->
           [last |-> m.seq, view |-> Show(acc.view, m), over |-> m.seq + 1 = end]
      [] ~acc.over /\ m.seq # acc.last + 1 ->
           [acc EXCEPT !.over = stops /\ m.seq > acc.last + 1]

(* What a scan of messages ms for the numbers after from adds to view v. *)
Scan(ms, v, from, end, stops) ==
    LET after[k \in 0 .. Len(ms)] ==
          IF k = 0 THEN [last |-> from, view |-> v, over |-> FALSE]
          ELSE ScanStep(after[k - 1], ms[k], end, stops)
    IN  after[Len(ms)]

(* dqContext_applyPreInitialCache: the slots below mCurCacheIdx. *)
ApplyPreInitialCache(v, from) ==
    Scan(SubSeq(cache, Len(cache) - idx + 1, Len(cache)), v, from, 0, TRUE)

(* dqContext_fillGap: the whole ring, for the numbers between from and end;  *)
(* if there are none between them the scan does not stop at end.            *)
FillGap(v, from, end) == Scan(cache, v, from, end, FALSE)

-----------------------------------------------------------------------------
(* Mutant: the application is not told that the quality is OK again. *)
ResetDqStateQuietly(state) ==
    /\ dq' = "OK"
    /\ told' = told

(* resetDqState in the given state. *)
ResetDqState(state) ==
    /\ dq' = "OK"
    /\ told' = IF state \in {"OK", "NOT_ESTABLISHED"} THEN told ELSE "OK"

(* mamaSubscription_setPossiblyStale: the transport was disconnected, or a   *)
(* message of unknown status arrived.                                      *)
SetPossiblyStale ==
    /\ Event
    /\ dq = "OK"
    /\ dq' = "POSSIBLY_STALE"
    /\ told' = "MAYBE_STALE"
    /\ UNCHANGED <<set, publisher, wire, reply, seq, sid, try, cache, idx, expecting, asked,
                   view, gap, history>>

(* mamaSubscription_requestRecap: onRecapRequest is called, and not onQuality. *)
RequestRecap ==
    /\ Event
    /\ dq' = "WAITING_FOR_RECAP"
    /\ asked' = asked \cup {"recap"}
    /\ givenUp' = FALSE
    /\ own' = (own \/ dq # "WAITING_FOR_RECAP")
    /\ UNCHANGED <<set, publisher, wire, reply, seq, sid, try, cache, idx, expecting, told,
                   view, gap>>

(* imageRequest_stopWaitForResponse of the requests rs, which are given up. *)
StopWaitForResponse(rs) ==
    /\ asked \cap rs # {}
    /\ asked' = asked \ rs
    /\ reply' = IF asked \subseteq rs \/ "initial" \in rs THEN NoMsg ELSE reply
    /\ expecting' = FALSE
    /\ givenUp' = TRUE
    /\ UNCHANGED <<set, publisher, wire, context, told, view, gap, own>>

(* imageRequestImpl_processTimeout of a recap request after the last retry. *)
RecapTimeout ==
    /\ Event
    /\ StopWaitForResponse({"recap"})

(* A message that refuses the image, by its type or by its status (not          *)
(* permissioned, not found, expired, deleted, ...): onError is called.        *)
Refusal ==
    /\ Event
    /\ StopWaitForResponse({"initial", "recap"})

IsTakeover(m) == sid # 0 /\ m.sender # sid

(* After a takeover that waits for a recap the message is held back, and the *)
(* context is changed before the rest of the check, which still looks at the *)
(* old number and state.                                                   *)
Held(m) == IsTakeover(m) /\ set.waitFt
Base(m) == IF Held(m) THEN m.seq ELSE seq
State(m) == IF Held(m) THEN "WAITING_FOR_RECAP_AFTER_FT" ELSE dq
Forward(v, m) == IF Held(m) THEN v ELSE Show(v, m)

-----------------------------------------------------------------------------
(* processPointToPointMessage and, for images, dqStrategy_checkSeqNum: the   *)
(* image is shown whatever the check says, then the cache is applied.       *)
ProcessImage(m) ==
    LET adopt == IsTakeover(m) /\ ~set.waitFt
        stale == ~adopt /\ m.type = "initial" /\ m.status = "STALE"
        apply == set.onInitial /\ (m.type = "initial" \/ set.preRecap)
        shown == ApplyPreInitialCache(Fresh(m), m.seq)
    IN  /\ expecting' = FALSE
        /\ asked' = {} /\ givenUp' = FALSE
        /\ reply' = NoMsg
        /\ IF stale
           THEN dq' = "STALE_NO_RECAP" /\ UNCHANGED told
           ELSE ResetDqState(State(m))
        /\ sid' = m.sender
        /\ try' = (try \/ (~adopt /\ (m.type = "initial" \/ set.preRecap)))
        /\ seq' = IF apply THEN shown.last ELSE m.seq
        /\ view' = IF apply THEN shown.view ELSE Fresh(m)
        /\ ClearCacheIf(apply)
        /\ gap' = FALSE

(* dqStrategy_checkSeqNum for updates, with the forwarding that follows. *)

InSequence(m) == dq = "NOT_ESTABLISHED" \/ m.seq = seq + m.count
Good(m) == InSequence(m) /\ m.status = "OK"
Old(m) == set.ignoreDups /\ m.seq <= seq

(* handleFTTakeover without waiting: the update is the one expected. *)
AcceptTakeover(m) ==
    /\ IsTakeover(m) /\ ~set.waitFt
    /\ ResetDqState(dq)
    /\ seq' = m.seq /\ sid' = m.sender
    /\ view' = Fresh(m)
    /\ UNCHANGED <<try, cache, idx, asked, gap, givenUp>>

NoGap(m) ==
    /\ Good(m)
    /\ ResetDqState(State(m))
    /\ seq' = m.seq
    /\ view' = IF dq = "NOT_ESTABLISHED" THEN Fresh(m) ELSE Forward(view, m)
    /\ try' = FALSE
    /\ ClearCacheIf(try)
    /\ UNCHANGED <<sid, asked, gap, givenUp>>

(* An old update that is not forwarded, or any update while the recap that   *)
(* follows a takeover is awaited.                                          *)
Dropped(m) ==
    /\ ~Good(m)
    /\ Old(m) \/ (dq = "WAITING_FOR_RECAP_AFTER_FT")
    /\ dq' = State(m)
    /\ seq' = Base(m)
    /\ try' = (try /\ ~InSequence(m))
    /\ ClearCacheIf(try /\ InSequence(m))
    /\ UNCHANGED <<sid, asked, told, view, gap, givenUp>>

Duplicate(m) ==
    /\ ~Good(m) /\ ~Old(m) /\ dq # "WAITING_FOR_RECAP_AFTER_FT"
    /\ m.seq = seq
    /\ dq' = "DUPLICATE"
    /\ told' = "DUPLICATE"
    /\ view' = Forward(view, m)
    /\ UNCHANGED <<seq, sid, try, cache, idx, asked, gap, givenUp>>

(* Mutant: a gap that was filled in part counts as filled. *)
GapPartlyFilled(m) ==
    LET fill == ~set.onInitial /\ try /\ ~InSequence(m)
        found == FillGap(view, Base(m), m.seq)
        full == fill /\ found.last > Base(m)
        clear == fill \/ (try /\ InSequence(m))
    IN  /\ view' = Forward(IF fill THEN found.view ELSE view, m)
        /\ try' = (try /\ ~clear)
        /\ ClearCacheIf(clear)
        /\ \/ /\ full
              /\ dq' = State(m) /\ seq' = m.seq
              /\ UNCHANGED <<asked, told, gap, givenUp>>
           \/ /\ ~full
              /\ seq' = Base(m)
              /\ gap' = TRUE
              /\ dq' = "WAITING_FOR_RECAP"
              /\ asked' = IF State(m) = "WAITING_FOR_RECAP" THEN asked ELSE asked \cup {"recap"}
              /\ givenUp' = (givenUp /\ State(m) = "WAITING_FOR_RECAP")
              /\ told' = IF State(m) \in {"WAITING_FOR_RECAP", "POSSIBLY_STALE"}
                         THEN told ELSE "STALE"
        /\ UNCHANGED sid

(* Mutant: no recap is requested for data that are possibly stale. *)
GapWithoutRecap(m) ==
    LET fill == ~set.onInitial /\ try /\ ~InSequence(m)
        found == FillGap(view, Base(m), m.seq)
        full == fill /\ found.over
        clear == fill \/ (try /\ InSequence(m))
    IN  /\ view' = Forward(IF fill THEN found.view ELSE view, m)
        /\ try' = (try /\ ~clear)
        /\ ClearCacheIf(clear)
        /\ \/ /\ full
              /\ dq' = State(m) /\ seq' = m.seq
              /\ UNCHANGED <<asked, told, gap, givenUp>>
           \/ /\ ~full
              /\ seq' = Base(m)
              /\ gap' = TRUE
              /\ dq' = "WAITING_FOR_RECAP"
              /\ asked' = IF State(m) \in {"WAITING_FOR_RECAP", "POSSIBLY_STALE"}
                          THEN asked ELSE asked \cup {"recap"}
              /\ givenUp' = (givenUp /\ State(m) = "WAITING_FOR_RECAP")
              /\ told' = IF State(m) \in {"WAITING_FOR_RECAP", "POSSIBLY_STALE"}
                         THEN told ELSE "STALE"
        /\ UNCHANGED sid

(* A number was missed, or the update is marked stale: it is filled from the *)
(* cache, or onGap is called, a recap requested unless one is awaited, and   *)
(* the update forwarded (handleStaleData, dqStrategy_sendRecapRequest).      *)
Gap(m) ==
    LET fill == ~set.onInitial /\ try /\ ~InSequence(m)
        found == FillGap(view, Base(m), m.seq)
        full == fill /\ found.over
        clear == fill \/ (try /\ InSequence(m))
    IN  /\ view' = Forward(IF fill THEN found.view ELSE view, m)
        /\ try' = (try /\ ~clear)
        /\ ClearCacheIf(clear)
        /\ \/ /\ full
              /\ dq' = State(m) /\ seq' = m.seq
              /\ UNCHANGED <<asked, told, gap, givenUp>>
           \/ /\ ~full
              /\ seq' = Base(m)
              /\ gap' = TRUE
              /\ dq' = "WAITING_FOR_RECAP"
              /\ asked' = IF State(m) = "WAITING_FOR_RECAP" THEN asked ELSE asked \cup {"recap"}
              /\ givenUp' = (givenUp /\ State(m) = "WAITING_FOR_RECAP")
              /\ told' = IF State(m) \in {"WAITING_FOR_RECAP", "POSSIBLY_STALE"}
                         THEN told ELSE "STALE"
        /\ UNCHANGED sid

MissedSequence(m) ==
    /\ ~Good(m) /\ ~Old(m) /\ dq # "WAITING_FOR_RECAP_AFTER_FT" /\ m.seq # seq
    /\ Gap(m)

CheckSeqNum(m) ==
    \/ AcceptTakeover(m)
    \/ /\ ~IsTakeover(m) \/ set.waitFt
       /\ NoGap(m) \/ Dropped(m) \/ Duplicate(m) \/ MissedSequence(m)

-----------------------------------------------------------------------------
(* listenerMsgCallback_processMsg: updates that arrive before the image are  *)
(* cached.                                                                 *)
ToCache == expecting \/ (dq = "WAITING_FOR_RECAP" /\ set.preRecap)

OwnWaitEnds == own' = (own /\ dq' = "WAITING_FOR_RECAP")

ProcessUpdate ==
    /\ wire # <<>> /\ Head(wire).type = "update"
    /\ \/ /\ ToCache
          /\ CacheMsg(Head(wire))
          /\ UNCHANGED <<dq, seq, sid, try, asked, told, view, gap, givenUp>>
       \/ ~ToCache /\ CheckSeqNum(Head(wire))
    /\ wire' = Tail(wire)
    /\ OwnWaitEnds
    /\ UNCHANGED <<set, publisher, reply, expecting, events>>

ProcessRecap ==
    /\ wire # <<>> /\ Head(wire).type = "recap"
    /\ ProcessImage(Head(wire))
    /\ wire' = Tail(wire)
    /\ OwnWaitEnds
    /\ UNCHANGED <<set, publisher, events>>

(* imageRequestImpl_onInitialMessage. *)
ProcessReply ==
    /\ reply # NoMsg
    /\ ProcessImage(reply)
    /\ OwnWaitEnds
    /\ UNCHANGED <<set, publisher, wire, events>>

Environment ==
    \/ \E k \in Counts, st \in Statuses : Publish(k, st)
    \/ PublishRecap \/ Takeover \/ Lose \/ Repeat
    \/ SetPossiblyStale \/ RequestRecap \/ RecapTimeout \/ Refusal

Respond == \E st \in Statuses : Answer(st)

Process == ProcessUpdate \/ ProcessRecap \/ ProcessReply

Next == Environment \/ Respond \/ Process

(* The queue is dispatched, and a request that does not time out is answered. *)
Fairness == WF_vars(Process) /\ WF_vars(Respond)

Spec == Init /\ [][Next]_vars /\ Fairness

-----------------------------------------------------------------------------
TypeOK ==
    /\ set \in Settings
    /\ head \in 1 .. MaxSeq /\ sender \in 1 .. MaxTakeovers + 1
    /\ wire \in Seq(Msg) /\ Len(wire) <= MaxWire
    /\ reply \in Msgs
    /\ dq \in DqStates
    /\ seq \in 0 .. MaxSeq
    /\ sid \in 0 .. MaxTakeovers + 1
    /\ {try, expecting, gap, givenUp, own} \subseteq BOOLEAN
    /\ cache \in Seq(Msg) /\ Len(cache) <= CacheSize
    /\ idx \in 0 .. CacheSize - 1
    /\ asked \subseteq {"initial", "recap"}
    /\ told \in {"OK", "STALE", "MAYBE_STALE", "DUPLICATE"}
    /\ view \in ViewType

UpToDate == Complete(view) /\ view.top = seq

(* While the quality is OK the application of a subscription that ignores old *)
(* updates holds every update up to the number the subscription goes on from,  *)
(* as long as the publisher is the first one: none was lost, left behind in    *)
(* the cache, or shown out of order.                                        *)
NoSilentGap == dq = "OK" /\ set.ignoreDups /\ sender = 1 => UpToDate

(* The same with any settings and publishers. *)
NoGapEver == dq = "OK" => UpToDate

(* onQuality keeps up with the state: an application that was told that the  *)
(* data are bad is told when they are good again, and one that believes them *)
(* good is not in fact waiting for a recap, but for one it requested itself. *)
QualityIsTold ==
    /\ dq = "OK" => told = "OK"
    /\ dq = "WAITING_FOR_RECAP" => told # "OK" \/ own

(* An application that was shown a gap is told that the quality is bad, also if *)
(* the gap was found while its own request for a recap is answered.           *)
GapIsTold == gap /\ dq = "WAITING_FOR_RECAP" => told # "OK"

(* "Received a stale message and are waiting for a recap" (dqstrategy.h):     *)
(* somebody is going to send one, unless the request for it was given up, after *)
(* its last retry or because it was refused; no image that comes for another    *)
(* request, and no new wait, leaves the state without a request.              *)
WaitingIsAsked == dq = "WAITING_FOR_RECAP" => asked # {} \/ givenUp

(* dqstrategy.h, without the exception. *)
WaitIsAnswered == dq = "WAITING_FOR_RECAP" => asked # {}

(* "the topic is considered stale ... until the feed handler satisfies a     *)
(* recap request" (mama/subscription.h): that happens, unless the request is   *)
(* given up.                                                               *)
StaleRecovers ==
    dq = "WAITING_FOR_RECAP" ~> dq # "WAITING_FOR_RECAP" \/ givenUp

(* "the subscription will not receive further messages until the feed        *)
(* handler satisfies a recap request" (mama/subscription.h).                *)
NothingWhileStale == [][gap /\ gap' => view' = view]_vars

(* "If it is stale, do not request a recap" (dqstrategy.c), of a message     *)
(* whose number is correct.                                                *)
StaleMessageAsksNothing ==
    [][wire # <<>> /\ wire' = Tail(wire) /\ InSequence(Head(wire))
         /\ Head(wire).status = "STALE" => asked' \subseteq asked]_vars

(* "MAMA checks the pre-initial cache to see if there are any messages which *)
(* sequentially follow the initial value and pass them to the application"   *)
(* (mama/subscription.h).                                                  *)
CacheIsApplied ==
    [][expecting /\ set.onInitial /\ ProcessReply =>
         \A i \in DOMAIN cache : cache[i].seq # seq' + 1]_vars
=============================================================================
