# A verification of MAMA's core and of MAMDA's order books

This directory holds TLA+ specifications of parts of the OpenMAMA C library
(`mama/c_cpp/src/c` and `common/c_cpp/src/c`) and of the order books of the
MAMDA layer above it (`mamda/c_cpp/src/cpp/orderbooks`), the TLC configurations that check
them on small instances, and TLAPS proofs of some of their properties for every
instance. `PROJECT.json` is the index: it maps each definition to the lines it
models, and lists the runs, the mutants that show each property can fail, the
hazards, the findings and the theorems.

To repeat a check: `tlc -workers 2 -config Subscription_safe.cfg MCSubscription`;
to repeat a proof: `tlapm SubscriptionProofs.tla`. Ten runs hold and two,
`subscription_lockcycle` and `queue_join`, show a disagreement between the code and its
comments; the other configurations, most of which show further disagreements, are
described in section 11.

## 1. The system

MAMA is a middleware-neutral messaging API for market data. An application opens
the library, creates a *transport* and one or more *event queues*, and subscribes
to topics. A *bridge* (qpid, avis) does the messaging; the library adds what a
market data client needs above it.

| Part | State | Operations | Meets |
|---|---|---|---|
| Subscription (`subscription.c`) | `mState` (eleven states), the queued creation, the bridge subscription, the entry in the transport's list, the two image requests | setup, activate, deactivate, destroy, deallocate; createAction; onMsg, onDestroy of the bridge | throttle, bridge, transport, queue object count, image requests, data quality |
| Throttle (`throttle.c`) | list of actions, timer, quota and interval | dispatch, three ways to remove, setRate, timer callback, destroy | actions call back into subscriptions, image requests and publishers, under the list's lock |
| Image requests (`imagerequest.c`), destroy handle (`destroyHandle.c`) | waiting flag, message, inbox, reply timer, retry count, pending actions; reference count | send, action, answer, timeout, stop, destroy | throttle, inbox, timer, subscription |
| Data quality (`dqstrategy.c`, `listenermsgcallback.c`) | last sequence number and sender, quality state, ring of cached messages | check a message, gap, recap, apply the cache, takeover | image requests, application callbacks |
| Fault tolerance (`ft.c`) | state, weight, incarnation, heartbeat and timeout timers | activate, deactivate, setWeight, heartbeat in, two timers | other processes, by heartbeats |
| Event queue and dispatcher (`queue.c`, `bridge/qpid/queue.c`, `common/.../queue.c`), timers (`timer.c`, `bridge/qpid/timer.c`) | list of events, semaphore, free items, dispatch lock and flag, watermarks, count of open objects; the dispatcher's flags and thread | enqueue, dispatch, stop; create and destroy a dispatcher; destroy, destroyWait, destroyTimedWait | every object that has events on the queue |
| Order book, publishing (`MamdaOrderBook.cpp`, `...PriceLevel.cpp`, `...BasicDeltaList.cpp`, `...Writer.cpp`, `dqpublisher.c`) | levels with their entries, pending deltas, sequence number | add, update and delete an entry or a level, publish deltas, a recap, a clear | its listeners, by messages |
| Order book, listening (`MamdaOrderBookListener.cpp`, `MamdaLock.cpp`) | the full book, deltas not yet told, conflation timer, lock, sequence number, consistency, quality | update, recap, clear, quality, timer, force, clear conflated, snapshots | publisher, delta handlers, threads that read the book |
| Refresh transport, transport, publisher, inbox, conflation, the rest of the bridges, locks, lists | see `PROJECT.json` | | not modelled yet |

Threads: the application's, the dispatchers of each event queue, the timer thread
(the throttle's timer runs on the default queue), and the middleware's. Locks are
recursive. What is hard here:

* callbacks run user code while a lock is held (the throttle's list, the
  subscription's `mCreateDestroyLock`), and the locks are taken in two orders;
* objects are destroyed in two phases, with a callback of another thread between;
* state is read without a lock and used after one is taken (`list_size` in the
  throttle's timer, `mWaitingForResponse` in the timeout of an image request);
* answers, timeouts and cancellations of a request race each other;
* messages are lost, repeated, cached, conflated, and published by another process
  after a takeover;
* members of a group crash, come back and lose heartbeats;
* a dispatcher is stopped through flags that its own thread sets, and a queue is
  destroyed while events of its objects are on it;
* a delta points to a level or an entry that changes, or is detached and freed,
  before the delta is published or told.

What each part must guarantee is what sections 3 to 10 check. The hazards, each at
its line, are in `PROJECT.json`.

## 2. Modules and plan

| Module | Models | Runs | Proofs |
|---|---|---|---|
| `Subscription` | lifecycle of one subscription | `Subscription_*.cfg`, `MCSubscription` | `SubscriptionProofs` |
| `Throttle` | the throttle | `Throttle_*.cfg`, `MCThrottle` | `ThrottleProofs` |
| `FtMember` | a fault tolerant group | `FtMember_*.cfg`, `MCFtMember` | `FtMemberProofs` |
| `DataQuality` | quality of one subscribed topic | `DataQuality_*.cfg`, `MCDataQuality` | `DataQualityProofs` |
| `ImageRequest` | image requests sharing a throttle, destroy handles | `ImageRequest_*.cfg`, `MCImageRequest` | `ImageRequestProofs` |
| `EventQueue` | a queue, its dispatcher, the threads that use them | `EventQueue_*.cfg`, `MCEventQueue` | `EventQueueProofs` |
| `BookFeed` | what an order book feed promises (abstract) | through `OrderBook` | model-checked only |
| `BookDelta` | deltas and their conflation, used by the two modules below | | in `BookListenerProofs` |
| `OrderBook` | a book from publisher to listener; implements `BookFeed` | `OrderBook_*.cfg`, `MCOrderBook` | model-checked only |
| `BookListener` | a listener's conflation, timer, lock and snapshots | `BookListener_*.cfg`, `MCBookListener` | `BookListenerProofs` |
| `Selection` | what a loop that removes elements leaves of a list, used by `Throttle` and `ImageRequest` | through these two | `SelectionProofs`, which also has the loop theorem the other proofs use |

The modules overlap where the code calls across: `Subscription` contains the
throttle's list as far as one creation is concerned, `ImageRequest` contains its
elements, and `DataQuality` contains image requests as a set of what is asked.
`EventQueue` has the events and the object count that the others take for granted.
`OrderBook` composes publisher, wire and listener; `BookListener` looks at the
listener alone, with threads and a timer.

`Selection` has one operator that matters, `At(s, K)`: the elements of `s` at the
positions `K`, in order. It is what `SelectSeq` gives, defined by counting instead of
recursion so that it can be reasoned about; TLC checks that the two agree
(`AtSelects` in `MCThrottle`). `SelectionProofs` proves what the other proofs need of it: `At`
is a sequence of as many elements as there are positions, each is one of `s`,
none is missing, and their order is that of `s`. It also has `LoopRuns`: a loop of `n`
steps over states of `X`, each step a function from `X` to `X`, has a state after every step. A
recursive function in a LET is such a loop. What holds before a loop and over each of
its turns holds after it, by the smallest turn at which it would not (`Smallest`): this
is how a theorem about a loop of any length is proved without an induction rule.

The plan, most important first:

1. (done) lifecycle, throttle, image requests, data quality, fault tolerance.
2. (done) the event queue with its dispatcher; order books with an abstract
   specification and the refinement.
3. (done) proofs of the safety invariants and action properties that the runs check:
   lifecycle, throttle, image requests, fault tolerance, data quality, event queue,
   the listener's lock, its conflation and its handler. `OrderBook` with its refinement
   of `BookFeed` stays with TLC.
4. `RefreshTransport`: the refresh list, the two timers, and the throttle's lock
   between them and the subscriptions. The stale recap timer keeps its pointer after
   it has destroyed itself (`refreshtransport.c`:145).
5. `DestroyHandle` alone, with several threads and its lock, which
   `removeReference` does not release in one case (`destroyHandle.c`:137).
6. The many-readers lock, the timer heap's thread, the iterators of lists
   (`list.c`:715), the library's open and close counts.
7. Publishers, the transport's quality and load balancing, conflation, the endpoint
   pool of the qpid bridge.

## 3. Subscription

Variables are named in the module after the fields they stand for. A step is the
code between two lock acquisitions, `pc` is where each thread is. `App` threads
call `Setup`, `Activate`, `DeactivateCall`, `Destroy` and `Deallocate` at any time
the state allows; `TimerPop` is the throttle's timer running `createAction`; the
`Bridge` thread delivers `Message` and the bridge's `OnSubscriptionDestroyed`.
`config` is what a behaviour is about, and never changes: the kind of subscription
(market data, snapshot, basic), whether the default throttle has a rate, whether
the bridge calls onDestroy inside its destroy function, as the two bridges of the
repository do, and whether its create function may fail.

Properties. `QuietMeansNothingOutstanding`: a subscription whose state says it is
not active has nothing on the throttle, no bridge, no listener and no callback to
come; destroy and deallocate rely on it. `ActionCanBeRemoved`: deactivate only
removes an action that is on the list, holding its lock. `NoUseAfterFree`: once the
object is freed nothing is queued that leads to it, it has no listener and no bridge, no
callback of the bridge is to come, and no thread is in a place of the library that will use it
(inside a dispatch, the creation, or the part of the bridge's callback before its
onDestroy). `OneDestroyNotification`, `QueueCanBeDestroyed` (the queue's object count).
`DestroyCompletes` and `TransitionsEndUnlessLockCycle` are liveness.

Deallocate may be called by any thread, from a callback too, in which case that thread
may hold `mCreateDestroyLock`, which is recursive. The application only sees to it that no
other call of its own is running (`OtherCallsDone`); the library's threads may be
anywhere. `NoUseAfterFree` is about the resources and the places that lead to the freed
object. The few instructions after onCreate or onDestroy has been called are not in
it, because the code has no protection for them: `NobodyInsideAfterFree`, which has
them, fails (section 11).

| Run | Shows |
|---|---|
| subscription_safe | every safety invariant, for all 24 configurations and two application threads |
| subscription_live | with one application thread and bridges that accept, every transition ends, unless the two locks are taken in opposite orders |
| subscription_lockcycle | that cycle: activate holds `mCreateDestroyLock` and waits for the throttle, deactivate the reverse |

Bounds: `MaxOpen = 2` open objects at once is enough to see a count leak, since it
would grow without bound; two application threads plus the timer and the
middleware give every pair of racing calls. Application threads are
interchangeable (symmetry, safety runs only).

Fairness: strong fairness for threads that wait for a lock, for user callbacks
to return, for the timer and for the middleware. A mutex of the platform is not
fair by its standard, but a thread that finds it free again and again gets it;
the lock cycle is a real deadlock under any scheduler. Calls of the application
have no fairness.

Proof. `LifecycleInv` says, for each state, who owns which lock, whose hands the
creation is in, whether there is a bridge and a callback owed, and who may still
touch the object. It is inductive for any set of application threads and every
value of the constants. The invariants checked by `subscription_safe` follow, without
further hypotheses. `QueueCanBeDestroyed` excludes snapshots, whose count nobody lowers.

## 4. Throttle

`App` threads call dispatch, remove and setRate; the `Timer` thread runs the
callback: drain everything if the rate is 0, else look at the size of the list,
destroy the timer if it is empty, and run a quota of actions, which may dispatch
and remove themselves. Unlocked reads and writes are steps of their own: so is the
read of `mRate` before each action that is drained, which the list's lock does not
cover. Rates are
tenths of a message a second; intervals are tenths of a second.

Properties. `FifoOrder`: actions that are not immediate run in the order they were
dispatched. `BurstWithinQuota`: one callback runs no more than the quota.
`StrandedOnlyPastQuota`: actions are without a timer only if more than a quota
were dispatched while the callback was destroying it. `RunsUnlessStranded`
(liveness): an action runs, or is removed, or is such a one.

The run `throttle` has two threads, three actions, one of them immediate, and a
throttle of one action per interval that is switched off and on: two actions exceed
the quota, so the limit, the stranding and every path of the callback happen.
`Throttle_large.cfg` checks the safety properties with rates whose quotas are 1, 3
and none, which three actions exceed; it takes longer. The element of an action may
fail to be allocated. Fairness: strong for threads inside the library, which wait
for the list's lock, and for the timer.

Proofs, for any threads, actions and rates. `QuotaIsALimit` by `BurstInv`: the
counter of the interval is at least the number of actions run in this callback at
each point of its loop, and was below a quota in force during it.

`RunsInOrder` (`FifoOrder`) by `OrderInv`. That what ran had nothing before it is not
inductive: the list must hold each queued action once, and those pushed to the back
in the order they were pushed, and an action in the hands of a thread that is inside
dispatch must be on no list and in nobody else's hands.

`TimerOutlivesList` (`StrandedOnlyPastQuota`), if destroy does not overlap a callback
or a dispatch (`~DestroyOverlap`, section 11), by `StrandInv`: the lock is held from
the test of the timer to the push and over the loop, the callback counts exactly what
it runs, and when there is no timer and something is on the list or about to be
pushed, the callback that destroyed it is still in its loop or has run a quota.

## 5. Fault tolerance

A member is a process with its own event queue, so a callback is a step. Time
passes in ticks: a due timer fires before the next tick, heartbeats arrive or are
lost within a tick, in any order. The socket of a multicast member is bound in
setup: heartbeats that come before it is activated, or while it is deactivated, stay in the
socket until it reads them (`Buffered`), and are lost with its process. `Crash` and `Restart` model processes; a
restarted member keeps its process id in the model, so that the order of
credentials between members does not change.

Properties. `StandbyIsWatching`: a running member that is not ACTIVE has a timeout
pending. `OneIncumbent`: two members that have both had time to hear each other
are not both ACTIVE. `IncumbentStays`: a member of equal weight does not displace
an ACTIVE one. `HighestWeightWins` (liveness): when changes and losses stop,
exactly one member of the highest weight is ACTIVE.

`ft_safe` has three members, two of equal weight, the third above them, and five
calls, crashes and restarts: enough for an election, a crash of its winner, a
second election, and the return of the first winner. Its weights are fixed, no
heartbeat is lost and `Timeout` is three heartbeats: `OneIncumbent` cannot hold if
weights change several times between two heartbeats or the timeout is not longer
than the heartbeat interval, and the code does not claim it. `ft_live` has two members
with weight changes and two losses. Fairness: weak for callbacks
and for time.

Proofs. `CredentialsOrder`: comparison of credentials is a strict order, total on
distinct processes. `SomebodyWatches`: `StandbyIsWatching` for any group, weights,
intervals and losses.

`ElectsOne` (`OneIncumbent`) and `ElectedStays` (`IncumbentStays`), for a calm group
(`Calm`) of any size with any weights and any number of calls, crashes and restarts:
multicast, nothing lost, weights that stay, and `Heartbeat < Timeout`. An incumbent is
a member that runs and has no timeout. `GroupInv` says of any two running members, one
of which beats the other: the worse one has a better heartbeat to read, or will get
one before it times out, or the better one sends one before it takes over itself
(`Announced`); if the better one was elected, the first two only (`Respected`); and a
heartbeat that beats an incumbent has a higher weight (`Unchallenged`). A member that
times out reads its socket first. If it takes over, whoever beats it was never elected
and still has to announce itself, whoever it beats has its heartbeat at once, and a
second incumbent would contradict one or the other. The order of credentials being
total is what makes the two cases all there are.

## 6. Data quality

A publisher numbers its updates on a first-in first-out wire that loses and
repeats; a new publisher may take over; images answer requests through an inbox
at any later time or come unasked. `Process` is the whole handling of one
message: `listenerMsgCallback` with `dqStrategy_checkSeqNum`. `view` is not in the
code: it is what the application has been shown, and whether an update is missing
in it.

Properties. `NoSilentGap`: while the quality of a subscription that ignores duplicates is
OK, and its publisher is the first one, the application has every update up to the
number the subscription goes on from. The scheme that delivers all shows old messages by
design, and after a takeover the code forwards the new publisher's messages before any
image by design, so the statement is about neither (`NoGapEver`, section 11).
`QualityIsTold`: an application that was told that the data are bad is told when they
are good again, and one that believes them good is not waiting for a recap, unless it
requested that one itself: `mamaSubscription_requestRecap` and
`dqStrategy_sendRecapRequest` change the state and call nobody. The history variable `own`
says that the wait began so. `WaitingIsAsked`: a subscription that waits for a recap has a
request out, unless its last request was given up (history variable `givenUp`).
`StaleRecovers` (liveness) with the same exception.

A request is given up in two ways. `RecapTimeout`: its last retry was not answered. `Refusal`:
a message says that there will be no image, by its type (DELETE, EXPIRE,
NOT_PERMISSIONED, NOT_FOUND) or its status, and `listenerMsgCallback_processMsg` stops the
requests and leaves the state as it is. In both cases the state stays
`WAITING_FOR_RECAP`, and the gaps that follow ask for nothing: this is the exception
in `WaitingIsAsked`, and `WaitIsAnswered`, without it, fails (section 11).

The run `dq` has seven settings (`MCMost`: each use of the cache with old updates
dropped, the default, and one that waits after a takeover), updates that stand
for one or two, good and stale ones, a cache of two messages, numbers up to four, two
messages on the wire and two events: takeovers (one), lost and repeated messages,
disconnections, unasked recaps, requests of the application, and requests given up. Two
events give every pair, such as a loss while the application's own recap is out, a
refusal after a gap, or a late recap after a time-out; four numbers let the cache wrap. The
theorems below have none of these bounds.

After a takeover with waitforrecap, the state is `WAITING_FOR_RECAP_AFTER_FT`, and the recap
is requested by nobody until the publisher or a timer of the transport acts:
`StaleRecovers` is about the recaps that the subscription requests. Fairness: weak for
the queue's dispatch and for the answer to a request that is not given up.

Sequence number 0 and the wrap of the numbers are left out, and so are group
subscriptions with several subjects.

Proofs, for any sequence numbers, message counts, faults, takeovers, requests and
refusals, without further hypotheses. `QualityKeepsUp` (`QualityIsTold`); the invariant
adds what was told in the states from which `resetDqState` says nothing.
`WaitsForAnAnswer` (`WaitingIsAsked`). `TypesAreKept` (`TypeOK`): the strengthening is that
the ring's index never passes the number of messages in it, so that a scan below the
index reads slots that were written.

`NoGapIsSilent` (`NoSilentGap`). The condition of the property, one publisher and old
updates dropped (`OnePublisher`), holds from the start up to each state in which it holds
(`OnePublisherBefore`), so the invariant is conditional on it too. The
wire carries each update after those it follows, or again (`WireInv`), and the cache
holds what was published (`PlainInv`); while the quality is OK the application has
all up to the last number, and while it waits for a recap that is so too or the
update that would hide the gap never comes (`FlowInv`), which is why an update in
sequence may end the wait. The last conjunct of `FlowInv` is what makes it inductive with
a cache: after a gap that the cache filled in part the cache is not tried again
(`mTryToFillGap`), or it was kept for the next image only. What the scans of the cache show
is established for a cache of any length (`ScanKeeps`, `ScanCatches`) with the loops of
`SelectionProofs`. The condition on publishers is needed: with a takeover the cache
may hold updates of both, and the number alone decides which of them follow an
image.

## 7. Image requests

Several requests share a throttle whose list elements are reused, last freed
first, as `list.c` does. The queue's thread sends, handles answers and timeouts
and destroys; the places where it is between an unlocked check and the locks are
`pc`. A request goes through the throttle or, like an initial request or while the
throttle has no rate, is sent at once. The throttle's thread runs actions; if
`DeactivateAnywhere`, an application thread deactivates at any moment. `Age` is the margin of `checkDestroyReplyTimer`:
an old timer may have ticked and is left alone. `Parts` is the number of messages
that make up an image.

Properties. `HandleOutlivesCallbacks`: the handle is freed only when neither the
inbox nor a timer points to it. One reference is counted for a response and one is
removed for each message of an image, so a request that took more messages than it had
references for is excused (history variable `overdrawn`). `NoActionAfterFree`: no action of a freed request is
on the throttle's list. `ElementsOnce`: the list and the free list share nothing.
`WaitEnds` (liveness): every wait ends, unless the very action that would have sent the
request was taken off the throttle's list by another request that was stopped (history
variable `stolen`). That exception is a defect: `imageRequest_stopWaitForResponse` does
not clear `mPendingActions` after it gave the list to
`wombatThrottle_removeMessagesFromList`, so a later stop removes the action of whoever
reuses the element (`SomebodyRemembers`, section 11). A request that was stopped with its own
action queued, and is sent again, is not excused.

The run `ireq` has two requests, throttled or not at each send, two retries and two
sends: enough for a request to be sent again after it was stopped while
another reuses its element. An image of several messages needs no second run: the
theorem below has any number, and `ImageRequest_parts.cfg` the counterexample. Fairness: weak for the
throttle, for time and for the queue's thread; an answer may never come.

Proof. `HandleSafety` (`HandleOutlivesCallbacks`) for any requests, retries, throttle, number
of messages per image and deactivating thread. The invariant (`Counted`,
`Shaped`, `Handled`) counts, for one request that is not overdrawn, the timer's reference and, while it
waits, the reference of the response; an open inbox without a request is the one
that create made; and while a timeout is handled the request is there and the
reference that giving up removes is still counted. Each request has its own handle, so
those that are overdrawn do not disturb the others.

`ListStaysAList` (`ElementsOnce`), for any constants, by `OnceInv`: the slots of the
list, those of the free list and those not yet allocated are apart. It needs nothing
of `mPendingActions`: `list_remove_element` ignores what is not on the list.
`ActionsOfTheLiving` (`NoActionAfterFree`) for requests that the queue's thread
deactivates (`~DeactivateAnywhere`; section 11 shows the race otherwise), by `HoldInv`:
every action on the list is pointed to by its request, which waits, and one about to
be dispatched is waited for; so whoever stops the request takes it back.

## 8. Event queue

Events are numbered as they are put on the queue. `items` is the list under its
mutex, `sem` the semaphore, `alloc` the list items that exist; the bridge adds
`mDispatchLock` (`dlock`), `mIsDispatching` (`running`) and the watermarks. A thread
that dispatches goes through the lock and the flag, the watermarks, the semaphore,
the list, the callback and the test of the flag, one step each (`Enter` to
`Again`); `mamaQueue_timedDispatch`, which the waiting destroy calls use, takes the
same steps without the lock. The dispatcher's thread is `ThreadStart`, `ThreadTest`
and `ThreadExit` around these. The main thread makes and destroys the dispatcher
and asks for the queue's destruction in the three ways the header offers. Objects
are timers: they fire, and their destruction puts a last event on the queue whose
callback lowers the queue's object count.

Properties of the run. `TokensMatch`: the semaphore and the list agree, counting the thread
between the two. `InOrder`: callbacks run one at a time and in order. `MemoryBounded`,
`NoUseAfterFree`. Liveness: `StopIsHeard`, `EventsAreDispatched` (an event that was put on
the queue is dispatched, as long as there is a dispatcher, nobody has called stop, which
the history variable `stopped` records, and the main thread is not destroying something) and `WaitEnds`
(mamaQueue_destroyWait destroys the queue once the application has destroyed its objects).
`TypeOK` holds too when it is added to the configuration, and `LowIsAhead` (a low watermark that
is still to come is not yet passed) with `MaxSize = 2` and `Low = 1`.

The run `queue` has two timers, a dispatcher and one more thread that dispatches, a
queue of one place that grows by one, two events beside the last ones, and one
round of the timed wait: the queue is full, grows, passes both watermarks, and two
threads want the dispatch lock.

The run `queue_join` checks `DispatcherStops`, that the join in mamaDispatcher_destroy
returns, and shows that it need not. mamaDispatcher_destroy sets the flag that the
dispatcher's thread tests and calls stop, which clears the bridge's flag. A thread that
has passed its test and has not entered the bridge sets the bridge's flag again, and
dispatches for ever; no caller can see or prevent that.

Two constants state what the code expects of the application, or what its queue has to
have: `Careful` (the queue is destroyed after its dispatcher, with nobody about to enter it),
`CloseFits` (the queue has room for a timer's last event). Section 11 shows what happens
without each. Fairness: weak, for a thread inside a call and for callbacks to return; none
for who gets the lock, and none for calls.

Not modelled: `mamaQueue_dispatchEvent`, native queues, the enqueue callback,
statistics.

Proofs, for any set of threads and objects, queue size and chunk. `SemaphoreCounts`
(`TokensMatch`) needs no assumption: the threads between semaphore and list are
finite in number, and each step moves one of them. The others assume `Careful`. `CareInv` says who
may be where: the dispatch lock is held over the loop, except by the main thread's
timed dispatch, during which there is no dispatcher and nobody enters. From it
`CallbacksInOrder` (`InOrder`): events on the list have consecutive numbers, and the
callback that began last is the one before them or before the one in hand.
`MemoryIsBounded`: at most one thread is between semaphore and list when the size is
compared. `FreedIsUnused`: once the count of open objects was 0 none is opened,
though the count is not locked up to the free.

## 9. Order books, from publisher to listener

`BookFeed` is the promise: the listener shows the book that the publisher had when
it published the sequence number the listener is at, unless it has noticed a gap.
`OrderBook` is how it is kept. A change of the publisher's book adds deltas
(`Noted`), the first one alone, later ones in a list per price where they are
conflated (`BookDelta`). A delta points to its level and entry and their state is
read when it is written: `gen` and `dead` say that the level or the entry has left
the book since. The writer makes a message of a single delta, of runs of deltas per
level, or of the whole book; `mamaDQPublisher_send` numbers it; the wire may lose or
repeat messages; the listener applies each level and entry to its own book. The
refinement maps each book to what its iterators show (`Visible`: levels of size 0
are skipped) and each message to the publisher's book at that time.

`orderbook` checks `ShowsThePublishedBook` (that is `BookFeed`'s specification)
and `SizesAddUp` (a level's size and count are those of its entries, on both sides),
for every four changes at two prices with two identifiers and two sizes,
one recap and one lost or repeated message: enough for a level or an entry to come,
go and come back between two publications, after a recap, and in a gap.
Identifiers are interchangeable (symmetry; all properties are safety). The
publisher publishes what is pending before a recap (`FlushFirst`), and sizes are not
0; section 11 shows both assumptions are needed.

One side of the book is modelled: deltas of bids and asks never meet. Entry
managers, market orders, visibility of sources and books without entries are left
out.

## 10. Order books, the listener

`BookListener` follows `handleUpdate`, `handleRecap`, `handleClear`, `setQuality`,
`onTimer`, `forceInvokeDeltaHandlers` and `clearConflatedDeltas` on the queue's
thread, and a second thread that takes snapshots. The handler is external: it keeps
a copy of the book (`told`) from recaps and deltas. With conflation on, the second
update in an interval returns with the write lock held (`lock = "queue"`), since the
timer that would tell the handler exists already; the next acquire of the same
thread is refused and it goes on, and the release of the timer's callback releases
the lock.

A message is one change: an entry set or ended; a level shown without entries, with or
without `PL_NUM_ATTACH`; the end of a level with all its entries; or a *flat* DELETE of a
level, with one entry or none, which is what the writer sends for a single conflated level
(`MamdaOrderBookWriter.cpp`:385-404) and which the listener takes with an attach count of 1
(`MamdaOrderBookListener.cpp`:3123): the level goes, and only the entry in the message makes
a delta. A duplicate is ignored and releases the lock if it was left held. A recap has levels
with entries and bare ones; its deltas are thrown away, but not their count and not
the first one, so a recap of one entry leaves a delta behind.

Properties. `NothingLost`: whatever was conflated, the pending deltas turn the
handler's copy into the book. `InStep`: outside a conflation interval the handler has
the book. Both except at the prices in `Lost`, for which the history variable `doubt` holds
what the code itself got wrong: "lost" where a level ended and no delta said so, or where
something ended while it was to be told as added though the handler had it already ("twice": the
delta that a recap left, or an ADD of a known entry), which conflation cancels. Section 11
has the traces (`AlwaysInStep`). So the two properties say that these are the only ways to
lose something. `LockedForTimer`: the lock is left held only while a timer will release
it. `FreedBeforeUpdates`: while pending deltas point to levels or entries that the loss of
quality freed, no update is let in that would conflate with them, and whatever lets
updates in again drops them. That the handler is given such deltas by the timer is not
prevented (`NoMisread`, section 11). Liveness: `SnapshotIsServed`.

`booklistener` has one price, two identifiers, two sizes and at most two pending
deltas at a price, conflation on and off, gaps, recaps of none, one and two entries and of
a bare level, clears, and the loss of quality at any moment. Deltas at different
prices are in different lists, so one price is enough for conflation (two are in
`OrderBook`). Fairness: the timer fires and the reader finishes; the lock goes to a
thread that waits for it when it is released, so neither side starves (strong
fairness of `OnTimer` and `StartReading`).

Proofs, for any prices, entries and bounds. `LockIsReleased` (`LockedForTimer`), and
`SnapshotIsOneBook`, which no run checks: the book does not change while a thread
reads it, although the queue's thread goes on when the lock it asks for is already its
own. Both by `LockInv`, which adds that the lock is the reader's exactly while it
reads.

`DeltasRebuildTheBook` (`NothingLost`), `HandlerIsInStep` (`InStep`) and
`UpdatesMeetNoFreed` (`FreedBeforeUpdates`), for every setting, recap and message, without
hypotheses. The handler is written as
a set: an entry is in its new copy if no delta is about it and it was in the old one, or
if the last delta about it leaves it in the book. The inductive invariant `CopyInv` says, for each
price at which nothing was lost, what `conflateEntryDeltas` leaves (`Conflated`): a delta of
an entry that is in the book is the last one about it and comes after any end of its level
(`Ordered`); an entry that no delta mentions is in the copy as it is in the level
(`Faithful`); the end of a level comes first and only once, a level is made by the first
delta or right after such an end (`Placed`), and, where nothing is in doubt, an entry that was
first added was not in the copy (`Named`). Without the last the conflation of ADD and
DELETE to nothing is not justified, and that is where "twice" turns into "lost". Where deltas
dangle, or no timer runs, the handler has the book (`HasBook`).

`SetConflated`, `ShowConflated`, `EndConflated` and `LevelEnds` are the kinds of
change at one price, `AddDeltaJoins` carries them through `addDelta`'s count, single delta and list, and
`EntryDetachedMarks` and `LevelDetachedMarks` through the detaching of what deltas point to.
`AddDeltasRuns` needs the loop theorem: the end of a level adds a delta for each of its entries.
`LeftOver` and `RecapCopy` are about the delta that a recap leaves, `LossCopy` about
deltas that dangle.

## 11. Further configurations

These configurations state what a comment or a header says, or drop an assumption
of a run, and TLC finds each violated by what the code does. They are run by hand.
Where the first column names the configuration of a run, it is changed as said there
and checks the property of the second column instead of its own.

| Configuration | Property | What happens |
|---|---|---|
| `Subscription_lockcycle` | `DeactivationNotifies` | `subscription.h`:493 says that onDestroy follows a deactivation; the DEACTIVATING branch of `onSubscriptionDestroyed` calls nothing |
| `Subscription_lockcycle` | `OnCreateBeforeOnMsg` | onMsg may precede onCreate, which is called after the bridge exists and the lock is released |
| `Subscription_free` | `NobodyInsideAfterFree` | deallocate between the unlock of `onSubscriptionDestroyed` (`subscription.c`:3200) and its callback frees what the callback uses; so does an onCreate that destroys and deallocates, over a synchronous bridge and without a throttle: activate unlocks a freed lock |
| `Subscription_nobridge` | `DestroyCompletes` | the status of the bridge's create function is dropped; destroy then waits for the callback of a bridge that does not exist |
| `Subscription_basicfail` | `ActivatingIsOnThrottle` | a basic subscription that the bridge refused stays ACTIVATING, and every function refuses it |
| `Throttle_stranded` | `QueuedMessageRuns` | the stranding of section 4 |
| `Throttle_slow` | `QueuedMessageRuns` | a rate below one message a second has quota 0 |
| `Throttle_pace` | `PaceMatchesRate` | setRate and setInterval leave a timer with the old interval |
| `Throttle_destroy` | `NoUseAfterDestroy` | destroy does not wait for the timer's callback |
| `FtMember_reactivate` | `AtMostOneActive` | deactivate keeps `myState`, so a member activated again is ACTIVE beside the one that replaced it, until a heartbeat arrives |
| `FtMember_deaf` | `HighestWeightWins` | a bridge member that was deactivated and activated again receives no heartbeats |
| `FtMember_setup` | `NoMonitoringBeforeActivate` | a bridge member that was only set up reacts to heartbeats |
| `DataQuality_forward` | `NothingWhileStale` | updates are forwarded after onGap and before the recap |
| `DataQuality_stale` | `StaleMessageAsksNothing` | an update in sequence whose status is STALE asks for a recap |
| `DataQuality_wrap` | `CacheIsApplied` | once the cache has wrapped, messages that follow the image are thrown away |
| `DataQuality_waitft` | `NoGapEver` | with waitforrecap, the first update of a new publisher may be withheld while the state goes to OK |
| `DataQuality_all` | `WaitIsAnswered` | a recap request that ran out of retries, or was refused, leaves the state waiting, and later gaps ask for nothing (`dqstrategy.c`:485) |
| `DataQuality_all` | `GapIsTold` | a gap that is found while the application's own recap request is out is not told by onQuality |
| `ImageRequest_parts` | `HandleOutlivesAll` | an image of two messages removes two references where one was counted |
| `ImageRequest_leak` | `HandleIsFreed` | a cancelled request never frees its handle |
| `ImageRequest_stolen` | `SomebodyRemembers` | stopping a request removes the queued action of another: `mPendingActions` keeps elements that were freed and reused (`imagerequest.c`:785; `throttle.h`:129 says the function removes the messages "contained in the specified list") |
| `EventQueue_all` | `StopEndsDispatcher` | mamaQueue_stopDispatch "will cause mamaDispatchers to exit" (`mama/queue.h`:360): the dispatcher's thread dispatches again |
| `EventQueue_all` with `Careful = FALSE` | `NoUseAfterFree` | a queue destroyed before its dispatcher is used by the dispatcher's thread, and by mamaDispatcher_destroy |
| `EventQueue_all` with `Careful = FALSE` | `InOrder` | destroyWait dispatches without the dispatch lock, beside the dispatcher |
| `EventQueue_all` | `SizeBounded` | the bound is compared with the semaphore: the list passes it by one |
| `EventQueue_all` | `OkIsDestroyed` | destroyTimedWait returns OK, not the `MAMA_STATUS_TIMEOUT` of its comment, when the time ran out |
| `EventQueue_all` with `CloseFits = FALSE` | `WaitEnds` | a timer destroyed while the queue is full keeps its reference for ever |
| `EventQueue_all` with `MaxSize = 2`, `Low = 2` | `LowIsAhead` | with equal watermarks, which `queue.c`:946 admits, the low one is passed without being reported |
| `OrderBook_feed` | `SameLevels` | the last entry of a level is published as an update, so the listener keeps an empty level (`MamdaOrderBook.cpp`:2581 says the delta is added) |
| `OrderBook_feed` | `SameOrder` | conflation moves an entry's delta to the end: entries of a level come in another order |
| `OrderBook_feed` with `FlushFirst = FALSE` | `SizesAddUp` | a recap published before the pending deltas has them applied twice |
| `OrderBook_feed` with `Sizes = {0, 1}` | `ShowsThePublishedBook` | entries of size 0: a recap with one other entry sends the last entry instead |
| `BookListener_all` | `AlwaysInStep` | three ways to lose a change: a flat DELETE of a level without `PL_NUM_ATTACH`, as the writer sends it, removes the level and tells nobody (`MamdaOrderBookListener.cpp`:1397-1456); a recap of one entry leaves a count of 1 and its delta, against the comment at :936; an entry added twice and then deleted in an interval is not told as deleted |
| `BookListener_all` | `NoMisread` | a stale book is cleared with deltas pending (`MamdaOrderBookListener.cpp`:1940); the timer, or forceInvokeDeltaHandlers, gives the handler freed levels |
| `BookListener_all` | `GappedBookWaits` | an inconsistent book is updated though not told, against `MamdaOrderBookListener.h`:190 |
| `ImageRequest_race` | `NoActionAfterFree` | deactivation between the check and the locks of a retry leaves an action of a freed request |

## 12. Assumptions and limits

* The locks are recursive mutexes; memory is sequentially consistent: a data race
  is modelled as the interleaving of its reads and writes.
* Allocation does not fail, but in the throttle's dispatch. Errors of timers and
  sockets are left out, those of the bridge's create function are in `Subscription`.
* One queue dispatcher per queue, as `mama/subscription.h` requires for destroy.
* Only model-checked: liveness, which TLAPS does not prove, and `OrderBook`, with
  `SizesAddUp` and the refinement of `BookFeed`. There a message is a sorted list of
  runs of conflated deltas, each applied entry by entry: folds within folds, with
  `SetToSortSeq`, of which nothing can be proved here without rewriting the writer and
  the listener as loops that the provers can follow. Every other property that the
  runs check is a theorem too, under the assumptions that sections 3 to 10 name.
* Deadlock checking is off in every run but `booklistener`: a subscription may be
  deallocated, a queue destroyed, a bound reached, a group left alone, and nothing
  is left to do. Whether a thread
  waits for ever is asked by the liveness properties.
* Not modelled: payloads, dictionaries, dates and prices, statistics, playback, the
  wrappers in C++, Java and .NET, MAMDA's other listeners, examples and tools. The reasons are in
  `PROJECT.json` under "components".
