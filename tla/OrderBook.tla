------------------------------ MODULE OrderBook ------------------------------
(***************************************************************************)
(* An order book from publisher to listener (mamda/c_cpp/src/cpp/orderbooks *)
(* and mama/c_cpp/src/c/dqpublisher.c): the publisher's book is a           *)
(* MamdaOrderBook that gathers deltas, conflates them in a                  *)
(* MamdaOrderBookBasicDeltaList and has a MamdaOrderBookWriter put them in   *)
(* a message; the message goes out through a mamaDQPublisher, which numbers *)
(* it, and a MamdaOrderBookListener applies it to a book of its own.         *)
(*                                                                         *)
(* One side of the book is modelled (deltas of the two sides never meet),   *)
(* with entries (the default), without an entry manager, market orders or   *)
(* source visibility.  Times and properties of levels are left out.         *)
(***************************************************************************)
EXTENDS BookDelta, FiniteSets

CONSTANTS
    Sizes,
    FlushFirst,   \* pending deltas are published before a recap is
    MaxOps,       \* bound: changes of the publisher's book
    MaxRecaps,    \* bound: recaps
    MaxFaults     \* bound: messages lost or duplicated

ASSUME OrderBookAssumption ==
    /\ Sizes \subseteq Nat
    /\ FlushFirst \in BOOLEAN
    /\ {MaxOps, MaxRecaps, MaxFaults} \subseteq Nat

VARIABLES
    levels,   \* the publisher's levels: price, size and entries, oldest first
    pending,  \* mCurrentDeltaCount (up to 2), mPublishSimpleDelta and -ComplexDelta
    seq,      \* mSeqNum of the DQ publisher
    wire,     \* messages under way
    shown,    \* the listener's levels, in mFullBook
    at,       \* mEventSeqNum of the listener
    started,  \* mGotInitial
    valid,    \* mIsConsistent of mFullBook
    ops, recaps, faults

prodVars == <<levels, pending, seq>>
listVars == <<shown, at, started, valid>>
vars == <<levels, pending, seq, wire, shown, at, started, valid, ops, recaps, faults>>

NoLevels == [p \in {} |-> 0]

Init ==
    /\ levels = NoLevels /\ shown = NoLevels
    /\ pending = NoPending
    /\ seq = 1 /\ at = 0
    /\ wire = <<>>
    /\ started = FALSE /\ valid = TRUE
    /\ ops = 0 /\ recaps = 0 /\ faults = 0

-----------------------------------------------------------------------------
(* Levels. *)

EntriesOf(level) == {e.id : e \in ToSet(level.entries)}
IndexOf(level, id) == CHOOSE i \in DOMAIN level.entries : level.entries[i].id = id
SizeOf(level, id) == level.entries[IndexOf(level, id)].size

(* What a reader of the book sees: the iterators skip the levels of size 0,  *)
(* and a recap leaves out the entries of size 0.                            *)
Visible(book) ==
    {[price |-> p, size |-> book[p].size, num |-> book[p].num,
      entries |-> {e \in ToSet(book[p].entries) : e.size # 0}] :
        p \in {q \in DOMAIN book : book[q].size # 0}}

EmptyLevel == [size |-> 0, num |-> 0, entries |-> <<>>]

Put(book, p, level) ==
    [q \in DOMAIN book \cup {p} |-> IF q = p THEN level ELSE book[q]]
Without(book, p) == [q \in DOMAIN book \ {p} |-> book[q]]

(* MamdaOrderBookPriceLevel::addEntry and eraseEntryByIterator. *)
AddTo(level, id, s) ==
    [size |-> level.size + s, num |-> level.num + 1,
     entries |-> Append(level.entries, [id |-> id, size |-> s])]

RemoveFrom(level, id) ==
    [size |-> level.size - SizeOf(level, id), num |-> level.num - 1,
     entries |-> RemoveAt(level.entries, IndexOf(level, id))]

(* Mutant: the level keeps the size it had. *)
SetEntryOnly(level, id, s) ==
    [level EXCEPT !.entries[IndexOf(level, id)].size = s]

(* The size of one entry, and with it the level's. *)
SetEntry(level, id, s) ==
    [level EXCEPT !.size = @ + s - SizeOf(level, id),
                  !.entries[IndexOf(level, id)].size = s]

-----------------------------------------------------------------------------
(* The publisher changes its book. *)

CanChange == ops < MaxOps /\ ops' = ops + 1

(* MamdaOrderBookImpl::addDelta. *)
Noted(pend, d) == AddDelta(TRUE, pend, d)

(* addEntry and findOrCreateLevel: a new level has a delta of its own.       *)
AddEntry(p, id, s) ==
    LET new == p \notin DOMAIN levels
        level == AddTo(IF new THEN EmptyLevel ELSE levels[p], id, s)
        made == IF new THEN Noted(pending, Delta(p, NoEntry, "ADD", "UNKNOWN"))
                ELSE pending
    IN  /\ CanChange
        /\ ~new => id \notin EntriesOf(levels[p])
        /\ levels' = Put(levels, p, level)
        /\ pending' = Noted(made, Delta(p, id,
                          IF Len(level.entries) > 1 THEN "UPDATE" ELSE "ADD", "ADD"))
        /\ UNCHANGED <<seq, wire, listVars, recaps, faults>>

UpdateEntry(p, id, s) ==
    /\ CanChange
    /\ levels' = [levels EXCEPT ![p] = SetEntry(@, id, s)]
    /\ pending' = Noted(pending, Delta(p, id, "UPDATE", "UPDATE"))
    /\ UNCHANGED <<seq, wire, listVars, recaps, faults>>

(* deleteEntry and detach: the delta says UPDATE, since the level still      *)
(* counts the entry; a level that is left empty is detached without a delta. *)
(* wanted: the caller asked for the delta, and then the same change is told   *)
(* once more, as the end of the level if nothing of its size is left.        *)
DeleteEntry(p, id, wanted) ==
    LET level == RemoveFrom(levels[p], id)
        told == Noted(pending, Delta(p, id, "UPDATE", "DELETE"))
        again == Noted(told, Delta(p, id,
                    IF level.size = 0 THEN "DELETE" ELSE "UPDATE", "DELETE"))
        empty == level.entries = <<>>
        after == EntryDetached(IF wanted /\ ~empty THEN again ELSE told, p, id)
    IN  /\ CanChange
        /\ levels' = IF empty THEN Without(levels, p) ELSE Put(levels, p, level)
        /\ pending' = IF empty THEN LevelDetached(after, p) ELSE after
        /\ UNCHANGED <<seq, wire, listVars, recaps, faults>>

(* deleteLevel. *)
DeleteLevel(p) ==
    /\ CanChange
    /\ levels' = Without(levels, p)
    /\ pending' =
         LevelDetached(Noted(pending, Delta(p, NoEntry, "DELETE", "UNKNOWN")), p)
    /\ UNCHANGED <<seq, wire, listVars, recaps, faults>>

-----------------------------------------------------------------------------
(* The writer. *)

LevelAt(d) == IF d.gen = 0 THEN levels[d.price] ELSE EmptyLevel

(* addBookEntry: an entry that is dead was removed. *)
EntryMsg(d) ==
    [id |-> d.id, act |-> d.act,
     size |-> IF d.dead THEN 0 ELSE SizeOf(LevelAt(d), d.id)]

(* addBookLevel, with the entries of a run of deltas. *)
LevelMsg(d, entries) ==
    [price |-> d.price, pl |-> d.pl, size |-> LevelAt(d).size, num |-> LevelAt(d).num,
     entries |-> entries]

EntryMsgs(run) ==
    LET told == SelectSeq(run, LAMBDA d : d.id # NoEntry)
    IN  [i \in DOMAIN told |-> EntryMsg(told[i])]

(* addSimpleDeltaFields. *)
SimpleMsg(d) ==
    <<LevelMsg(d, IF d.id = NoEntry THEN <<>> ELSE <<EntryMsg(d)>>)>>

(* The runs of deltas that point to one level, prices in ascending order.    *)
Runs(list) ==
    LET all == FoldLeft(LAMBDA s, p : s \o list[p], <<>>, SetToSortSeq(Prices, <))
        firsts == {i \in DOMAIN all : i = 1 \/ all[i - 1].price # all[i].price
                                            \/ all[i - 1].gen # all[i].gen}
        End(i) == Min({j \in firsts : j > i} \cup {Len(all) + 1}) - 1
    IN  [k \in 1 .. Cardinality(firsts) |->
           LET i == SetToSortSeq(firsts, <)[k] IN SubSeq(all, i, End(i))]

(* addComplexDeltaFields.  A level's action is its first delta's, but a       *)
(* single level is written without the vector, with its last delta's action. *)
ComplexMsg(list) ==
    LET runs == Runs(list) IN
      IF Len(runs) = 1 THEN <<LevelMsg(Last(runs[1]), EntryMsgs(runs[1]))>>
      ELSE [k \in DOMAIN runs |-> LevelMsg(Head(runs[k]), EntryMsgs(runs[k]))]

(* addBookLevels and addBookLevelEntries: entries of size 0 are left out; if  *)
(* one is left, the last of all the entries is sent.                        *)
RecapMsg ==
    LET ps == SetToSortSeq({p \in DOMAIN levels : levels[p].size # 0}, <)
        Entries(p) ==
          LET es == levels[p].entries
              some == SelectSeq(es, LAMBDA e : e.size # 0)
          IN  IF Len(some) = 1 THEN <<Last(es)>> ELSE some
    IN  [k \in DOMAIN ps |->
           LET es == Entries(ps[k]) IN
             [price |-> ps[k], pl |-> "ADD", size |-> levels[ps[k]].size,
              num |-> levels[ps[k]].num,
              entries |-> [i \in DOMAIN es |->
                             [id |-> es[i].id, act |-> "ADD", size |-> es[i].size]]]]

-----------------------------------------------------------------------------
(* mamaDQPublisher_send: everything but an initial or a recap takes the next *)
(* sequence number.  view is not sent: it is the publisher's book then.      *)

Send(type, content, book) ==
    LET s == IF type = "BOOK_INITIAL" THEN seq ELSE seq + 1 IN
      /\ seq' = s
      /\ wire' = Append(wire, [type |-> type, seq |-> s, levels |-> content,
                               view |-> Visible(book)])

(* populateDelta. *)
PublishDelta ==
    /\ pending.count # 0
    /\ Send("BOOK_UPDATE", IF pending.count = 1 THEN SimpleMsg(pending.simple)
                           ELSE ComplexMsg(pending.list), levels)
    /\ pending' = NoPending
    /\ UNCHANGED <<levels, listVars, ops, recaps, faults>>

(* populateRecap, in answer to a request. *)
PublishRecap ==
    /\ FlushFirst => (pending.count = 0)
    /\ recaps < MaxRecaps /\ recaps' = recaps + 1
    /\ Send("BOOK_INITIAL", RecapMsg, levels)
    /\ UNCHANGED <<levels, pending, listVars, ops, faults>>

(* clear, and the message that tells. *)
PublishClear ==
    /\ CanChange
    /\ levels' = NoLevels /\ pending' = NoPending
    /\ Send("BOOK_CLEAR", <<>>, NoLevels)
    /\ UNCHANGED <<listVars, recaps, faults>>

Fault ==
    /\ faults < MaxFaults /\ faults' = faults + 1
    /\ \E i \in DOMAIN wire :
          \/ wire' = RemoveAt(wire, i)
          \/ wire' = InsertAt(wire, i, wire[i])
    /\ UNCHANGED <<prodVars, listVars, ops, recaps>>

-----------------------------------------------------------------------------
(* The listener. *)

(* processEntry: an entry is found by its identifier or made; the end of one *)
(* that is not known is ignored.                                            *)
ProcessEntry(level, e) ==
    CASE e.act = "DELETE" ->
           IF e.id \in EntriesOf(level) THEN RemoveFrom(level, e.id) ELSE level
      [] e.act # "DELETE" ->
           IF e.id \in EntriesOf(level)
           THEN [level EXCEPT !.entries[IndexOf(level, e.id)].size = e.size]
           ELSE AddTo(level, e.id, e.size)

(* processLevelPart1, processEntries and processLevelPart2: the level's size  *)
(* and number of entries are the message's.                                 *)
ProcessLevel(book, m) ==
    IF m.pl = "DELETE" THEN Without(book, m.price)
    ELSE LET old == IF m.price \in DOMAIN book THEN book[m.price] ELSE EmptyLevel
             new == FoldLeft(ProcessEntry, old, m.entries)
         IN  Put(book, m.price, [new EXCEPT !.size = m.size, !.num = m.num])

(* createDelta. *)
Applied(book, m) == FoldLeft(ProcessLevel, book, m.levels)

(* handleRecap and handleClear. *)
HandleRecap(m) ==
    /\ m.type \in {"BOOK_INITIAL", "BOOK_CLEAR"}
    /\ shown' = Applied(NoLevels, m)
    /\ at' = m.seq /\ started' = TRUE /\ valid' = TRUE

(* Mutant: a gap is taken for an answer from elsewhere. *)
HandleUpdateNoGap(m) ==
    /\ m.type = "BOOK_UPDATE"
    /\ IF ~started \/ m.seq = at THEN UNCHANGED listVars
       ELSE /\ shown' = Applied(shown, m)
            /\ at' = m.seq
            /\ UNCHANGED <<started, valid>>

(* handleUpdate and processBookMessage: an update is dropped before the first *)
(* recap, or when it is the last one again.  One that does not follow marks   *)
(* the book, and is applied all the same.                                    *)
HandleUpdate(m) ==
    /\ m.type = "BOOK_UPDATE"
    /\ IF ~started \/ m.seq = at THEN UNCHANGED listVars
       ELSE /\ shown' = Applied(shown, m)
            /\ at' = m.seq
            /\ valid' = (valid /\ m.seq = at + 1)
            /\ UNCHANGED started

Receive ==
    /\ wire # <<>>
    /\ HandleRecap(Head(wire)) \/ HandleUpdate(Head(wire))
    /\ wire' = Tail(wire)
    /\ UNCHANGED <<prodVars, ops, recaps, faults>>

-----------------------------------------------------------------------------
Change ==
    \E p \in Prices :
        \/ \E id \in Ids, s \in Sizes : AddEntry(p, id, s)
        \/ /\ p \in DOMAIN levels
           /\ \/ \E id \in EntriesOf(levels[p]) :
                    \/ \E s \in Sizes : UpdateEntry(p, id, s)
                    \/ \E wanted \in BOOLEAN : DeleteEntry(p, id, wanted)
              \/ DeleteLevel(p)

Next == Change \/ PublishDelta \/ PublishRecap \/ PublishClear \/ Fault \/ Receive

Spec == Init /\ [][Next]_vars

-----------------------------------------------------------------------------
LevelType == [size : Nat, num : Nat, entries : Seq([id : Ids, size : Sizes])]

(* Books hold levels, one delta waits alone and more of them on the list, and  *)
(* the listener is never ahead of the publisher.                             *)
TypeOK ==
    /\ DOMAIN levels \cup DOMAIN shown \subseteq Prices
    /\ \A p \in DOMAIN levels : levels[p] \in LevelType
    /\ \A p \in DOMAIN shown : shown[p].entries \in Seq([id : Ids, size : Sizes])
    /\ pending.count \in 0 .. 2
    /\ pending.count # 1 <=> pending.simple = NoDelta
    /\ started \in BOOLEAN /\ valid \in BOOLEAN
    /\ at \in 0 .. seq

(* The size of a level and its number of entries are those of its entries,   *)
(* in the publisher's book and, unless it has noticed a gap, in the           *)
(* listener's: no entry is left behind in a level of size 0.                 *)
AddsUp(level) ==
    /\ level.size = FoldLeft(LAMBDA n, e : n + e.size, 0, level.entries)
    /\ level.num = Len(level.entries)

SizesAddUp ==
    /\ \A p \in DOMAIN levels : AddsUp(levels[p])
    /\ started /\ valid => \A p \in DOMAIN shown : AddsUp(shown[p])

Settled == started /\ valid /\ wire = <<>> /\ pending.count = 0 /\ at = seq

(* What the comment in deleteEntry says: a level that is left empty is       *)
(* published as gone, so that the listener has the publisher's levels.       *)
SameLevels == Settled => DOMAIN shown = DOMAIN levels

(* The entries of a level are in the publisher's order. *)
SameOrder ==
    Settled => \A p \in DOMAIN levels \cap DOMAIN shown : shown[p].entries = levels[p].entries

(* OrderBook implements BookFeed: deltas, conflation, messages and their      *)
(* application add up to the listener showing the book that was published.   *)
Feed == INSTANCE BookFeed WITH
          book <- Visible(levels),
          published <- seq,
          wire <- [i \in DOMAIN wire |-> [recap |-> wire[i].type # "BOOK_UPDATE",
                                         seq |-> wire[i].seq, view |-> wire[i].view]],
          copy <- Visible(shown)

(* The listener shows what was published at the number it is at, or says not. *)
ShowsThePublishedBook == Feed!Spec
=============================================================================
