------------------------------ MODULE BookDelta ------------------------------
(***************************************************************************)
(* The deltas of an order book and how they are gathered                    *)
(* (MamdaOrderBookBasicDelta, MamdaOrderBookBasicDeltaList and the addDelta *)
(* of a MamdaOrderBook and of a MamdaOrderBookListener, which are the same). *)
(*                                                                         *)
(* A delta points to its level and entry, whose present state is read when  *)
(* it is used.  gen 0 is the level now in the book at that price, gen k the  *)
(* k-th last one detached from it, which is empty.  An entry that was       *)
(* detached is dead: no later delta can be about the same object.           *)
(***************************************************************************)
EXTENDS Integers, Sequences, SequencesExt, FiniteSetsExt

CONSTANTS Prices, Ids, NoEntry, NoDelta

DeltaType ==
    [price : Prices, gen : Nat, id : Ids \cup {NoEntry}, dead : BOOLEAN,
     pl : {"ADD", "UPDATE", "DELETE"}, act : {"ADD", "UPDATE", "DELETE", "UNKNOWN"}]

ASSUME BookDeltaAssumption ==
    Prices \subseteq Int /\ NoEntry \notin Ids /\ NoDelta \notin DeltaType

(* count is mCurrentDeltaCount (up to 2), simple the first delta, list the    *)
(* later ones by price, now mSendImmediately.                               *)
NoPending ==
    [count |-> 0, simple |-> NoDelta, list |-> [p \in Prices |-> <<>>], now |-> FALSE]

Delta(p, id, pl, act) ==
    [price |-> p, gen |-> 0, id |-> id, dead |-> FALSE, pl |-> pl, act |-> act]

SameEntry(d, e) == d.id = e.id /\ ~d.dead /\ ~e.dead

(* Mutant: a removed entry is forgotten, whoever knows of it. *)
ApplyEntryDeltaForgets(list, d) ==
    LET same == {i \in DOMAIN list : SameEntry(list[i], d)} IN
      IF same = {} \/ d.act = "UNKNOWN" THEN Append(list, d)
      ELSE LET i == Min(same) IN
             IF d.act = "DELETE" THEN RemoveAt(list, i) ELSE Append(RemoveAt(list, i), d)

(* MamdaOrderBookBasicDeltaListImpl::applyEntryDelta: a delta replaces the   *)
(* one about the same entry; an entry that came and went is not mentioned.  *)
ApplyEntryDelta(list, d) ==
    LET same == {i \in DOMAIN list : SameEntry(list[i], d)} IN
      IF same = {} \/ d.act = "UNKNOWN" THEN Append(list, d)
      ELSE LET i == Min(same) IN
             IF d.act = "DELETE" /\ list[i].act = "ADD" THEN RemoveAt(list, i)
             ELSE Append(RemoveAt(list, i), d)

(* The end of a level that was there before the interval. *)
EndsOldLevel(list, d) == list # <<>> /\ d.pl = "DELETE" /\ Head(list).pl # "ADD"

(* conflateEntryDeltas, for the deltas at one price. *)
ConflateEntryDeltas(list, d) ==
    CASE list = <<>> -> <<d>>
      [] list # <<>> /\ d.pl = "DELETE" ->
           IF EndsOldLevel(list, d) THEN <<[d EXCEPT !.id = NoEntry]>> ELSE <<>>
      [] list # <<>> /\ d.pl = "ADD" -> Append(list, d)
      [] list # <<>> /\ d.pl = "UPDATE" -> ApplyEntryDelta(list, d)

(* Deltas at one price are conflated or only gathered. *)
Join(conflating, list, d) ==
    IF conflating THEN ConflateEntryDeltas(list, d) ELSE Append(list, d)

(* addDelta: the second delta clears the list and moves the first into it. *)
AddDelta(conflating, pend, d) ==
    LET Joined(list, e) == [list EXCEPT ![e.price] = Join(conflating, @, e)]
        first == Joined(NoPending.list, pend.simple)
    IN  CASE pend.count = 0 -> [pend EXCEPT !.count = 1, !.simple = d]
          [] pend.count = 1 ->
               [count |-> 2, simple |-> NoDelta, list |-> Joined(first, d),
                now |-> EndsOldLevel(first[d.price], d)]
          [] pend.count = 2 ->
               [pend EXCEPT !.list = Joined(@, d),
                            !.now = @ \/ EndsOldLevel(pend.list[d.price], d)]

(* One delta after the other. *)
AddDeltas(conflating, pend, ds) ==
    LET after[k \in 0 .. Len(ds)] ==
          IF k = 0 THEN pend ELSE AddDelta(conflating, after[k - 1], ds[k])
    IN  after[Len(ds)]

(* The deltas at price p that are pending. *)
Deltas(pend, p) ==
    IF pend.count # 1 THEN pend.list[p]
    ELSE IF pend.simple.price = p THEN <<pend.simple>> ELSE <<>>

(* An entry, or the level at a price, leaves the book: the deltas that point *)
(* to it point to a detached object from now on.                            *)
PastEntry(d, p, id) ==
    IF d # NoDelta /\ d.price = p /\ d.id = id THEN [d EXCEPT !.dead = TRUE] ELSE d

PastLevel(d, p) ==
    IF d # NoDelta /\ d.price = p
    THEN [d EXCEPT !.gen = @ + 1, !.dead = d.id # NoEntry] ELSE d

EntryDetached(pend, p, id) ==
    [pend EXCEPT !.simple = PastEntry(@, p, id),
                 !.list[p] = [i \in DOMAIN @ |-> PastEntry(@[i], p, id)]]

LevelDetached(pend, p) ==
    [pend EXCEPT !.simple = PastLevel(@, p),
                 !.list[p] = [i \in DOMAIN @ |-> PastLevel(@[i], p)]]
=============================================================================
