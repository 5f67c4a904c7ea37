------------------------------ MODULE BookFeed ------------------------------
(***************************************************************************)
(* What an order book feed promises: the book a listener shows is one that  *)
(* the publisher had when it published, namely at the sequence number the   *)
(* listener is at, unless the listener has noticed a gap.  How changes are  *)
(* conflated, put into messages and applied is nobody's business here;      *)
(* OrderBook is shown to implement this.                                    *)
(***************************************************************************)
EXTENDS Integers, Sequences, SequencesExt

VARIABLES
    book,     \* what the publisher's book looks like
    published,\* the last sequence number
    wire,     \* messages under way: recap or not, sequence number, the book then
    copy,     \* what the listener's book looks like
    at,       \* the sequence number it is at
    started,  \* it has seen a recap
    valid     \* it has noticed no gap since the last recap

vars == <<book, published, wire, copy, at, started, valid>>

Empty == {}

Init ==
    /\ book = Empty /\ copy = Empty
    /\ published = 1 /\ at = 0
    /\ wire = <<>>
    /\ started = FALSE /\ valid = TRUE

Change == UNCHANGED <<published, wire, copy, at, started, valid>>

Send(recap, seq) ==
    /\ published' = seq
    /\ wire' = Append(wire, [recap |-> recap, seq |-> seq, view |-> book'])
    /\ UNCHANGED <<copy, at, started, valid>>

Publish == Send(FALSE, published + 1) /\ book' = book
Recap == Send(TRUE, published) /\ book' = book
Clear == Send(TRUE, published + 1)

Fault ==
    /\ \E i \in DOMAIN wire :
          wire' = RemoveAt(wire, i) \/ wire' = InsertAt(wire, i, wire[i])
    /\ UNCHANGED <<book, published, copy, at, started, valid>>

TakeRecap(m) ==
    /\ m.recap
    /\ copy' = m.view /\ at' = m.seq
    /\ started' = TRUE /\ valid' = TRUE

(* An update that is early, or one that is at hand already, changes nothing. *)
Skip(m) ==
    /\ ~m.recap
    /\ ~started \/ m.seq = at
    /\ UNCHANGED <<copy, at, started, valid>>

TakeNext(m) ==
    /\ ~m.recap /\ started /\ m.seq = at + 1
    /\ valid => copy' = m.view
    /\ at' = m.seq
    /\ UNCHANGED <<started, valid>>

NoticeGap(m) ==
    /\ ~m.recap /\ started /\ m.seq \notin {at, at + 1}
    /\ valid' = FALSE
    /\ at' = m.seq
    /\ UNCHANGED started

Deliver ==
    /\ wire # <<>>
    /\ LET m == Head(wire) IN TakeRecap(m) \/ Skip(m) \/ TakeNext(m) \/ NoticeGap(m)
    /\ wire' = Tail(wire)
    /\ UNCHANGED <<book, published>>

Next == Change \/ Publish \/ Recap \/ Clear \/ Fault \/ Deliver

Spec == Init /\ [][Next]_vars
=============================================================================
