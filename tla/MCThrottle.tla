----------------------------- MODULE MCThrottle -----------------------------
(* Instances of Throttle for TLC: one or two application threads and up to  *)
(* three actions.                                                          *)
EXTENDS Throttle

CONSTANTS a1, a2, m1, m2, m3

(* At is SelectSeq. *)
ASSUME AtSelects ==
    \A n \in 0 .. 5 : \A K \in SUBSET (1 .. n) :
        LET s == [i \in 1 .. n |-> i] IN At(s, K) = SelectSeq(s, LAMBDA i : i \in K)

MCTwoApps == {a1, a2}
MCOneApp == {a1}
MCThreeMsgs == {m1, m2, m3}
MCTwoMsgs == {m1, m2}
MCOneMsg == {m1}

MCNone == {}

Symmetry == Permutations(MCTwoApps)

(* 30, 5 and 0 messages per second: quotas of at least three. *)
MCAmple == {0, 50, 300}

(* 30, 10 and 0 messages per second: quotas of one, three and more. *)
MCTight == {0, 100, 300}

(* 10 and 0 messages per second. *)
MCOnOff == {0, 100}

(* 10 messages per second: one per interval. *)
MCOnePerTick == {100}

(* Half a message per second. *)
MCSlow == {5}
=============================================================================
