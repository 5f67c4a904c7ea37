--------------------------- MODULE MCSubscription ---------------------------
(* Model values and configurations of module Subscription. *)
EXTENDS Subscription, TLC

CONSTANTS a1, a2

MCApp == {a1, a2}
MCOneApp == {a1}

(* Every kind of subscription, with and without a throttle, over either     *)
(* kind of bridge, which may refuse it.                                     *)
MCAllConfigs ==
    [kind : {"market", "snapshot", "basic"},
     throttled : BOOLEAN, sync : BOOLEAN, mayFail : BOOLEAN]

(* The bridges that accept every subscription. *)
MCWorkingBridges == {c \in MCAllConfigs : ~c.mayFail}

(* A throttled market data subscription over an asynchronous bridge, which  *)
(* accepts it; which may refuse it.                                        *)
MCMarketAsync ==
    {[kind |-> "market", throttled |-> TRUE, sync |-> FALSE, mayFail |-> FALSE]}
MCMarketRefused ==
    {[kind |-> "market", throttled |-> TRUE, sync |-> FALSE, mayFail |-> TRUE]}
MCBasicRefused ==
    {[kind |-> "basic", throttled |-> TRUE, sync |-> FALSE, mayFail |-> TRUE]}

(* Application threads are interchangeable. *)
Symmetry == Permutations(App)
=============================================================================
