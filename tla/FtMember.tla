------------------------------ MODULE FtMember ------------------------------
(***************************************************************************)
(* Fault tolerant groups (mama/c_cpp/src/c/ft.c): members elect one ACTIVE  *)
(* member by exchanging heartbeats that carry their credentials.           *)
(*                                                                         *)
(* A member is a process.  Its timers and its heartbeat reader run on one    *)
(* event queue, so every callback is one step.  There are two kinds of       *)
(* group: multicast members read a socket, which the timeout handler polls   *)
(* before it takes over; bridge members subscribe to the heartbeats in      *)
(* mamaFtMember_setup, and nothing can be polled.                           *)
(*                                                                         *)
(* Time passes in ticks.  A timer that is due fires before the next tick,    *)
(* and a heartbeat is delivered, in any order, or lost within its tick.  The  *)
(* socket of a multicast member that nobody reads keeps what it was sent.    *)
(***************************************************************************)
EXTENDS Integers, FiniteSets, FiniteSetsExt

CONSTANTS
    Members,
    IP, Pid,          \* address and process id of each member
    InitialWeight,    \* the weight each member is set up with
    Weights,          \* what setWeight is called with
    BridgeFt,         \* MAMA_FT_TYPE_BRIDGE, else MAMA_FT_TYPE_MULTICAST
    Heartbeat,        \* myHeartbeatInterval in ticks
    Timeout,          \* myTimeoutInterval in ticks
    MaxChanges,       \* bound: calls, crashes and restarts
    MaxLosses         \* bound: lost heartbeats

ASSUME FtAssumption ==
    /\ IP \in [Members -> Nat \ {0}] /\ Pid \in [Members -> Nat]
    /\ \A m, n \in Members : m # n => <<IP[m], Pid[m]>> # <<IP[n], Pid[n]>>
    /\ InitialWeight \in [Members -> Nat] /\ Weights \subseteq Nat
    /\ BridgeFt \in BOOLEAN
    /\ Heartbeat \in Nat \ {0} /\ Timeout \in Nat \ {0}
    /\ MaxChanges \in Nat /\ MaxLosses \in Nat

NoTimer == -1

VARIABLES
    up,          \* the process of a member exists
    running,     \* myIsActive
    state,       \* myState
    weight,      \* myWeight
    inc,         \* myIncarnation
    next,        \* myNextIncarnation
    ip,          \* myIP, which is 0 until activate
    hears,       \* heartbeats reach the member: the reader or subscription exists
    hbTimer,     \* ticks until myHeartbeatTimer fires, or NoTimer
    toTimer,     \* ticks until myTimeoutTimer fires, or NoTimer
    net,         \* heartbeats in flight
    changes, losses

vars == <<up, running, state, weight, inc, next, ip, hears, hbTimer, toTimer,
          net, changes, losses>>

States == {"UNKNOWN", "STANDBY", "ACTIVE"}

(* The state of every member after mamaFtMember_setup. *)
Init ==
    /\ up = [m \in Members |-> TRUE]
    /\ running = [m \in Members |-> FALSE]
    /\ state = [m \in Members |-> "UNKNOWN"]
    /\ weight = InitialWeight
    /\ inc = [m \in Members |-> 0]
    /\ next = [m \in Members |-> 0]
    /\ ip = [m \in Members |-> 0]
    /\ hears = [m \in Members |-> BridgeFt]
    /\ hbTimer = [m \in Members |-> NoTimer]
    /\ toTimer = [m \in Members |-> NoTimer]
    /\ net = {}
    /\ changes = 0
    /\ losses = 0

-----------------------------------------------------------------------------
(* Credentials. *)

Credentials(m) == [weight |-> weight[m], inc |-> inc[m], ip |-> ip[m], pid |-> Pid[m]]

(* Mutant: the incarnation is not compared. *)
BetterIgnoringIncarnation(c, d) ==
    \/ c.weight > d.weight
    \/ c.weight = d.weight /\ c.ip > d.ip
    \/ c.weight = d.weight /\ c.ip = d.ip /\ c.pid > d.pid

(* mamaBetterCredentials: credentials c of a heartbeat beat d. *)
Better(c, d) ==
    \/ c.weight > d.weight
    \/ c.weight = d.weight /\ c.inc > d.inc
    \/ c.weight = d.weight /\ c.inc = d.inc /\ c.ip > d.ip
    \/ c.weight = d.weight /\ c.inc = d.inc /\ c.ip = d.ip /\ c.pid > d.pid

(* The heartbeats m sends, one to each other member: a member ignores its   *)
(* own.                                                                    *)
HeartbeatsOf(m) == {[to |-> n, cred |-> Credentials(m)] : n \in Members \ {m}}

Pending(m) == {h \in net : h.to = m}

(* The socket of a multicast member is bound in mamaFtMember_setup: it keeps *)
(* the heartbeats that arrive while nobody reads it.                       *)
Buffered == {h \in net : ~BridgeFt /\ up[h.to] /\ ~hears[h.to]}

-----------------------------------------------------------------------------
(* Mutant: a member on STANDBY does not restart its timeout. *)
CheckHeartbeatsNoReset(m, H) ==
    LET better == {h.cred : h \in {g \in H : Better(g.cred, Credentials(m))}}
    IN  IF better = {}
        THEN UNCHANGED <<state, next, toTimer>>
        ELSE /\ next' = [next EXCEPT ![m] = Max({@} \cup {c.inc + 1 : c \in better})]
             /\ state' = [state EXCEPT ![m] = "STANDBY"]
             /\ toTimer' = [toTimer EXCEPT ![m] = IF state[m] = "STANDBY" THEN @ ELSE Timeout]

(* mamaCheckHeartbeat for a set H of heartbeats received in a row: a member *)
(* that is beaten goes to STANDBY, notes the incarnation it would take over *)
(* with and restarts its timeout.                                          *)
CheckHeartbeats(m, H) ==
    LET better == {h.cred : h \in {g \in H : Better(g.cred, Credentials(m))}}
    IN  IF better = {}
        THEN UNCHANGED <<state, next, toTimer>>
        ELSE /\ next' = [next EXCEPT ![m] = Max({@} \cup {c.inc + 1 : c \in better})]
             /\ state' = [state EXCEPT ![m] = "STANDBY"]
             /\ toTimer' = [toTimer EXCEPT ![m] =
                               IF @ = NoTimer /\ state[m] = "STANDBY" THEN @ ELSE Timeout]

(* invokeStateChange to ACTIVE, after the heartbeats in read were ignored:   *)
(* a new incarnation, a heartbeat at once.                                 *)
BecomeActive(m, read) ==
    /\ state' = [state EXCEPT ![m] = "ACTIVE"]
    /\ inc' = [inc EXCEPT ![m] = next[m]]
    /\ hbTimer' = [hbTimer EXCEPT ![m] = IF @ = NoTimer THEN @ ELSE Heartbeat]
    /\ toTimer' = [toTimer EXCEPT ![m] = NoTimer]
    /\ net' = (net \ read) \cup
              {[to |-> n, cred |-> [Credentials(m) EXCEPT !.inc = next[m]]]
                  : n \in Members \ {m}}

-----------------------------------------------------------------------------
(* Callbacks. *)

(* Mutant: a heartbeat of lower rank restarts the timeout too. *)
ReceiveAnyResets(m, h) ==
    /\ h \in Pending(m) \ Buffered
    /\ net' = net \ {h}
    /\ IF up[m] /\ hears[m] /\ ~Better(h.cred, Credentials(m)) /\ toTimer[m] # NoTimer
       THEN toTimer' = [toTimer EXCEPT ![m] = Timeout] /\ UNCHANGED <<state, next>>
       ELSE IF up[m] /\ hears[m] THEN CheckHeartbeats(m, {h}) ELSE UNCHANGED <<state, next, toTimer>>
    /\ UNCHANGED <<up, running, weight, inc, ip, hears, hbTimer, changes, losses>>

(* multicastFt_receiveHeartbeat, ftSubMsgCb. *)
Receive(m, h) ==
    /\ h \in Pending(m) \ Buffered
    /\ net' = net \ {h}
    /\ IF up[m] /\ hears[m] THEN CheckHeartbeats(m, {h}) ELSE UNCHANGED <<state, next, toTimer>>
    /\ UNCHANGED <<up, running, weight, inc, ip, hears, hbTimer, changes, losses>>

(* The network drops a heartbeat. *)
Lose(h) ==
    /\ h \in net
    /\ losses < MaxLosses
    /\ losses' = losses + 1
    /\ net' = net \ {h}
    /\ UNCHANGED <<up, running, state, weight, inc, next, ip, hears, hbTimer, toTimer,
                   changes>>

(* ftHeartbeatTimerCb. *)
HeartbeatTimer(m) ==
    /\ hbTimer[m] = 0
    /\ hbTimer' = [hbTimer EXCEPT ![m] = Heartbeat]
    /\ net' = net \cup HeartbeatsOf(m)
    /\ UNCHANGED <<up, running, state, weight, inc, next, ip, hears, toTimer,
                   changes, losses>>

(* ftTimeoutTimerCb.  A multicast member first reads what its socket holds; *)
(* a member that is still ACTIVE from an earlier activation stays so.       *)
TimeoutTimer(m) ==
    /\ toTimer[m] = 0
    /\ LET read == IF BridgeFt THEN {} ELSE Pending(m)
           beaten == \E h \in read : Better(h.cred, Credentials(m))
       IN  \/ /\ beaten
              /\ CheckHeartbeats(m, read)
              /\ net' = net \ read
              /\ UNCHANGED <<inc, hbTimer>>
           \/ /\ ~beaten /\ state[m] # "ACTIVE"
              /\ BecomeActive(m, read)
              /\ UNCHANGED next
           \/ /\ ~beaten /\ state[m] = "ACTIVE"
              /\ toTimer' = [toTimer EXCEPT ![m] = Timeout]
              /\ net' = net \ read
              /\ UNCHANGED <<state, inc, next, hbTimer>>
    /\ UNCHANGED <<up, running, weight, ip, hears, changes, losses>>

(* Time passes when nothing is due and no heartbeat is in flight. *)
Tick ==
    /\ net \subseteq Buffered
    /\ \A m \in Members : hbTimer[m] # 0 /\ toTimer[m] # 0
    /\ hbTimer' = [m \in Members |-> IF hbTimer[m] > 0 THEN hbTimer[m] - 1 ELSE NoTimer]
    /\ toTimer' = [m \in Members |-> IF toTimer[m] > 0 THEN toTimer[m] - 1 ELSE NoTimer]
    /\ UNCHANGED <<up, running, state, weight, inc, next, ip, hears, net, changes, losses>>

-----------------------------------------------------------------------------
(* Calls of the application, and crashes. *)

Change(m) ==
    /\ up[m]
    /\ changes < MaxChanges
    /\ changes' = changes + 1

(* Mutant: no timeout timer is started. *)
ActivateWithoutTimeout(m) ==
    /\ Change(m)
    /\ running' = [running EXCEPT ![m] = TRUE]
    /\ hears' = [hears EXCEPT ![m] = IF BridgeFt THEN hears[m] /\ ~running[m] ELSE TRUE]
    /\ hbTimer' = [hbTimer EXCEPT ![m] = Heartbeat]
    /\ ip' = [ip EXCEPT ![m] = IP[m]]
    /\ inc' = [inc EXCEPT ![m] = IF running[m] THEN 0 ELSE inc[m]]
    /\ next' = [next EXCEPT ![m] = 1]
    /\ UNCHANGED <<up, state, weight, net, toTimer, losses>>

(* mamaFtMember_activate with multicastFt_activate or bridgeFt_activate,    *)
(* which deactivate a member that is active first.  The subscription of a   *)
(* bridge member, which that deactivates, is not activated again.           *)
Activate(m) ==
    /\ Change(m)
    /\ running' = [running EXCEPT ![m] = TRUE]
    /\ hears' = [hears EXCEPT ![m] = IF BridgeFt THEN hears[m] /\ ~running[m] ELSE TRUE]
    /\ hbTimer' = [hbTimer EXCEPT ![m] = Heartbeat]
    /\ toTimer' = [toTimer EXCEPT ![m] = Timeout]
    /\ ip' = [ip EXCEPT ![m] = IP[m]]
    /\ inc' = [inc EXCEPT ![m] = IF running[m] THEN 0 ELSE inc[m]]
    /\ next' = [next EXCEPT ![m] = 1]
    /\ UNCHANGED <<up, state, weight, net, losses>>

(* mamaFtMember_deactivate: myState is not touched. *)
Deactivate(m) ==
    /\ Change(m)
    /\ running' = [running EXCEPT ![m] = FALSE]
    /\ hears' = [hears EXCEPT ![m] = @ /\ ~running[m]]
    /\ hbTimer' = [hbTimer EXCEPT ![m] = NoTimer]
    /\ toTimer' = [toTimer EXCEPT ![m] = NoTimer]
    /\ inc' = [inc EXCEPT ![m] = 0]
    /\ next' = [next EXCEPT ![m] = 0]
    /\ UNCHANGED <<up, state, weight, ip, net, losses>>

(* mamaFtMember_setWeight; its reset function is empty. *)
SetWeight(m, w) ==
    /\ Change(m)
    /\ w # weight[m]
    /\ weight' = [weight EXCEPT ![m] = w]
    /\ UNCHANGED <<up, running, state, inc, next, ip, hears, hbTimer, toTimer, net, losses>>

(* The process dies, and its socket with it. *)
Crash(m) ==
    /\ Change(m)
    /\ up' = [up EXCEPT ![m] = FALSE]
    /\ running' = [running EXCEPT ![m] = FALSE]
    /\ hears' = [hears EXCEPT ![m] = FALSE]
    /\ hbTimer' = [hbTimer EXCEPT ![m] = NoTimer]
    /\ toTimer' = [toTimer EXCEPT ![m] = NoTimer]
    /\ net' = net \ Pending(m)
    /\ UNCHANGED <<state, weight, inc, next, ip, losses>>

(* It is started again: mamaFtMember_create and mamaFtMember_setup. *)
Restart(m) ==
    /\ ~up[m]
    /\ up' = [up EXCEPT ![m] = TRUE]
    /\ state' = [state EXCEPT ![m] = "UNKNOWN"]
    /\ weight' = [weight EXCEPT ![m] = InitialWeight[m]]
    /\ inc' = [inc EXCEPT ![m] = 0]
    /\ next' = [next EXCEPT ![m] = 0]
    /\ ip' = [ip EXCEPT ![m] = 0]
    /\ hears' = [hears EXCEPT ![m] = BridgeFt]
    /\ UNCHANGED <<running, hbTimer, toTimer, net, changes, losses>>

-----------------------------------------------------------------------------
Callback(m) ==
    \/ HeartbeatTimer(m) \/ TimeoutTimer(m)
    \/ \E h \in net : Receive(m, h)

Call(m) ==
    \/ Activate(m) \/ Deactivate(m) \/ Crash(m) \/ Restart(m)
    \/ \E w \in Weights : SetWeight(m, w)

Next ==
    \/ \E m \in Members : Callback(m) \/ Call(m)
    \/ \E h \in net : Lose(h)
    \/ Tick

(* Event queues are dispatched and time passes.  Nobody has to call         *)
(* anything, and no lost heartbeat has to be found again.                   *)
Fairness ==
    /\ \A m \in Members : WF_vars(Callback(m))
    /\ WF_vars(Tick)

Spec == Init /\ [][Next]_vars /\ Fairness

-----------------------------------------------------------------------------
CredentialSet == [weight : Nat, inc : Nat, ip : Nat, pid : Nat]

(* An election needs a call, a crash or a lost heartbeat: the incarnations,  *)
(* which are 32 bit counters, grow no faster than these happen.             *)
MaxIncarnation == MaxChanges + MaxLosses

TypeOK ==
    /\ up \in [Members -> BOOLEAN]
    /\ running \in [Members -> BOOLEAN]
    /\ state \in [Members -> States]
    /\ weight \in [Members -> Nat]
    /\ inc \in [Members -> 0 .. MaxIncarnation]
    /\ next \in [Members -> 0 .. MaxIncarnation + 1]
    /\ ip \in [Members -> Nat]
    /\ hears \in [Members -> BOOLEAN]
    /\ hbTimer \in [Members -> NoTimer .. Heartbeat]
    /\ toTimer \in [Members -> NoTimer .. Timeout]
    /\ net \subseteq [to : Members, cred : CredentialSet]
    /\ changes \in 0 .. MaxChanges
    /\ losses \in 0 .. MaxLosses

(* A running member that is not ACTIVE has a timeout pending: whoever is    *)
(* ACTIVE may die at any time, and nothing else makes a member take over.   *)
StandbyIsWatching ==
    \A m \in Members : running[m] /\ state[m] # "ACTIVE" => toTimer[m] # NoTimer

(* When the network loses nothing and nobody changes a weight, an elected    *)
(* member keeps its role for as long as it runs, unless a member of higher  *)
(* weight appears: members of its own weight that crash and come back, or   *)
(* are activated late, do not displace it.                                 *)
IncumbentStays ==
    [][\A m \in Members :
         running[m] /\ state[m] = "ACTIVE" /\ inc[m] > 0 /\ state'[m] = "STANDBY" =>
           \E h \in Pending(m) : h.cred.weight > weight[m]]_vars

(* When the network loses nothing and nobody changes a weight, no two       *)
(* running members hold the ACTIVE role they were elected to at the same    *)
(* time, through crashes, restarts and late activations.                    *)
OneIncumbent ==
    \A m, n \in Members :
        /\ running[m] /\ state[m] = "ACTIVE" /\ inc[m] > 0
        /\ running[n] /\ state[n] = "ACTIVE" /\ inc[n] > 0
        => m = n

Running == {m \in Members : running[m]}

Elected == {m \in Running : state[m] = "ACTIVE"}

(* "The member with the highest weight will become the active member"       *)
(* (mamaFtMember_setWeight, mama/ft.h): exactly one member is ACTIVE in the *)
(* end, and none has a higher weight.                                      *)
HighestWeightWins ==
    <>[](Running # {} => \E a \in Running : /\ Elected = {a}
                                            /\ \A m \in Running : weight[m] <= weight[a])

(* "the active member" (mama/ft.h): there is never a second one. *)
AtMostOneActive == Cardinality(Elected) <= 1

(* "This is only an initialization function.  In order to actually start    *)
(* the fault tolerance monitoring, use mamaFtMember_activate()"              *)
(* (mamaFtMember_setup, mama/ft.h).                                         *)
NoMonitoringBeforeActivate ==
    [][\A m \in Members : up[m] /\ ~running[m] => state'[m] = state[m] \/ ~up'[m]]_vars
=============================================================================
