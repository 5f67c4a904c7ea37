--------------------------- MODULE FtMemberProofs ---------------------------
(* The order of credentials, the timeout that every member which is not     *)
(* ACTIVE relies on, and the one member that is elected, for any group.     *)
EXTENDS FtMember, SelectionProofs

(* mamaBetterCredentials is a strict total order on the credentials of      *)
(* distinct processes: of two members exactly one yields to the other, and  *)
(* there is no cycle of members that yield to each other.                   *)
THEOREM CredentialsOrder ==
    /\ \A c \in CredentialSet : ~Better(c, c)
    /\ \A c, d, e \in CredentialSet : Better(c, d) /\ Better(d, e) => Better(c, e)
    /\ \A c, d \in CredentialSet :
          <<c.ip, c.pid>> # <<d.ip, d.pid>> => Better(c, d) \/ Better(d, c)
<1> USE DEF CredentialSet, Better
<1>1. \A c \in CredentialSet : ~Better(c, c)
  OBVIOUS
<1>2. \A c, d, e \in CredentialSet : Better(c, d) /\ Better(d, e) => Better(c, e)
  OBVIOUS
<1>3. \A c, d \in CredentialSet :
         <<c.ip, c.pid>> # <<d.ip, d.pid>> => Better(c, d) \/ Better(d, c)
  OBVIOUS
<1> QED
  BY <1>1, <1>2, <1>3

(* mamaFtMember_activate has run for a running member, whose process exists. *)
IdentityInv ==
    /\ running \in [Members -> BOOLEAN]
    /\ up \in [Members -> BOOLEAN]
    /\ ip \in [Members -> Nat]
    /\ \A m \in Members : running[m] => up[m] /\ ip[m] = IP[m]

(* The timeout timer of a running member is missing only in ACTIVE.          *)
WatchInv ==
    /\ IdentityInv
    /\ state \in [Members -> States]
    /\ toTimer \in [Members -> Int]
    /\ \A m \in Members : toTimer[m] >= NoTimer
    /\ StandbyIsWatching

(* No member is running after mamaFtMember_setup. *)
LEMMA WatchInit == Init => WatchInv
  BY FtAssumption DEF Init, WatchInv, IdentityInv, StandbyIsWatching, States, NoTimer

(* Every step keeps the timeout of the members that are not ACTIVE. *)
LEMMA WatchStep == WatchInv /\ [Next]_vars => WatchInv'
<1> SUFFICES ASSUME WatchInv, [Next]_vars PROVE WatchInv'
  OBVIOUS
<1> USE FtAssumption DEF WatchInv, IdentityInv, StandbyIsWatching, States, NoTimer
<1>1. CASE UNCHANGED vars
  BY <1>1 DEF vars
<1>2. ASSUME NEW m \in Members, NEW H,
             CheckHeartbeats(m, H), UNCHANGED <<up, running, ip>>
      PROVE  WatchInv'
  BY <1>2 DEF CheckHeartbeats
<1>3. ASSUME NEW m \in Members, NEW h, Receive(m, h) PROVE WatchInv'
  <2>1. CASE up[m] /\ hears[m]
    BY <1>2, <1>3, <2>1 DEF Receive
  <2>2. CASE ~(up[m] /\ hears[m])
    BY <1>3, <2>2 DEF Receive
  <2> QED
    BY <2>1, <2>2
<1>4. ASSUME NEW h, Lose(h) PROVE WatchInv'
  BY <1>4 DEF Lose
<1>5. ASSUME NEW m \in Members, HeartbeatTimer(m) PROVE WatchInv'
  BY <1>5 DEF HeartbeatTimer
<1>6. ASSUME NEW m \in Members, TimeoutTimer(m) PROVE WatchInv'
  <2> DEFINE read == IF BridgeFt THEN {} ELSE Pending(m)
  <2>1. CASE CheckHeartbeats(m, read)
    BY <1>2, <1>6, <2>1 DEF TimeoutTimer
  <2>2. CASE BecomeActive(m, read)
    BY <1>6, <2>2 DEF TimeoutTimer, BecomeActive
  <2>3. CASE toTimer' = [toTimer EXCEPT ![m] = Timeout] /\ UNCHANGED state
    BY <1>6, <2>3 DEF TimeoutTimer
  <2> QED
    BY <1>6, <2>1, <2>2, <2>3 DEF TimeoutTimer
<1>7. CASE Tick
  BY <1>7 DEF Tick
<1>8. ASSUME NEW m \in Members, Activate(m) PROVE WatchInv'
  BY <1>8 DEF Activate, Change
<1>9. ASSUME NEW m \in Members, Deactivate(m) PROVE WatchInv'
  BY <1>9 DEF Deactivate, Change
<1>10. ASSUME NEW m \in Members, NEW w \in Weights, SetWeight(m, w) PROVE WatchInv'
  BY <1>10 DEF SetWeight, Change
<1>11. ASSUME NEW m \in Members, Crash(m) PROVE WatchInv'
  BY <1>11 DEF Crash, Change
<1>12. ASSUME NEW m \in Members, Restart(m) PROVE WatchInv'
  BY <1>12 DEF Restart
<1> QED
  BY <1>1, <1>3, <1>4, <1>5, <1>6, <1>7, <1>8, <1>9, <1>10, <1>11, <1>12
  DEF Next, Callback, Call

(* A running member of a group that is not ACTIVE always has a timeout      *)
(* pending, whatever is lost, delayed or called: the group cannot be left   *)
(* without anybody who would take over.                                    *)
THEOREM SomebodyWatches == Spec => []StandbyIsWatching
<1>1. WatchInv => StandbyIsWatching
  BY DEF WatchInv
<1> QED
  BY <1>1, WatchInit, WatchStep, PTL DEF Spec

-----------------------------------------------------------------------------
(* One incumbent. *)

(* What the promise of one incumbent rests on: a multicast group, which polls *)
(* before it takes over, a network that loses nothing, weights that stay, and *)
(* a timeout longer than the heartbeat's interval.                          *)
Calm == MaxLosses = 0 /\ Weights = {} /\ ~BridgeFt /\ Heartbeat < Timeout

(* The member was elected, and has no timeout of its own. *)
Incumbent(m) == running[m] /\ toTimer[m] = NoTimer

Over(n, m) == running[n] /\ running[m] /\ n # m /\ Better(Credentials(n), Credentials(m))

(* A heartbeat that beats m waits to be read. *)
Beaten(m) == \E h \in Pending(m) : Better(h.cred, Credentials(m))

(* A member that beats m is heard by m before m times out, or it is heard by m *)
(* before it times out itself.                                              *)
Announced(n, m) ==
    Over(n, m) => \/ Beaten(m) /\ (Incumbent(m) => toTimer[n] > 0)
                  \/ hbTimer[n] < toTimer[m]
                  \/ hbTimer[n] < toTimer[n]

(* One that was elected before is heard by m before m times out. *)
Respected(n, m) ==
    Over(n, m) /\ inc[n] > 0 => ~Incumbent(m) /\ (Beaten(m) \/ hbTimer[n] < toTimer[m])

(* Only a higher weight beats an incumbent. *)
Unchallenged(m) ==
    Incumbent(m) => \A h \in Pending(m) :
        Better(h.cred, Credentials(m)) => h.cred.weight > weight[m]

GroupTypes ==
    /\ up \in [Members -> BOOLEAN] /\ running \in [Members -> BOOLEAN]
    /\ hears \in [Members -> BOOLEAN] /\ state \in [Members -> States]
    /\ weight \in [Members -> Nat] /\ inc \in [Members -> Nat] /\ next \in [Members -> Nat]
    /\ ip \in [Members -> Nat]
    /\ hbTimer \in [Members -> Int] /\ toTimer \in [Members -> Int]
    /\ net \in SUBSET [to : Members, cred : CredentialSet]
    /\ \E b \in Nat : \A h \in net : h.cred.inc <= b

(* What each member is by itself. *)
Sound(m) ==
    /\ running[m] =>
         /\ up[m] /\ ip[m] = IP[m] /\ next[m] > 0 /\ inc[m] <= next[m]
         /\ hbTimer[m] >= 0 /\ hbTimer[m] <= Heartbeat
         /\ toTimer[m] >= NoTimer
         /\ toTimer[m] = NoTimer <=> state[m] = "ACTIVE" /\ inc[m] > 0
    /\ hears[m] = running[m]
    /\ ~running[m] => hbTimer[m] = NoTimer /\ toTimer[m] = NoTimer
    /\ up[m] /\ ~running[m] => inc[m] = 0

GroupInv ==
    /\ GroupTypes
    /\ \A m \in Members : Sound(m) /\ Unchallenged(m)
    /\ \A m, n \in Members : Announced(n, m) /\ Respected(n, m)
    /\ \A m, n \in Members : Incumbent(m) /\ Incumbent(n) => m = n

(* A bounded set of numbers has a greatest one. *)
LEMMA Greatest ==
    ASSUME NEW S \in SUBSET Nat, S # {}, NEW b \in Nat, \A x \in S : x <= b
    PROVE  Max(S) \in S /\ \A x \in S : x <= Max(S)
<1> DEFINE U == {u \in Nat : \A x \in S : x <= u}
<1>1. PICK u \in U : \A v \in U : u <= v
  <2>1. b \in U /\ U \in SUBSET Nat
    OBVIOUS
  <2> HIDE DEF U
  <2> QED
    BY <2>1, Smallest
<1>2. u \in S
  <2> SUFFICES ASSUME u \notin S PROVE FALSE
    OBVIOUS
  <2>1. \A x \in S : x < u
    OBVIOUS
  <2>2. u > 0
    <3>1. PICK x \in S : TRUE
      OBVIOUS
    <3> QED
      BY <2>1, <3>1
  <2>3. u - 1 \in U
    BY <2>1, <2>2
  <2> QED
    BY <1>1, <2>3
<1>3. \A x \in S : u >= x
  OBVIOUS
<1>4. \E x \in S : \A y \in S : x >= y
  BY <1>2, <1>3
<1> QED
  BY <1>4 DEF Max

(* Of two running members one beats the other. *)
LEMMA RunningOrder ==
    ASSUME GroupTypes, NEW m \in Members, NEW n \in Members, m # n,
           Sound(m), Sound(n), running[m], running[n]
    PROVE  Over(n, m) \/ Over(m, n)
<1>1. Credentials(m) \in CredentialSet /\ Credentials(n) \in CredentialSet
  BY FtAssumption DEF GroupTypes, Credentials, CredentialSet
<1>2. <<Credentials(m).ip, Credentials(m).pid>> # <<Credentials(n).ip, Credentials(n).pid>>
  <2>1. <<IP[m], Pid[m]>> # <<IP[n], Pid[n]>>
    BY FtAssumption
  <2> QED
    BY <2>1 DEF Credentials, Sound
<1>3. Better(Credentials(m), Credentials(n)) \/ Better(Credentials(n), Credentials(m))
  BY <1>1, <1>2, CredentialsOrder
<1> QED
  BY <1>3 DEF Over

(* Nothing happens to member x. *)
Stays(x) ==
    /\ up'[x] = up[x] /\ running'[x] = running[x] /\ hears'[x] = hears[x]
    /\ state'[x] = state[x] /\ weight'[x] = weight[x] /\ inc'[x] = inc[x]
    /\ next'[x] = next[x] /\ ip'[x] = ip[x]
    /\ hbTimer'[x] = hbTimer[x] /\ toTimer'[x] = toTimer[x]

(* What is true of one member stays true of one that nothing happens to. *)
LEMMA StaysSound ==
    ASSUME NEW x, Stays(x)
    PROVE  /\ Sound(x) => Sound(x)'
           /\ Incumbent(x)' <=> Incumbent(x)
           /\ Credentials(x)' = Credentials(x)
<1>1. Sound(x) => Sound(x)'
  BY DEF Stays, Sound, NoTimer
<1>2. Incumbent(x)' <=> Incumbent(x)
  BY DEF Stays, Incumbent, NoTimer
<1>3. Credentials(x)' = Credentials(x)
  BY DEF Stays, Credentials
<1> QED
  BY <1>1, <1>2, <1>3

(* Members that nothing happens to stay as they are to each other. *)
LEMMA OthersStay ==
    ASSUME NEW n \in Members, NEW k \in Members, Stays(n), Stays(k),
           Beaten(k) => Beaten(k)'
    PROVE  /\ Announced(n, k) => Announced(n, k)'
           /\ Respected(n, k) => Respected(n, k)'
<1>1. Over(n, k)' <=> Over(n, k)
  BY StaysSound DEF Stays, Over
<1>2. (Incumbent(k)' <=> Incumbent(k)) /\ inc'[n] = inc[n] /\ hbTimer'[n] = hbTimer[n]
      /\ toTimer'[n] = toTimer[n] /\ toTimer'[k] = toTimer[k]
  BY StaysSound DEF Stays
<1> QED
  BY <1>1, <1>2 DEF Announced, Respected

(* What is left to show of a step of m alone. *)
LEMMA StepOfOne ==
    ASSUME GroupInv, NEW m \in Members,
           GroupTypes', Sound(m)', Unchallenged(m)',
           \A x \in Members \ {m} :
              /\ Stays(x)
              /\ Beaten(x) => Beaten(x)'
              /\ Unchallenged(x)'
              /\ Announced(x, m)' /\ Respected(x, m)'
              /\ Announced(m, x)' /\ Respected(m, x)'
              /\ Incumbent(m)' => ~Incumbent(x)
    PROVE  GroupInv'
<1>1. \A x \in Members : Sound(x)' /\ Unchallenged(x)'
  BY StaysSound DEF GroupInv
<1>2. ASSUME NEW k \in Members, NEW n \in Members
      PROVE  Announced(n, k)' /\ Respected(n, k)'
  <2>1. CASE k # m /\ n # m
    BY <2>1, OthersStay DEF GroupInv
  <2>2. CASE k = n
    BY <2>2 DEF Announced, Respected, Over
  <2>3. CASE k = m /\ n # m
    BY <2>3
  <2>4. CASE k # m /\ n = m
    BY <2>4
  <2> QED
    BY <2>1, <2>2, <2>3, <2>4
<1>3. ASSUME NEW k \in Members, NEW n \in Members, Incumbent(k)', Incumbent(n)'
      PROVE  k = n
  <2>1. CASE k # m /\ n # m
    <3>1. Incumbent(k) /\ Incumbent(n)
      BY <1>3, <2>1, StaysSound
    <3> QED
      BY <3>1 DEF GroupInv
  <2>2. CASE k = m /\ n # m
    BY <1>3, <2>2, StaysSound
  <2>3. CASE k # m /\ n = m
    BY <1>3, <2>3, StaysSound
  <2> QED
    BY <2>1, <2>2, <2>3
<1> QED
  BY <1>1, <1>2, <1>3 DEF GroupInv

(* Heartbeats in flight to x are the same. *)
LEMMA SamePending ==
    ASSUME NEW x \in Members, Stays(x), Pending(x)' = Pending(x)
    PROVE  (Beaten(x)' <=> Beaten(x)) /\ (Unchallenged(x) => Unchallenged(x)')
<1>1. Credentials(x)' = Credentials(x) /\ (Incumbent(x)' <=> Incumbent(x)) /\ weight'[x] = weight[x]
  BY StaysSound DEF Stays
<1>2. Beaten(x)' <=> Beaten(x)
  BY <1>1 DEF Beaten
<1>3. Unchallenged(x) => Unchallenged(x)'
  BY <1>1 DEF Unchallenged
<1> QED
  BY <1>2, <1>3

(* A step that only reads heartbeats that beat nobody. *)
LEMMA QuietStep ==
    ASSUME GroupInv, GroupTypes',
           \A x \in Members : Stays(x) /\ (Beaten(x) => Beaten(x)') /\ Unchallenged(x)'
    PROVE  GroupInv'
<1>1. \A x \in Members : Sound(x)' /\ Unchallenged(x)'
  BY StaysSound DEF GroupInv
<1>2. \A k, n \in Members : Announced(n, k)' /\ Respected(n, k)'
  BY OthersStay DEF GroupInv
<1>3. \A k, n \in Members : Incumbent(k)' /\ Incumbent(n)' => k = n
  BY StaysSound DEF GroupInv
<1> QED
  BY <1>1, <1>2, <1>3 DEF GroupInv

(* Member m waits for another timeout. *)
Defers(m) ==
    /\ up'[m] = up[m] /\ running'[m] = running[m] /\ hears'[m] = hears[m]
    /\ weight'[m] = weight[m] /\ inc'[m] = inc[m] /\ ip'[m] = ip[m]
    /\ hbTimer'[m] = hbTimer[m] /\ toTimer'[m] = Timeout
    /\ next'[m] >= next[m]
    /\ state'[m] = "ACTIVE" => inc[m] = 0

(* A member that waits for another timeout hears everybody before it. *)
LEMMA DeferStep ==
    ASSUME GroupInv, Calm, NEW m \in Members, running[m], GroupTypes', Defers(m),
           \A x \in Members \ {m} : Stays(x) /\ Pending(x)' = Pending(x)
    PROVE  GroupInv'
<1> USE FtAssumption DEF NoTimer
<1>0. GroupTypes /\ \A x \in Members : Sound(x)
  BY DEF GroupInv
<1>1. Sound(m)'
  <2>1. next[m] \in Nat /\ next'[m] \in Nat /\ inc[m] \in Nat /\ hbTimer[m] \in Int
    BY <1>0 DEF GroupTypes
  <2>2. next'[m] > 0 /\ inc'[m] <= next'[m]
    BY <1>0, <2>1 DEF Sound, Defers
  <2>3. toTimer'[m] >= NoTimer /\ toTimer'[m] # NoTimer
    BY DEF Defers
  <2>4. hears'[m] = running'[m] /\ running'[m] /\ up'[m]
    BY <1>0 DEF Sound, Defers
  <2>5. ip'[m] = IP[m] /\ hbTimer'[m] >= 0 /\ hbTimer'[m] <= Heartbeat
    BY <1>0 DEF Sound, Defers
  <2>6. ~(state'[m] = "ACTIVE" /\ inc'[m] > 0)
    BY <2>1 DEF Defers
  <2> QED
    BY <2>2, <2>3, <2>4, <2>5, <2>6 DEF Sound
<1>2. ~Incumbent(m)'
  BY DEF Defers, Incumbent
<1>3. Unchallenged(m)'
  BY <1>2 DEF Unchallenged
<1>4. Credentials(m)' = Credentials(m)
  BY DEF Defers, Credentials
<1>5. ASSUME NEW x \in Members \ {m}
      PROVE  /\ Stays(x)
             /\ Beaten(x) => Beaten(x)'
             /\ Unchallenged(x)'
             /\ Announced(x, m)' /\ Respected(x, m)'
             /\ Announced(m, x)' /\ Respected(m, x)'
             /\ Incumbent(m)' => ~Incumbent(x)
  <2>1. Stays(x)
    BY <1>5
  <2>2. (Beaten(x)' <=> Beaten(x)) /\ Unchallenged(x)'
    BY <1>5, SamePending DEF GroupInv
  <2>3. (Over(x, m)' <=> Over(x, m)) /\ (Over(m, x)' <=> Over(m, x))
    <3>1. Credentials(x)' = Credentials(x)
      BY <2>1, StaysSound
    <3> QED
      BY <2>1, <3>1, <1>4 DEF Over, Defers, Stays
  <2>4. running[x] => hbTimer'[x] < toTimer'[m]
    BY <1>0, <2>1 DEF Sound, GroupTypes, Stays, Defers, Calm
  <2>5. hbTimer'[m] < toTimer'[m]
    BY <1>0 DEF Sound, GroupTypes, Defers, Calm
  <2>6. Announced(x, m)' /\ Respected(x, m)'
    BY <1>2, <2>3, <2>4 DEF Announced, Respected, Over
  <2>7. Announced(m, x)'
    BY <2>5 DEF Announced
  <2>8. Respected(m, x)'
    <3>1. Respected(m, x)
      BY DEF GroupInv
    <3>2. inc'[m] = inc[m] /\ hbTimer'[m] = hbTimer[m] /\ toTimer'[x] = toTimer[x]
      BY <2>1 DEF Stays, Defers
    <3>3. Incumbent(x)' <=> Incumbent(x)
      BY <2>1, StaysSound
    <3> QED
      BY <3>1, <3>2, <3>3, <2>2, <2>3 DEF Respected
  <2> QED
    BY <1>2, <2>1, <2>2, <2>6, <2>7, <2>8
<1> QED
  BY <1>1, <1>3, <1>5, StepOfOne

(* The types of what a callback changes. *)
LEMMA CheckTypes ==
    ASSUME GroupTypes, NEW m \in Members, NEW H \in SUBSET net, CheckHeartbeats(m, H),
           NEW g \in H, Better(g.cred, Credentials(m))
    PROVE  /\ next' \in [Members -> Nat] /\ next'[m] >= next[m]
           /\ \A x \in Members \ {m} : /\ next'[x] = next[x] /\ state'[x] = state[x]
                                       /\ toTimer'[x] = toTimer[x]
           /\ state' \in [Members -> States] /\ state'[m] = "STANDBY"
           /\ toTimer' \in [Members -> Int]
           /\ \/ toTimer'[m] = Timeout
              \/ state[m] = "STANDBY" /\ toTimer[m] = NoTimer
<1> DEFINE better == {h.cred : h \in {f \in H : Better(f.cred, Credentials(m))}}
           S == {next[m]} \cup {c.inc + 1 : c \in better}
<1>1. better # {} /\ better \in SUBSET CredentialSet
  BY DEF GroupTypes
<1>2. S \in SUBSET Nat /\ S # {}
  <2>1. \A c \in better : c.inc \in Nat
    <3> HIDE DEF better
    <3> QED
      BY <1>1 DEF CredentialSet
  <2> HIDE DEF better
  <2> QED
    BY <2>1 DEF GroupTypes
<1>3. PICK b \in Nat : \A h \in net : h.cred.inc <= b
  BY DEF GroupTypes
<1>4. \A c \in better : c.inc \in Nat /\ c.inc <= b
  <2>1. \A c \in better : c.inc \in Nat
    <3> HIDE DEF better
    <3> QED
      BY <1>1 DEF CredentialSet
  <2>2. \A c \in better : c.inc <= b
    BY <1>3
  <2> HIDE DEF better
  <2> QED
    BY <2>1, <2>2
<1>5. PICK a \in Nat : \A s \in S : s <= a
  <2>1. next[m] \in Nat
    BY DEF GroupTypes
  <2>2. \A s \in S : s <= next[m] + b + 1
    <3> HIDE DEF better
    <3> QED
      BY <1>4, <2>1
  <2>3. next[m] + b + 1 \in Nat
    BY <2>1
  <2> HIDE DEF S
  <2> QED
    BY <2>2, <2>3
<1>6. Max(S) \in S /\ \A s \in S : s <= Max(S)
  <2> HIDE DEF S
  <2> QED
    BY <1>2, <1>5, Greatest
<1>7. Max(S) \in Nat /\ next[m] <= Max(S)
  <2>1. next[m] \in S
    OBVIOUS
  <2> HIDE DEF S
  <2> QED
    BY <1>2, <1>6, <2>1
<1>8. next' = [next EXCEPT ![m] = Max(S)]
  BY <1>1 DEF CheckHeartbeats
<1>9. /\ state' = [state EXCEPT ![m] = "STANDBY"]
      /\ toTimer' = [toTimer EXCEPT ![m] =
                        IF @ = NoTimer /\ state[m] = "STANDBY" THEN @ ELSE Timeout]
  BY <1>1 DEF CheckHeartbeats
<1> HIDE DEF S, better
<1>10. next' \in [Members -> Nat] /\ next'[m] >= next[m]
  BY <1>7, <1>8 DEF GroupTypes
<1>11. state' \in [Members -> States] /\ state'[m] = "STANDBY"
  BY <1>9 DEF GroupTypes, States
<1>12. toTimer' \in [Members -> Int]
  BY <1>9, FtAssumption DEF GroupTypes
<1>13. toTimer'[m] = IF toTimer[m] = NoTimer /\ state[m] = "STANDBY" THEN toTimer[m] ELSE Timeout
  BY <1>9 DEF GroupTypes
<1>14. \A x \in Members \ {m} : /\ next'[x] = next[x] /\ state'[x] = state[x]
                              /\ toTimer'[x] = toTimer[x]
  BY <1>8, <1>9 DEF GroupTypes
<1> QED
  BY <1>10, <1>11, <1>12, <1>13, <1>14

(* The types of what is in flight once m sent its credentials c. *)
LEMMA SentTypes ==
    ASSUME GroupTypes, NEW m \in Members, NEW c \in CredentialSet, NEW R,
           net' = (net \ R) \cup {[to |-> n, cred |-> c] : n \in Members \ {m}}
    PROVE  /\ net' \in SUBSET [to : Members, cred : CredentialSet]
           /\ \E b \in Nat : \A h \in net' : h.cred.inc <= b
<1>1. PICK b \in Nat : \A h \in net : h.cred.inc <= b
  BY DEF GroupTypes
<1>2. c.inc \in Nat
  BY DEF CredentialSet
<1>3. \A h \in net : h.cred.inc \in Nat
  BY DEF GroupTypes, CredentialSet
<1>4. net' \in SUBSET [to : Members, cred : CredentialSet]
  BY DEF GroupTypes
<1>5. ASSUME NEW h \in net' PROVE h.cred.inc <= b + c.inc
  <2>1. CASE h \in net
    <3>1. h.cred.inc \in Nat /\ h.cred.inc <= b
      BY <1>1, <1>3, <2>1
    <3> QED
      BY <1>2, <3>1
  <2>2. CASE h \notin net
    <3>1. h.cred = c
      BY <1>5, <2>2
    <3> QED
      BY <1>2, <3>1
  <2> QED
    BY <2>1, <2>2
<1>6. b + c.inc \in Nat
  BY <1>2
<1>7. \E a \in Nat : \A h \in net' : h.cred.inc <= a
  BY <1>5, <1>6
<1> QED
  BY <1>4, <1>7

(* A heartbeat that is read. *)
LEMMA GroupReceive ==
    ASSUME GroupInv, Calm, NEW m \in Members, NEW h \in net, Receive(m, h)
    PROVE  GroupInv'
<1>0. GroupTypes /\ Sound(m)
  BY DEF GroupInv
<1>1. h \in Pending(m) /\ h.to = m /\ net' = net \ {h}
  BY DEF Receive, Pending
<1>2. \A x \in Members \ {m} : Pending(x)' = Pending(x)
  BY <1>1 DEF Pending
<1>3. UNCHANGED <<up, running, weight, inc, ip, hears, hbTimer>>
  BY DEF Receive
<1>4. net' \in SUBSET [to : Members, cred : CredentialSet] /\ \E b \in Nat : \A f \in net' : f.cred.inc <= b
  BY <1>0, <1>1 DEF GroupTypes
<1>5. CASE up[m] /\ hears[m] /\ Better(h.cred, Credentials(m))
  <2>1. CheckHeartbeats(m, {h}) /\ {h} \in SUBSET net /\ h \in {h}
    BY <1>5 DEF Receive
  <2>2. /\ next' \in [Members -> Nat] /\ next'[m] >= next[m]
        /\ \A x \in Members \ {m} : /\ next'[x] = next[x] /\ state'[x] = state[x]
                                    /\ toTimer'[x] = toTimer[x]
        /\ state' \in [Members -> States] /\ state'[m] = "STANDBY"
        /\ toTimer' \in [Members -> Int]
        /\ \/ toTimer'[m] = Timeout
           \/ state[m] = "STANDBY" /\ toTimer[m] = NoTimer
    BY <1>0, <1>5, <2>1, CheckTypes
  <2>3. GroupTypes'
    BY <1>0, <1>3, <1>4, <2>2 DEF GroupTypes
  <2>4. running[m]
    BY <1>0, <1>5 DEF Sound
  <2>5. toTimer'[m] = Timeout
    BY <1>0, <2>2, <2>4 DEF Sound
  <2>6. Defers(m)
    BY <1>3, <2>2, <2>5 DEF Defers
  <2>7. \A x \in Members \ {m} : Stays(x)
    BY <1>3, <2>2 DEF Stays
  <2> QED
    BY <1>2, <2>3, <2>4, <2>6, <2>7, DeferStep
<1>6. CASE ~(up[m] /\ hears[m] /\ Better(h.cred, Credentials(m)))
  <2>1. UNCHANGED <<state, next, toTimer>>
    BY <1>6 DEF Receive, CheckHeartbeats
  <2>2. GroupTypes'
    BY <1>0, <1>3, <1>4, <2>1 DEF GroupTypes
  <2>3. \A x \in Members : Stays(x)
    BY <1>3, <2>1 DEF Stays
  <2>4. CASE running[m]
    <3>1. ~Better(h.cred, Credentials(m))
      BY <1>0, <1>6, <2>4 DEF Sound
    <3>2. Credentials(m)' = Credentials(m) /\ (Incumbent(m)' <=> Incumbent(m)) /\ weight'[m] = weight[m]
      BY <2>3, StaysSound DEF Stays
    <3>3. Pending(m)' = Pending(m) \ {h}
      BY <1>1 DEF Pending
    <3>4. Beaten(m) => Beaten(m)'
      BY <3>1, <3>2, <3>3 DEF Beaten
    <3>5. Unchallenged(m)'
      BY <3>2, <3>3 DEF Unchallenged, GroupInv
    <3>6. \A x \in Members : Stays(x) /\ (Beaten(x) => Beaten(x)') /\ Unchallenged(x)'
      BY <1>2, <2>3, <3>4, <3>5, SamePending DEF GroupInv
    <3> QED
      BY <2>2, <3>6, QuietStep
  <2>5. CASE ~running[m]
    <3>1. ~running'[m]
      BY <1>3, <2>5
    <3>2. Sound(m)' /\ Unchallenged(m)' /\ ~Incumbent(m)'
      BY <1>0, <2>3, <3>1, StaysSound DEF Unchallenged, Incumbent
    <3>3. \A x \in Members \ {m} : /\ Announced(x, m)' /\ Respected(x, m)'
                                   /\ Announced(m, x)' /\ Respected(m, x)'
      BY <3>1 DEF Announced, Respected, Over
    <3>4. \A x \in Members \ {m} : Stays(x) /\ (Beaten(x) => Beaten(x)') /\ Unchallenged(x)'
      BY <1>2, <2>3, SamePending DEF GroupInv
    <3> QED
      BY <2>2, <3>2, <3>3, <3>4, StepOfOne
  <2> QED
    BY <2>4, <2>5
<1> QED
  BY <1>5, <1>6

(* A member that is down, or stops running, matters to nobody. *)
LEMMA GroupLeave ==
    ASSUME GroupInv, NEW m \in Members, GroupTypes', Sound(m)', ~running'[m],
           net' = net \/ net' = net \ Pending(m),
           \A x \in Members \ {m} : Stays(x)
    PROVE  GroupInv'
<1>1. Unchallenged(m)' /\ ~Incumbent(m)'
  BY DEF Unchallenged, Incumbent
<1>2. \A x \in Members \ {m} : /\ Announced(x, m)' /\ Respected(x, m)'
                               /\ Announced(m, x)' /\ Respected(m, x)'
  BY DEF Announced, Respected, Over
<1>3. \A x \in Members \ {m} : Pending(x)' = Pending(x)
  BY DEF Pending
<1>4. \A x \in Members \ {m} : (Beaten(x) => Beaten(x)') /\ Unchallenged(x)'
  BY <1>3, SamePending DEF GroupInv
<1> QED
  BY <1>1, <1>2, <1>4, StepOfOne

(* Deactivation, a crash and a restart. *)
LEMMA GroupCalls ==
    ASSUME GroupInv, Calm, NEW m \in Members, Deactivate(m) \/ Crash(m) \/ Restart(m)
    PROVE  GroupInv'
<1>0. GroupTypes /\ Sound(m)
  BY DEF GroupInv
<1> USE FtAssumption DEF NoTimer
<1>1. CASE Deactivate(m)
  <2>1. GroupTypes'
    <3>1. up' = up /\ running' \in [Members -> BOOLEAN]
      BY <1>0, <1>1 DEF Deactivate, GroupTypes
    <3>2. hears' \in [Members -> BOOLEAN]
      BY <1>0, <1>1 DEF Deactivate, GroupTypes
    <3>3. /\ hbTimer' \in [Members -> Int] /\ toTimer' \in [Members -> Int]
          /\ inc' \in [Members -> Nat] /\ next' \in [Members -> Nat]
      BY <1>0, <1>1 DEF Deactivate, GroupTypes
    <3>4. state' = state /\ weight' = weight /\ ip' = ip /\ net' = net
      BY <1>1 DEF Deactivate
    <3> QED
      BY <1>0, <3>1, <3>2, <3>3, <3>4 DEF GroupTypes
  <2>2. Sound(m)' /\ ~running'[m]
    <3>1. ~running'[m] /\ ~hears'[m] /\ running'[m] \in BOOLEAN /\ hears'[m] \in BOOLEAN
      BY <1>0, <1>1 DEF Deactivate, GroupTypes, Sound
    <3>2. hbTimer'[m] = NoTimer /\ toTimer'[m] = NoTimer /\ inc'[m] = 0
      BY <1>0, <1>1 DEF Deactivate, GroupTypes
    <3> QED
      BY <3>1, <3>2 DEF Sound
  <2>3. net' = net /\ \A x \in Members \ {m} : Stays(x)
    BY <1>0, <1>1 DEF Deactivate, GroupTypes, Stays
  <2> QED
    BY <2>1, <2>2, <2>3, GroupLeave
<1>2. CASE Crash(m)
  <2>1. GroupTypes'
    <3>1. up' \in [Members -> BOOLEAN] /\ running' \in [Members -> BOOLEAN]
      BY <1>0, <1>2 DEF Crash, GroupTypes
    <3>2. hears' \in [Members -> BOOLEAN]
      BY <1>0, <1>2 DEF Crash, GroupTypes
    <3>3. /\ hbTimer' \in [Members -> Int] /\ toTimer' \in [Members -> Int]
          /\ inc' = inc /\ next' = next
      BY <1>0, <1>2 DEF Crash, GroupTypes
    <3>4. state' = state /\ weight' = weight /\ ip' = ip /\ net' \in SUBSET net
      BY <1>2 DEF Crash
    <3> QED
      BY <1>0, <3>1, <3>2, <3>3, <3>4 DEF GroupTypes
  <2>2. Sound(m)' /\ ~running'[m]
    <3>1. ~running'[m] /\ ~hears'[m] /\ running'[m] \in BOOLEAN /\ hears'[m] \in BOOLEAN
      BY <1>0, <1>2 DEF Crash, GroupTypes
    <3>2. hbTimer'[m] = NoTimer /\ toTimer'[m] = NoTimer /\ ~up'[m]
      BY <1>0, <1>2 DEF Crash, GroupTypes
    <3> QED
      BY <3>1, <3>2 DEF Sound
  <2>3. net' = net \ Pending(m) /\ \A x \in Members \ {m} : Stays(x)
    BY <1>0, <1>2 DEF Crash, GroupTypes, Stays
  <2> QED
    BY <2>1, <2>2, <2>3, GroupLeave
<1>3. CASE Restart(m)
  <2>1. GroupTypes'
    BY <1>0, <1>3 DEF Restart, GroupTypes, States
  <2>2. ~running[m]
    BY <1>0, <1>3 DEF Restart, Sound
  <2>3. Sound(m)' /\ ~running'[m]
    BY <1>0, <1>3, <2>2 DEF Restart, GroupTypes, Sound, Calm
  <2>4. net' = net /\ \A x \in Members \ {m} : Stays(x)
    BY <1>0, <1>3 DEF Restart, GroupTypes, Stays
  <2> QED
    BY <2>1, <2>3, <2>4, GroupLeave
<1> QED
  BY <1>1, <1>2, <1>3

(* A member that is activated hears everybody before its first timeout, and   *)
(* is heard before it.                                                     *)
LEMMA GroupActivate ==
    ASSUME GroupInv, Calm, NEW m \in Members, Activate(m)
    PROVE  GroupInv'
<1> USE FtAssumption DEF NoTimer
<1>0. GroupTypes /\ \A x \in Members : Sound(x)
  BY DEF GroupInv
<1>1. /\ running' = [running EXCEPT ![m] = TRUE]
      /\ hears' = [hears EXCEPT ![m] = TRUE]
      /\ hbTimer' = [hbTimer EXCEPT ![m] = Heartbeat]
      /\ toTimer' = [toTimer EXCEPT ![m] = Timeout]
      /\ ip' = [ip EXCEPT ![m] = IP[m]]
      /\ next' = [next EXCEPT ![m] = 1]
      /\ up' = up /\ state' = state /\ weight' = weight /\ net' = net
  BY DEF Activate, Calm
<1>2. inc' = [inc EXCEPT ![m] = 0]
  <2>1. ~running[m] => inc[m] = 0
    BY <1>0 DEF Sound, Activate, Change
  <2> QED
    BY <2>1 DEF Activate
<1>3. GroupTypes'
  <2>1. running' \in [Members -> BOOLEAN] /\ hears' \in [Members -> BOOLEAN]
    BY <1>0, <1>1 DEF GroupTypes
  <2>2. /\ hbTimer' \in [Members -> Int] /\ toTimer' \in [Members -> Int]
        /\ ip' \in [Members -> Nat] /\ next' \in [Members -> Nat] /\ inc' \in [Members -> Nat]
    BY <1>0, <1>1, <1>2 DEF GroupTypes
  <2> QED
    BY <1>0, <1>1, <2>1, <2>2 DEF GroupTypes
<1>4. /\ running'[m] /\ hears'[m] = TRUE /\ running'[m] = TRUE
      /\ hbTimer'[m] = Heartbeat /\ toTimer'[m] = Timeout
      /\ ip'[m] = IP[m] /\ next'[m] = 1 /\ inc'[m] = 0
  BY <1>0, <1>1, <1>2 DEF GroupTypes
<1>5. up'[m]
  BY <1>1 DEF Activate, Change
<1>6. Sound(m)'
  <2>1. hears'[m] = running'[m]
    BY <1>4
  <2> QED
    BY <1>4, <1>5, <2>1 DEF Sound
<1>7. ~Incumbent(m)' /\ Unchallenged(m)'
  BY <1>4 DEF Incumbent, Unchallenged
<1>8. ASSUME NEW x \in Members \ {m}
      PROVE  /\ Stays(x)
             /\ Beaten(x) => Beaten(x)'
             /\ Unchallenged(x)'
             /\ Announced(x, m)' /\ Respected(x, m)'
             /\ Announced(m, x)' /\ Respected(m, x)'
  <2>1. Stays(x)
    BY <1>0, <1>1, <1>2 DEF Stays, GroupTypes
  <2>2. Pending(x)' = Pending(x)
    BY <1>1 DEF Pending
  <2>3. (Beaten(x) => Beaten(x)') /\ Unchallenged(x)'
    BY <2>1, <2>2, SamePending DEF GroupInv
  <2>4. running'[x] => hbTimer'[x] < toTimer'[m]
    BY <1>0, <1>4, <2>1 DEF Sound, GroupTypes, Stays, Calm
  <2>5. Announced(x, m)' /\ Respected(x, m)'
    BY <1>7, <2>4 DEF Announced, Respected, Over
  <2>6. Announced(m, x)' /\ Respected(m, x)'
    BY <1>4 DEF Announced, Respected, Calm
  <2> QED
    BY <2>1, <2>3, <2>5, <2>6
<1> QED
  BY <1>3, <1>6, <1>7, <1>8, StepOfOne

(* Time passes for all timers alike. *)
LEMMA GroupTick ==
    ASSUME GroupInv, Tick
    PROVE  GroupInv'
<1> USE FtAssumption DEF NoTimer
<1>0. GroupTypes /\ \A x \in Members : Sound(x)
  BY DEF GroupInv
<1>1. UNCHANGED <<up, running, state, weight, inc, next, ip, hears, net>>
  BY DEF Tick
<1>2. \A x \in Members : running[x] => Pending(x) = {} /\ ~Beaten(x)
  BY <1>0 DEF Tick, Buffered, Pending, Beaten, Sound
<1>3. \A x \in Members : hbTimer[x] \in Int /\ toTimer[x] \in Int
  BY <1>0 DEF GroupTypes
<1>4. \A x \in Members :
         /\ hbTimer[x] # 0 /\ toTimer[x] # 0
         /\ hbTimer'[x] = IF hbTimer[x] > 0 THEN hbTimer[x] - 1 ELSE -1
         /\ toTimer'[x] = IF toTimer[x] > 0 THEN toTimer[x] - 1 ELSE -1
  BY DEF Tick
<1>5. GroupTypes'
  <2>1. hbTimer' \in [Members -> Int] /\ toTimer' \in [Members -> Int]
    BY <1>3 DEF Tick
  <2> QED
    BY <1>0, <1>1, <2>1 DEF GroupTypes
<1>6. \A x \in Members : Credentials(x)' = Credentials(x)
  BY <1>1 DEF Credentials
<1>7. ASSUME NEW x \in Members
      PROVE  Sound(x)' /\ Unchallenged(x)' /\ (Incumbent(x)' <=> Incumbent(x))
  <2>1. Sound(x)
    BY <1>0
  <2>2. Sound(x)'
    BY <1>1, <1>3, <1>4, <2>1 DEF Sound
  <2>3. Incumbent(x)' <=> Incumbent(x)
    BY <1>1, <1>3, <1>4, <2>1 DEF Sound, Incumbent
  <2>4. Unchallenged(x)'
    BY <1>1, <1>2 DEF Unchallenged, Incumbent, Pending
  <2> QED
    BY <2>2, <2>3, <2>4
<1>8. ASSUME NEW n \in Members, NEW m \in Members
      PROVE  Announced(n, m)' /\ Respected(n, m)'
  <2>1. Over(n, m)' <=> Over(n, m)
    BY <1>1, <1>6 DEF Over
  <2>2. Announced(n, m) /\ Respected(n, m)
    BY DEF GroupInv
  <2>3. running[n] => hbTimer[n] > 0
    BY <1>0, <1>3, <1>4 DEF Sound
  <2>4. running[n] /\ hbTimer[n] < toTimer[m] => hbTimer'[n] < toTimer'[m]
    BY <1>3, <1>4, <2>3
  <2>5. running[n] /\ hbTimer[n] < toTimer[n] => hbTimer'[n] < toTimer'[n]
    BY <1>3, <1>4, <2>3
  <2>6. Announced(n, m)'
    BY <1>2, <2>1, <2>2, <2>4, <2>5 DEF Announced, Over
  <2>7. Respected(n, m)'
    BY <1>1, <1>2, <1>7, <2>1, <2>2, <2>4 DEF Respected, Over
  <2> QED
    BY <2>6, <2>7
<1> QED
  BY <1>5, <1>7, <1>8 DEF GroupInv

(* A heartbeat that m sends is read by those it beats, and beats an incumbent   *)
(* by weight only.                                                         *)
LEMMA GroupHeartbeat ==
    ASSUME GroupInv, NEW m \in Members, HeartbeatTimer(m)
    PROVE  GroupInv'
<1> USE FtAssumption DEF NoTimer
<1>0. GroupTypes /\ \A x \in Members : Sound(x)
  BY DEF GroupInv
<1>1. /\ UNCHANGED <<up, running, state, weight, inc, next, ip, hears, toTimer>>
      /\ hbTimer' = [hbTimer EXCEPT ![m] = Heartbeat] /\ hbTimer[m] = 0
      /\ net' = net \cup HeartbeatsOf(m)
  BY DEF HeartbeatTimer
<1>2. running[m]
  BY <1>0, <1>1 DEF Sound
<1>3. \A x \in Members : Credentials(x)' = Credentials(x) /\ Credentials(x) \in CredentialSet
  BY <1>0, <1>1 DEF Credentials, GroupTypes, CredentialSet
<1>4. GroupTypes'
  <2>1. net' = (net \ {}) \cup {[to |-> n, cred |-> Credentials(m)] : n \in Members \ {m}}
    BY <1>1 DEF HeartbeatsOf
  <2>2. /\ net' \in SUBSET [to : Members, cred : CredentialSet]
        /\ \E b \in Nat : \A h \in net' : h.cred.inc <= b
    BY <1>0, <1>3, <2>1, SentTypes
  <2>3. hbTimer' \in [Members -> Int]
    BY <1>0, <1>1 DEF GroupTypes
  <2> QED
    BY <1>0, <1>1, <2>2, <2>3 DEF GroupTypes
<1>5. hbTimer'[m] = Heartbeat /\ \A x \in Members \ {m} : Stays(x)
  BY <1>0, <1>1 DEF Stays, GroupTypes
<1>6. Sound(m)'
  <2>1. /\ up'[m] = up[m] /\ running'[m] = running[m] /\ state'[m] = state[m]
        /\ inc'[m] = inc[m] /\ next'[m] = next[m] /\ ip'[m] = ip[m]
        /\ hears'[m] = hears[m] /\ toTimer'[m] = toTimer[m]
    BY <1>1
  <2>2. hbTimer'[m] >= 0 /\ hbTimer'[m] <= Heartbeat
    BY <1>5
  <2> QED
    BY <1>0, <1>2, <2>1, <2>2 DEF Sound
<1>7. \A x \in Members : Incumbent(x)' <=> Incumbent(x)
  BY <1>1 DEF Incumbent
<1>8. Pending(m)' = Pending(m)
  BY <1>1 DEF Pending, HeartbeatsOf
<1>9. Unchallenged(m)'
  BY <1>1, <1>3, <1>7, <1>8 DEF Unchallenged, GroupInv
<1>10. ASSUME NEW x \in Members \ {m}
       PROVE  /\ Beaten(x) => Beaten(x)'
              /\ Unchallenged(x)'
              /\ Announced(x, m)' /\ Respected(x, m)'
              /\ Announced(m, x)' /\ Respected(m, x)'
              /\ Incumbent(m)' => ~Incumbent(x)
  <2> DEFINE g == [to |-> x, cred |-> Credentials(m)]
  <2>1. Pending(x)' = Pending(x) \cup {g}
    BY <1>1 DEF Pending, HeartbeatsOf
  <2>2. g.cred = Credentials(m)
    OBVIOUS
  <2> HIDE DEF g
  <2>3. Beaten(x) => Beaten(x)'
    BY <1>3, <2>1 DEF Beaten
  <2>4. Over(m, x) => Beaten(x)'
    BY <1>3, <2>1, <2>2 DEF Beaten, Over
  <2>5. (Over(x, m)' <=> Over(x, m)) /\ (Over(m, x)' <=> Over(m, x))
    BY <1>1, <1>3 DEF Over
  <2>6. Announced(x, m) /\ Respected(x, m) /\ Announced(m, x) /\ Respected(m, x)
    BY DEF GroupInv
  <2>7. Beaten(m)' <=> Beaten(m)
    BY <1>3, <1>8 DEF Beaten
  <2>8. hbTimer'[x] = hbTimer[x]
    BY <1>5 DEF Stays
  <2>9. Announced(x, m)' /\ Respected(x, m)'
    BY <1>1, <1>7, <2>5, <2>6, <2>7, <2>8 DEF Announced, Respected
  <2>10. Over(m, x) /\ Incumbent(x) => toTimer[m] > 0
    BY <1>0, <1>1, <2>6 DEF Announced, Incumbent, GroupTypes
  <2>11. Announced(m, x)'
    BY <1>1, <1>7, <2>4, <2>5, <2>10 DEF Announced
  <2>12. Respected(m, x)'
    BY <1>1, <1>7, <2>4, <2>5, <2>6 DEF Respected
  <2>13. Incumbent(m)' => ~Incumbent(x)
    BY <1>7 DEF GroupInv
  <2>14. Incumbent(x) /\ Better(Credentials(m), Credentials(x)) =>
            Credentials(m).weight > weight[x]
    <3> SUFFICES ASSUME Incumbent(x), Better(Credentials(m), Credentials(x))
                 PROVE  Credentials(m).weight > weight[x]
      OBVIOUS
    <3>1. Over(m, x)
      BY <1>2 DEF Over, Incumbent
    <3>2. ~(inc[m] > 0)
      BY <2>6, <3>1 DEF Respected
    <3>3. inc[x] > 0
      BY <1>0 DEF Sound, Incumbent
    <3>4. inc[m] \in Nat /\ inc[x] \in Nat
      BY <1>0 DEF GroupTypes
    <3>5. ~(inc[m] > inc[x]) /\ inc[m] # inc[x]
      BY <3>2, <3>3, <3>4
    <3> QED
      BY <3>5 DEF Better, Credentials
  <2>15. Unchallenged(x)'
    <3>1. Unchallenged(x) /\ weight'[x] = weight[x]
      BY <1>1 DEF GroupInv
    <3> QED
      BY <1>3, <1>7, <2>1, <2>2, <2>14, <3>1 DEF Unchallenged
  <2> QED
    BY <2>3, <2>9, <2>11, <2>12, <2>13, <2>15
<1> QED
  BY <1>4, <1>5, <1>6, <1>9, <1>10, StepOfOne

(* A member that takes over beats everybody it could be confused with: those   *)
(* that beat it have not been elected and will be heard before they are, and  *)
(* all others are beaten at once.                                           *)
LEMMA GroupElection ==
    ASSUME GroupInv, Calm, NEW m \in Members, toTimer[m] = 0, ~Beaten(m),
           BecomeActive(m, Pending(m)),
           UNCHANGED <<up, running, weight, ip, hears, next>>
    PROVE  GroupInv'
<1> USE FtAssumption DEF NoTimer
<1>0. GroupTypes /\ \A x \in Members : Sound(x)
  BY DEF GroupInv
<1> DEFINE c == [Credentials(m) EXCEPT !.inc = next[m]]
<1>1. running[m]
  BY <1>0 DEF Sound
<1>2. /\ state' = [state EXCEPT ![m] = "ACTIVE"]
      /\ inc' = [inc EXCEPT ![m] = next[m]]
      /\ hbTimer' = [hbTimer EXCEPT ![m] = Heartbeat]
      /\ toTimer' = [toTimer EXCEPT ![m] = NoTimer]
      /\ net' = (net \ Pending(m)) \cup {[to |-> n, cred |-> c] : n \in Members \ {m}}
  <2>1. hbTimer[m] # NoTimer
    BY <1>0, <1>1 DEF Sound, GroupTypes
  <2> QED
    BY <2>1 DEF BecomeActive
<1>3. /\ state'[m] = "ACTIVE" /\ inc'[m] = next[m] /\ hbTimer'[m] = Heartbeat
      /\ toTimer'[m] = NoTimer
      /\ \A x \in Members \ {m} : Stays(x)
  BY <1>0, <1>2 DEF GroupTypes, Stays
<1>4. /\ c = Credentials(m)' /\ c \in CredentialSet
      /\ c.weight = weight[m] /\ c.inc = next[m] /\ c.ip = ip[m] /\ c.pid = Pid[m]
  BY <1>0, <1>3 DEF Credentials, CredentialSet, GroupTypes
<1> HIDE DEF c
<1>5. GroupTypes'
  <2>1. /\ net' \in SUBSET [to : Members, cred : CredentialSet]
        /\ \E b \in Nat : \A h \in net' : h.cred.inc <= b
    BY <1>0, <1>2, <1>4, SentTypes
  <2>2. /\ state' \in [Members -> States] /\ inc' \in [Members -> Nat]
        /\ hbTimer' \in [Members -> Int] /\ toTimer' \in [Members -> Int]
    BY <1>0, <1>2 DEF GroupTypes, States
  <2> QED
    BY <1>0, <2>1, <2>2 DEF GroupTypes
<1>6. Sound(m)'
  <2>1. /\ up'[m] = up[m] /\ running'[m] = running[m] /\ next'[m] = next[m]
        /\ ip'[m] = ip[m] /\ hears'[m] = hears[m] /\ next[m] \in Nat
    BY <1>0 DEF GroupTypes
  <2>2. Sound(m)
    BY <1>0
  <2>3. hears'[m] = running'[m] /\ running'[m] /\ up'[m] /\ ip'[m] = IP[m]
    BY <1>1, <2>1, <2>2 DEF Sound
  <2>4. next'[m] > 0 /\ inc'[m] <= next'[m] /\ inc'[m] > 0
    BY <1>1, <1>3, <2>1, <2>2 DEF Sound
  <2>5. hbTimer'[m] >= 0 /\ hbTimer'[m] <= Heartbeat /\ toTimer'[m] >= NoTimer
    BY <1>3
  <2> QED
    BY <1>3, <2>3, <2>4, <2>5 DEF Sound
<1>7. Unchallenged(m)'
  <2>1. Pending(m)' = {}
    BY <1>2 DEF Pending
  <2> QED
    BY <2>1 DEF Unchallenged
<1>8. ASSUME NEW x \in Members \ {m}
      PROVE  /\ Beaten(x) => Beaten(x)'
             /\ Unchallenged(x)'
             /\ Announced(x, m)' /\ Respected(x, m)'
             /\ Announced(m, x)' /\ Respected(m, x)'
             /\ Incumbent(m)' => ~Incumbent(x)
  <2>0. Sound(x) /\ Sound(m) /\ hbTimer[x] \in Int /\ hbTimer[m] \in Int
    BY <1>0 DEF GroupTypes
  <2>1. Announced(x, m) /\ Respected(x, m) /\ Announced(m, x) /\ Respected(m, x)
    BY DEF GroupInv
  <2>2. Over(x, m) => hbTimer[x] < toTimer[x] /\ ~(inc[x] > 0)
    BY <2>0, <2>1 DEF Announced, Respected, Over, Sound
  <2>3. ~Incumbent(x)
    <3> SUFFICES ASSUME Incumbent(x) PROVE FALSE
      OBVIOUS
    <3>1. running[x] /\ toTimer[x] = NoTimer /\ inc[x] > 0
      BY <2>0 DEF Incumbent, Sound
    <3>2. ~Over(x, m)
      BY <2>2, <3>1
    <3>3. ~Over(m, x)
      BY <1>1, <2>0, <2>1, <3>1 DEF Announced, Sound
    <3> QED
      BY <1>0, <1>1, <3>1, <3>2, <3>3, RunningOrder
  <2>4. Stays(x) /\ ~Incumbent(x)' /\ Credentials(x)' = Credentials(x)
    BY <1>3, <2>3, StaysSound
  <2>5. Over(x, m)' => Over(x, m)
    <3>1. inc[m] <= next[m] /\ inc[m] \in Nat /\ next[m] \in Nat
          /\ Credentials(x) \in CredentialSet
      BY <1>0, <1>1 DEF Sound, GroupTypes, Credentials, CredentialSet
    <3>2. Better(Credentials(x), c) => Better(Credentials(x), Credentials(m))
      <4>1. /\ Credentials(m).weight = weight[m] /\ Credentials(m).inc = inc[m]
            /\ Credentials(m).ip = ip[m] /\ Credentials(m).pid = Pid[m]
        BY DEF Credentials
      <4>2. Credentials(x).inc \in Nat
        BY <3>1 DEF CredentialSet
      <4>3. Credentials(x).inc > next[m] => Credentials(x).inc > inc[m]
        BY <3>1, <4>2
      <4>4. Credentials(x).inc = next[m] =>
              Credentials(x).inc > inc[m] \/ Credentials(x).inc = inc[m]
        BY <3>1, <4>2
      <4> QED
        BY <1>4, <4>1, <4>3, <4>4 DEF Better
    <3> QED
      BY <1>1, <1>4, <2>4, <3>2 DEF Over, Stays
  <2>6. Announced(x, m)' /\ Respected(x, m)'
    <3>1. inc'[x] = inc[x] /\ hbTimer'[x] = hbTimer[x] /\ toTimer'[x] = toTimer[x]
      BY <2>4 DEF Stays
    <3> QED
      BY <2>2, <2>5, <3>1 DEF Announced, Respected
  <2> DEFINE g == [to |-> x, cred |-> c]
  <2>7. Pending(x)' = Pending(x) \cup {g}
    BY <1>2 DEF Pending
  <2>8. g.cred = Credentials(m)'
    BY <1>4
  <2> HIDE DEF g
  <2>9. Beaten(x) => Beaten(x)'
    BY <2>4, <2>7 DEF Beaten
  <2>10. Over(m, x)' => Beaten(x)'
    BY <2>7, <2>8 DEF Over, Beaten
  <2>11. Announced(m, x)' /\ Respected(m, x)'
    BY <2>4, <2>10 DEF Announced, Respected
  <2>12. Unchallenged(x)'
    BY <2>4 DEF Unchallenged
  <2> QED
    BY <2>3, <2>6, <2>9, <2>11, <2>12
<1> QED
  BY <1>3, <1>5, <1>6, <1>7, <1>8, StepOfOne

(* A timeout. *)
LEMMA GroupTimeout ==
    ASSUME GroupInv, Calm, NEW m \in Members, TimeoutTimer(m)
    PROVE  GroupInv'
<1> USE FtAssumption DEF NoTimer
<1>0. GroupTypes /\ Sound(m) /\ toTimer[m] = 0
  BY DEF GroupInv, TimeoutTimer
<1>1. running[m]
  BY <1>0 DEF Sound
<1>2. UNCHANGED <<up, running, weight, ip, hears>>
  BY DEF TimeoutTimer
<1>3. CASE Beaten(m)
  <2>1. CheckHeartbeats(m, Pending(m)) /\ net' = net \ Pending(m) /\ inc' = inc /\ hbTimer' = hbTimer
    BY <1>3 DEF TimeoutTimer, Calm, Beaten
  <2>2. PICK g \in Pending(m) : Better(g.cred, Credentials(m))
    BY <1>3 DEF Beaten
  <2>3. Pending(m) \in SUBSET net
    BY DEF Pending
  <2>4. /\ next' \in [Members -> Nat] /\ next'[m] >= next[m]
        /\ \A x \in Members \ {m} : /\ next'[x] = next[x] /\ state'[x] = state[x]
                                    /\ toTimer'[x] = toTimer[x]
        /\ state' \in [Members -> States] /\ state'[m] = "STANDBY"
        /\ toTimer' \in [Members -> Int]
        /\ \/ toTimer'[m] = Timeout
           \/ state[m] = "STANDBY" /\ toTimer[m] = NoTimer
    BY <1>0, <2>1, <2>2, <2>3, CheckTypes
  <2>5. GroupTypes'
    BY <1>0, <1>2, <2>1, <2>4 DEF GroupTypes
  <2>6. Defers(m)
    BY <1>0, <1>2, <2>1, <2>4 DEF Defers
  <2>7. \A x \in Members \ {m} : Stays(x)
    BY <1>2, <2>1, <2>4 DEF Stays
  <2>8. \A x \in Members \ {m} : Pending(x)' = Pending(x)
    BY <2>1 DEF Pending
  <2> QED
    BY <1>1, <2>5, <2>6, <2>7, <2>8, DeferStep
<1>4. CASE ~Beaten(m) /\ state[m] # "ACTIVE"
  <2>1. BecomeActive(m, Pending(m)) /\ next' = next
    BY <1>4 DEF TimeoutTimer, Calm, Beaten
  <2> QED
    BY <1>0, <1>2, <1>4, <2>1, GroupElection
<1>5. CASE ~Beaten(m) /\ state[m] = "ACTIVE"
  <2>1. /\ toTimer' = [toTimer EXCEPT ![m] = Timeout] /\ net' = net \ Pending(m)
        /\ UNCHANGED <<state, inc, next, hbTimer>>
    BY <1>5 DEF TimeoutTimer, Calm, Beaten
  <2>2. GroupTypes'
    <3>1. toTimer' \in [Members -> Int]
      BY <1>0, <2>1 DEF GroupTypes
    <3> QED
      BY <1>0, <1>2, <2>1, <3>1 DEF GroupTypes
  <2>3. inc[m] = 0
    BY <1>0, <1>1, <1>5 DEF Sound, GroupTypes
  <2>4. Defers(m)
    BY <1>0, <1>2, <2>1, <2>3 DEF Defers, GroupTypes
  <2>5. \A x \in Members \ {m} : Stays(x)
    BY <1>0, <1>2, <2>1 DEF Stays, GroupTypes
  <2>6. \A x \in Members \ {m} : Pending(x)' = Pending(x)
    BY <2>1 DEF Pending
  <2> QED
    BY <1>1, <2>2, <2>4, <2>5, <2>6, DeferStep
<1> QED
  BY <1>3, <1>4, <1>5

(* No member runs after mamaFtMember_setup, and nothing is in flight. *)
LEMMA GroupInit == Calm /\ Init => GroupInv
<1> SUFFICES ASSUME Calm, Init PROVE GroupInv
  OBVIOUS
<1> USE FtAssumption DEF Init, NoTimer
<1>1. GroupTypes
  <2>1. \E b \in Nat : \A h \in net : h.cred.inc <= b
    <3>1. 0 \in Nat /\ \A h \in net : h.cred.inc <= 0
      OBVIOUS
    <3> QED
      BY <3>1
  <2> QED
    BY <2>1 DEF GroupTypes, States, Calm
<1>2. \A m \in Members : ~running[m] /\ Sound(m)
  BY DEF Sound, Calm
<1>3. \A m \in Members : ~Incumbent(m) /\ Unchallenged(m)
  BY <1>2 DEF Incumbent, Unchallenged
<1>4. \A m, n \in Members : Announced(n, m) /\ Respected(n, m)
  BY <1>2 DEF Announced, Respected, Over
<1> QED
  BY <1>1, <1>2, <1>3, <1>4 DEF GroupInv

(* losses counts the losses there cannot be. *)
CalmInv == GroupInv /\ losses = 0

(* Every step of a calm group keeps the invariant. *)
LEMMA GroupStep == Calm /\ CalmInv /\ [Next]_vars => CalmInv'
<1> SUFFICES ASSUME Calm, CalmInv, [Next]_vars PROVE CalmInv'
  OBVIOUS
<1>0. GroupInv /\ losses = 0
  BY DEF CalmInv
<1>1. CASE UNCHANGED vars
  BY <1>0, <1>1 DEF CalmInv, vars, GroupInv, GroupTypes, Sound, Unchallenged, Announced, Respected,
     Over, Incumbent, Beaten, Pending, Credentials
<1>2. ASSUME NEW m \in Members, HeartbeatTimer(m) PROVE CalmInv'
  BY <1>0, <1>2, GroupHeartbeat DEF CalmInv, HeartbeatTimer
<1>3. ASSUME NEW m \in Members, TimeoutTimer(m) PROVE CalmInv'
  BY <1>0, <1>3, GroupTimeout DEF CalmInv, TimeoutTimer
<1>4. ASSUME NEW m \in Members, NEW h \in net, Receive(m, h) PROVE CalmInv'
  BY <1>0, <1>4, GroupReceive DEF CalmInv, Receive
<1>5. ASSUME NEW m \in Members, Activate(m) PROVE CalmInv'
  BY <1>0, <1>5, GroupActivate DEF CalmInv, Activate
<1>6. ASSUME NEW m \in Members, Deactivate(m) \/ Crash(m) \/ Restart(m) PROVE CalmInv'
  <2>1. GroupInv'
    BY <1>0, <1>6, GroupCalls
  <2>2. losses' = losses
    BY <1>6 DEF Deactivate, Crash, Restart
  <2> QED
    BY <1>0, <2>1, <2>2 DEF CalmInv
<1>7. CASE Tick
  BY <1>0, <1>7, GroupTick DEF CalmInv, Tick
<1>8. ~\E h \in net : Lose(h)
  BY <1>0, FtAssumption DEF Lose, Calm
<1>9. Weights = {}
  BY DEF Calm
<1> QED
  BY <1>1, <1>2, <1>3, <1>4, <1>5, <1>6, <1>7, <1>8, <1>9 DEF Next, Callback, Call

(* A running member is ACTIVE by election exactly when it has no timeout. *)
LEMMA ElectedIncumbent ==
    ASSUME GroupInv, NEW m \in Members, running[m], state[m] = "ACTIVE", inc[m] > 0
    PROVE  Incumbent(m)
  BY DEF GroupInv, Sound, Incumbent

(* No two running members hold the ACTIVE role they were elected to, in a      *)
(* calm group of any size with any weights, through any number of crashes,   *)
(* restarts, activations and deactivations.                                *)
THEOREM ElectsOne == ASSUME Calm PROVE Spec => []OneIncumbent
<1>1. CalmInv => OneIncumbent
  BY ElectedIncumbent DEF CalmInv, GroupInv, OneIncumbent
<1>2. Init => CalmInv
  BY GroupInit DEF CalmInv, Init
<1>3. CalmInv /\ [Next]_vars => CalmInv'
  BY GroupStep
<1> QED
  BY <1>1, <1>2, <1>3, PTL DEF Spec

(* In a calm group an elected member yields only to a heartbeat of higher       *)
(* weight.                                                                 *)
THEOREM ElectedStays == ASSUME Calm PROVE Spec => IncumbentStays
<1> DEFINE Step == \A m \in Members :
         running[m] /\ state[m] = "ACTIVE" /\ inc[m] > 0 /\ state'[m] = "STANDBY" =>
           \E h \in Pending(m) : h.cred.weight > weight[m]
<1>1. Init => CalmInv
  BY GroupInit DEF CalmInv, Init
<1>2. CalmInv /\ [Next]_vars => CalmInv'
  BY GroupStep
<1>3. CalmInv /\ [Next]_vars => Step
  <2> SUFFICES ASSUME CalmInv, [Next]_vars, NEW m \in Members,
                      running[m], state[m] = "ACTIVE", inc[m] > 0, state'[m] = "STANDBY"
               PROVE  \E h \in Pending(m) : h.cred.weight > weight[m]
    OBVIOUS
  <2>0. GroupTypes /\ Unchallenged(m) /\ Incumbent(m)
    BY ElectedIncumbent DEF CalmInv, GroupInv
  <2>1. Beaten(m)
    <3> SUFFICES ASSUME ~Beaten(m) PROVE FALSE
      OBVIOUS
    <3>1. state' # state
      OBVIOUS
    <3>2. ASSUME NEW n \in Members, NEW h \in net, Receive(n, h) PROVE FALSE
      <4>1. state' = [state EXCEPT ![n] = "STANDBY"] /\ CheckHeartbeats(n, {h})
        BY <3>1, <3>2 DEF Receive, CheckHeartbeats
      <4>2. n = m
        BY <2>0, <4>1 DEF GroupTypes
      <4>3. h \in Pending(m) /\ Better(h.cred, Credentials(m))
        BY <3>1, <3>2, <4>1, <4>2 DEF Receive, CheckHeartbeats
      <4> QED
        BY <4>3 DEF Beaten
    <3>3. ASSUME NEW n \in Members, TimeoutTimer(n) PROVE FALSE
      <4>1. n # m
        BY <2>0, <3>3 DEF TimeoutTimer, Incumbent, NoTimer
      <4> QED
        BY <2>0, <3>3, <4>1 DEF TimeoutTimer, CheckHeartbeats, BecomeActive, GroupTypes
    <3>4. ASSUME NEW n \in Members, Restart(n) PROVE FALSE
      BY <2>0, <3>4 DEF Restart, GroupTypes
    <3>5. \E n \in Members : \/ \E h \in net : Receive(n, h)
                             \/ TimeoutTimer(n) \/ Restart(n)
      BY <3>1 DEF Next, Callback, Call, HeartbeatTimer, Activate, Deactivate, Crash,
         SetWeight, Lose, Tick, vars
    <3> QED
      BY <3>2, <3>3, <3>4, <3>5
  <2> QED
    BY <2>0, <2>1 DEF Beaten, Unchallenged
<1>4. CalmInv /\ [Next]_vars => [Step]_vars
  BY <1>3
<1> QED
  BY <1>1, <1>2, <1>4, PTL DEF Spec, IncumbentStays
=============================================================================
