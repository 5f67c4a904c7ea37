--------------------------- MODULE ThrottleProofs ---------------------------
(* The throttle's limit, its order and its timer, for any number of         *)
(* threads, actions and rates.                                             *)
EXTENDS Throttle, SelectionProofs

(* What the counters of one callback say at each point of the callback:     *)
(* every action it ran was counted in mMsgsSentThisInterval before, and     *)
(* that counter was below a quota seen during this callback.                *)
BurstInv ==
    /\ rate \in Rates
    /\ interval \in {1, 10}
    /\ quota \in Nat
    /\ sent \in Nat
    /\ burst \in Nat
    /\ allow \in Nat
    /\ pc \in [Threads -> Labels]
    /\ quota <= allow
    /\ burst <= allow
    /\ pc[Timer] \in {"drain", "drainPop", "runDrain", "size"} => burst = 0
    /\ pc[Timer] \in {"killTimer", "quota", "runQuota"} => burst <= sent
    /\ pc[Timer] = "pop" => burst < sent /\ sent <= allow

(* wombatThrottle_setRate computes a quota that is a natural number. *)
LEMMA QuotaNat ==
    ASSUME NEW r \in Nat, NEW i \in {1, 10}
    PROVE  Quota(r, i) \in Nat
<1>1. r \div 10 \in Nat
  OBVIOUS
<1>2. (r * i) \div 100 \in Int
  OBVIOUS
<1> QED
  BY <1>1, <1>2 DEF Quota, Larger

(* No quota has been used before the first callback. *)
LEMMA BurstInit == Init => BurstInv
<1> SUFFICES ASSUME Init PROVE BurstInv
  OBVIOUS
<1>1. InitialRate \in Rates /\ InitialRate \in Nat
  BY ThrottleAssumption
<1>2. Interval(InitialRate, 1) \in {1, 10}
  BY DEF Interval
<1>3. Quota(InitialRate, 1) \in Nat
  BY <1>1, QuotaNat
<1>4. Timer \in Threads
  BY DEF Threads
<1> QED
  BY <1>1, <1>2, <1>3, <1>4 DEF Init, BurstInv, Labels

(* Every step keeps the counters consistent. *)
LEMMA BurstStep == BurstInv /\ [Next]_vars => BurstInv'
<1> SUFFICES ASSUME BurstInv, [Next]_vars PROVE BurstInv'
  OBVIOUS
<1> USE DEF BurstInv, GoTo, Labels, config, cycle
<1>0. /\ Timer \in Threads
      /\ \A t \in App : t \in Threads /\ t # Timer
      /\ \A r \in Rates : r \in Nat
  BY ThrottleAssumption DEF Threads
<1>1. CASE UNCHANGED vars
  BY <1>1 DEF vars
<1>2. ASSUME NEW t \in App, NEW r \in Rates, SetRate(t, r) PROVE BurstInv'
  BY <1>0, <1>2 DEF SetRate
<1>3. ASSUME NEW t \in App, SetQuota(t) PROVE BurstInv'
  <2>1. interval' \in {1, 10}
    BY <1>3 DEF SetQuota, Interval
  <2>2. Quota(rate, interval') \in Nat
    BY <1>0, <2>1, QuotaNat
  <2>3. quota' \in Nat
    BY <1>3, <2>2 DEF SetQuota
  <2>4. allow' \in Nat /\ quota' <= allow' /\ allow <= allow'
    BY <1>3, <2>3 DEF SetQuota, Larger
  <2> QED
    BY <1>0, <1>3, <2>1, <2>3, <2>4 DEF SetQuota
<1>4. ASSUME NEW t \in App, NEW m \in Msgs, DispatchCall(t, m) PROVE BurstInv'
  BY <1>0, <1>4 DEF DispatchCall
<1>5. ASSUME NEW t \in App, DispatchLock(t) \/ DispatchTimer(t) PROVE BurstInv'
  BY <1>0, <1>5 DEF DispatchLock, DispatchTimer
<1>6. ASSUME NEW t \in App, DispatchPush(t) PROVE BurstInv'
  BY <1>0, <1>6 DEF DispatchPush
<1>7. ASSUME NEW t \in Threads, NEW S \in SUBSET Msgs, RemoveMessages(t, S) PROVE BurstInv'
  BY <1>7 DEF RemoveMessages
<1>8. ASSUME NEW t \in App, Destroy(t) PROVE BurstInv'
  BY <1>8 DEF Destroy
<1>9. ASSUME NEW m \in Msgs, NestedDispatch(m) PROVE BurstInv'
  BY <1>9 DEF NestedDispatch
<1>10. CASE Fire
  BY <1>0, <1>10 DEF Fire
<1>11. CASE Drain \/ DrainPop
  BY <1>0, <1>11 DEF Drain, DrainPop, Pop
<1>12. CASE Size
  BY <1>0, <1>12 DEF Size
<1>13. CASE KillTimer
  BY <1>0, <1>13 DEF KillTimer
<1>14. CASE CheckQuota
  BY <1>0, <1>14 DEF CheckQuota
<1>15. CASE SendQueuedMessage
  BY <1>0, <1>15 DEF SendQueuedMessage, Pop
<1>16. CASE RunEnd
  BY <1>0, <1>16 DEF RunEnd, Running
<1>17. CASE SetInterval
  BY <1>17 DEF SetInterval
<1> QED
  BY <1>0, <1>1, <1>2, <1>3, <1>4, <1>5, <1>6, <1>7, <1>8, <1>9, <1>10, <1>11,
     <1>12, <1>13, <1>14, <1>15, <1>16, <1>17
  DEF Next, Call, Continue, Callback

(* wombatThrottle_dispatchMessagesUntilQuota runs no more actions in one    *)
(* timer callback than the largest quota set during the callback.           *)
THEOREM QuotaIsALimit == Spec => []BurstWithinQuota
<1>1. BurstInv => BurstWithinQuota
  BY DEF BurstInv, BurstWithinQuota
<1> QED
  BY <1>1, BurstInit, BurstStep, PTL DEF Spec

-----------------------------------------------------------------------------
(* The list and the actions pushed to its back. *)

OnList(q, m) == \E i \in DOMAIN q : q[i] = m

(* The list holds each queued action once; what was pushed to the back was   *)
(* pushed once, is queued, run or removed, and is on the list in that order;  *)
(* what ran had nothing before it.                                          *)
Ordered(q, p, f) ==
    /\ q \in Seq(Msgs) /\ p \in Seq(Msgs)
    /\ f \in [Msgs -> {"new", "calling", "queued", "ran", "removed", "failed"}]
    /\ \A m \in Msgs : f[m] = "queued" <=> OnList(q, m)
    /\ \A i, j \in DOMAIN q : q[i] = q[j] => i = j
    /\ \A i \in DOMAIN p : p[i] \notin Immediate /\ f[p[i]] \in {"queued", "ran", "removed"}
    /\ \A i, j \in DOMAIN p : \A a, b \in DOMAIN q :
         i < j /\ q[a] = p[i] /\ q[b] = p[j] => a < b
    /\ \A i, j \in DOMAIN p :
         i < j /\ f[p[j]] = "ran" => f[p[i]] \in {"ran", "removed"}

(* A thread in wombatThrottle_dispatch has an action of its own, which is     *)
(* nowhere else yet.                                                        *)
CallInv ==
    /\ pc \in [Threads -> Labels]
    /\ arg \in [Threads -> Msgs \cup {NoMsg}]
    /\ \A t \in Threads : arg[t] # NoMsg => fate[arg[t]] = "calling"
    /\ \A t \in Threads : pc[t] \in {"dispatchLock", "dispatchTimer", "dispatchPush"} =>
         /\ arg[t] # NoMsg
         /\ \A u \in Threads : arg[u] = arg[t] => u = t

OrderInv == Ordered(queue, pushed, fate) /\ CallInv

(* list_push_back of an action that is nowhere yet. *)
LEMMA BackOrdered ==
    ASSUME NEW q, NEW p, NEW f, Ordered(q, p, f), NEW m \in Msgs \ Immediate,
           f[m] \in {"new", "calling"}
    PROVE  Ordered(Append(q, m), Append(p, m), [f EXCEPT ![m] = "queued"])
<1> DEFINE qq == Append(q, m)
           pp == Append(p, m)
           ff == [f EXCEPT ![m] = "queued"]
<1>1. /\ Len(q) \in Nat /\ qq \in Seq(Msgs) /\ DOMAIN q = 1 .. Len(q)
      /\ DOMAIN qq = 1 .. Len(q) + 1 /\ qq[Len(q) + 1] = m
      /\ \A i \in DOMAIN q : qq[i] = q[i]
  BY DEF Ordered
<1>2. /\ Len(p) \in Nat /\ pp \in Seq(Msgs) /\ DOMAIN p = 1 .. Len(p)
      /\ DOMAIN pp = 1 .. Len(p) + 1 /\ pp[Len(p) + 1] = m
      /\ \A i \in DOMAIN p : pp[i] = p[i]
  BY DEF Ordered
<1>3. /\ ff \in [Msgs -> {"new", "calling", "queued", "ran", "removed", "failed"}]
      /\ ff[m] = "queued" /\ \A n \in Msgs : n # m => ff[n] = f[n]
  BY DEF Ordered
<1>4. ~OnList(q, m) /\ ~OnList(p, m)
  BY DEF Ordered, OnList
<1> HIDE DEF qq, pp, ff
<1>5. ASSUME NEW n \in Msgs PROVE ff[n] = "queued" <=> OnList(qq, n)
  <2>1. CASE n = m
    BY <1>1, <1>3, <2>1 DEF OnList
  <2>2. CASE n # m
    <3>1. OnList(qq, n) => OnList(q, n)
      BY <1>1, <2>2 DEF OnList
    <3>2. OnList(q, n) => OnList(qq, n)
      BY <1>1 DEF OnList
    <3> QED
      BY <1>3, <2>2, <3>1, <3>2 DEF Ordered
  <2> QED
    BY <2>1, <2>2
<1>6. \A i, j \in DOMAIN qq : qq[i] = qq[j] => i = j
  BY <1>1, <1>4 DEF Ordered, OnList
<1>7. \A i \in DOMAIN p : p[i] \in Msgs /\ p[i] # m
  BY <1>4 DEF Ordered, OnList
<1>8. \A i \in DOMAIN pp : pp[i] \notin Immediate /\ ff[pp[i]] \in {"queued", "ran", "removed"}
  BY <1>2, <1>3, <1>7 DEF Ordered
<1>9. ASSUME NEW i \in DOMAIN pp, NEW j \in DOMAIN pp, NEW a \in DOMAIN qq, NEW b \in DOMAIN qq,
             i < j, qq[a] = pp[i], qq[b] = pp[j]
      PROVE  a < b
  <2>1. i \in DOMAIN p /\ pp[i] = p[i] /\ p[i] # m
    BY <1>2, <1>7, <1>9
  <2>2. a \in DOMAIN q /\ qq[a] = q[a]
    BY <1>1, <1>9, <2>1
  <2>3. CASE pp[j] = m
    <3>1. b = Len(q) + 1
      BY <1>1, <1>4, <1>9, <2>3 DEF OnList
    <3> QED
      BY <1>1, <2>2, <3>1
  <2>4. CASE pp[j] # m
    <3>1. j \in DOMAIN p /\ pp[j] = p[j] /\ b \in DOMAIN q /\ qq[b] = q[b]
      BY <1>1, <1>2, <1>9, <2>4
    <3> QED
      BY <1>9, <2>1, <2>2, <3>1 DEF Ordered
  <2> QED
    BY <2>3, <2>4
<1>10. \A i, j \in DOMAIN pp :
         i < j /\ ff[pp[j]] = "ran" => ff[pp[i]] \in {"ran", "removed"}
  BY <1>2, <1>3, <1>7 DEF Ordered
<1> QED
  BY <1>1, <1>2, <1>3, <1>5, <1>6, <1>8, <1>9, <1>10 DEF Ordered, qq, pp, ff

(* list_push_front of an immediate action. *)
LEMMA FrontOrdered ==
    ASSUME NEW q, NEW p, NEW f, Ordered(q, p, f), NEW m \in Msgs \cap Immediate,
           f[m] \in {"new", "calling"}
    PROVE  Ordered(<<m>> \o q, p, [f EXCEPT ![m] = "queued"])
<1> DEFINE qq == <<m>> \o q
           ff == [f EXCEPT ![m] = "queued"]
<1>1. /\ Len(q) \in Nat /\ qq \in Seq(Msgs) /\ DOMAIN q = 1 .. Len(q)
      /\ DOMAIN qq = 1 .. Len(q) + 1 /\ qq[1] = m
      /\ \A i \in DOMAIN qq : i # 1 => i - 1 \in DOMAIN q /\ qq[i] = q[i - 1]
      /\ \A i \in DOMAIN q : i + 1 \in DOMAIN qq /\ qq[i + 1] = q[i]
  BY DEF Ordered
<1>3. /\ ff \in [Msgs -> {"new", "calling", "queued", "ran", "removed", "failed"}]
      /\ ff[m] = "queued" /\ \A n \in Msgs : n # m => ff[n] = f[n]
  BY DEF Ordered
<1>4. ~OnList(q, m) /\ \A i \in DOMAIN p : p[i] \in Msgs /\ p[i] # m
  BY DEF Ordered, OnList
<1> HIDE DEF qq, ff
<1>5. ASSUME NEW n \in Msgs PROVE ff[n] = "queued" <=> OnList(qq, n)
  <2>1. CASE n = m
    BY <1>1, <1>3, <2>1 DEF OnList
  <2>2. CASE n # m
    <3>1. OnList(qq, n) => OnList(q, n)
      BY <1>1, <2>2 DEF OnList
    <3>2. OnList(q, n) => OnList(qq, n)
      BY <1>1 DEF OnList
    <3> QED
      BY <1>3, <2>2, <3>1, <3>2 DEF Ordered
  <2> QED
    BY <2>1, <2>2
<1>6. ASSUME NEW i \in DOMAIN qq, NEW j \in DOMAIN qq, qq[i] = qq[j] PROVE i = j
  <2>1. \A k \in DOMAIN qq : qq[k] = m => k = 1
    BY <1>1, <1>4 DEF OnList
  <2>2. CASE i = 1 \/ j = 1
    BY <1>1, <1>6, <2>1, <2>2
  <2>3. CASE i # 1 /\ j # 1
    <3>1. i - 1 \in DOMAIN q /\ j - 1 \in DOMAIN q /\ q[i - 1] = q[j - 1]
      BY <1>1, <1>6, <2>3
    <3>2. i - 1 = j - 1
      BY <3>1 DEF Ordered
    <3> QED
      BY <1>1, <3>2
  <2> QED
    BY <2>2, <2>3
<1>8. \A i \in DOMAIN p : p[i] \notin Immediate /\ ff[p[i]] \in {"queued", "ran", "removed"}
  BY <1>3, <1>4 DEF Ordered
<1>9. ASSUME NEW i \in DOMAIN p, NEW j \in DOMAIN p, NEW a \in DOMAIN qq, NEW b \in DOMAIN qq,
             i < j, qq[a] = p[i], qq[b] = p[j]
      PROVE  a < b
  <2>1. a # 1 /\ b # 1
    BY <1>1, <1>4, <1>9
  <2>2. a - 1 \in DOMAIN q /\ b - 1 \in DOMAIN q /\ q[a - 1] = p[i] /\ q[b - 1] = p[j]
    BY <1>1, <1>9, <2>1
  <2>3. a - 1 < b - 1
    BY <1>9, <2>2 DEF Ordered
  <2> QED
    BY <1>1, <2>3
<1>10. \A i, j \in DOMAIN p :
         i < j /\ ff[p[j]] = "ran" => ff[p[i]] \in {"ran", "removed"}
  BY <1>3, <1>4 DEF Ordered
<1> QED
  BY <1>1, <1>3, <1>5, <1>6, <1>8, <1>9, <1>10 DEF Ordered, qq, ff

(* The first action of the list runs. *)
LEMMA PopOrdered ==
    ASSUME NEW q, NEW p, NEW f, Ordered(q, p, f), q # <<>>
    PROVE  Ordered(Tail(q), p, [f EXCEPT ![Head(q)] = "ran"])
<1> DEFINE qq == Tail(q)
           m == Head(q)
           ff == [f EXCEPT ![m] = "ran"]
<1>1. /\ Len(q) \in Nat /\ Len(q) > 0 /\ qq \in Seq(Msgs) /\ DOMAIN q = 1 .. Len(q)
      /\ DOMAIN qq = 1 .. Len(q) - 1 /\ q[1] = m /\ m \in Msgs
      /\ \A i \in DOMAIN qq : i + 1 \in DOMAIN q /\ qq[i] = q[i + 1]
      /\ \A i \in DOMAIN q : i # 1 => i - 1 \in DOMAIN qq /\ qq[i - 1] = q[i]
  BY DEF Ordered
<1>3. /\ ff \in [Msgs -> {"new", "calling", "queued", "ran", "removed", "failed"}]
      /\ ff[m] = "ran" /\ \A n \in Msgs : n # m => ff[n] = f[n]
  BY <1>1 DEF Ordered
<1>0. \A i \in DOMAIN p : p[i] \in Msgs
  BY DEF Ordered
<1> HIDE DEF qq, ff, m
<1>4. ~OnList(qq, m)
  BY <1>1 DEF Ordered, OnList
<1>5. ASSUME NEW n \in Msgs PROVE ff[n] = "queued" <=> OnList(qq, n)
  <2>1. CASE n = m
    BY <1>3, <1>4, <2>1
  <2>2. CASE n # m
    <3>1. OnList(qq, n) => OnList(q, n)
      BY <1>1 DEF OnList
    <3>2. OnList(q, n) => OnList(qq, n)
      BY <1>1, <2>2 DEF OnList
    <3> QED
      BY <1>3, <2>2, <3>1, <3>2 DEF Ordered
  <2> QED
    BY <2>1, <2>2
<1>6. \A i, j \in DOMAIN qq : qq[i] = qq[j] => i = j
  BY <1>1 DEF Ordered
<1>8. \A i \in DOMAIN p : p[i] \notin Immediate /\ ff[p[i]] \in {"queued", "ran", "removed"}
  BY <1>0, <1>3 DEF Ordered
<1>9. ASSUME NEW i \in DOMAIN p, NEW j \in DOMAIN p, NEW a \in DOMAIN qq, NEW b \in DOMAIN qq,
             i < j, qq[a] = p[i], qq[b] = p[j]
      PROVE  a < b
  <2>1. a + 1 \in DOMAIN q /\ b + 1 \in DOMAIN q /\ q[a + 1] = p[i] /\ q[b + 1] = p[j]
    BY <1>1, <1>9
  <2>2. a + 1 < b + 1
    BY <1>9, <2>1 DEF Ordered
  <2> QED
    BY <1>1, <2>2
<1>10. ASSUME NEW i \in DOMAIN p, NEW j \in DOMAIN p, i < j, ff[p[j]] = "ran"
       PROVE  ff[p[i]] \in {"ran", "removed"}
  <2>1. CASE p[j] # m
    <3>1. f[p[j]] = "ran"
      BY <1>0, <1>3, <1>10, <2>1
    <3>2. f[p[i]] \in {"ran", "removed"}
      BY <1>10, <3>1 DEF Ordered
    <3> QED
      BY <1>0, <1>3, <3>2
  <2>2. CASE p[j] = m
    <3>1. ASSUME f[p[i]] = "queued", p[i] # m PROVE FALSE
      <4>1. PICK a \in DOMAIN q : q[a] = p[i]
        BY <1>0, <3>1 DEF Ordered, OnList
      <4>2. 1 \in DOMAIN q /\ q[1] = p[j]
        BY <1>1, <2>2
      <4>3. a < 1
        BY <1>10, <4>1, <4>2 DEF Ordered
      <4> QED
        BY <1>1, <4>1, <4>3
    <3> QED
      BY <1>0, <1>3, <1>8, <3>1
  <2> QED
    BY <2>1, <2>2
<1> QED
  BY <1>1, <1>3, <1>5, <1>6, <1>8, <1>9, <1>10 DEF Ordered, qq, m, ff

(* Some actions are taken out of the list. *)
LEMMA RemovalOrdered ==
    ASSUME NEW q, NEW p, NEW f, Ordered(q, p, f), NEW S \in SUBSET Msgs,
           \A m \in S : f[m] = "queued"
    PROVE  Ordered(At(q, {i \in DOMAIN q : q[i] \notin S}), p,
                   [m \in Msgs |-> IF m \in S THEN "removed" ELSE f[m]])
<1> DEFINE K == {i \in DOMAIN q : q[i] \notin S}
           qq == At(q, K)
           ff == [m \in Msgs |-> IF m \in S THEN "removed" ELSE f[m]]
<1>0. /\ q \in Seq(Msgs) /\ K \in SUBSET (1 .. Len(q)) /\ Len(q) \in Nat
      /\ DOMAIN q = 1 .. Len(q) /\ \A i \in DOMAIN p : p[i] \in Msgs
  BY DEF Ordered
<1>1. /\ ff \in [Msgs -> {"new", "calling", "queued", "ran", "removed", "failed"}]
      /\ \A m \in S : ff[m] = "removed"
      /\ \A m \in Msgs : m \notin S => ff[m] = f[m]
  BY DEF Ordered
<1>2. \A i \in K : i \in DOMAIN q /\ q[i] \notin S
  OBVIOUS
<1>3. \A i \in DOMAIN q : q[i] \notin S => i \in K
  OBVIOUS
<1> HIDE DEF K
<1>4. qq \in Seq(Msgs) /\ Len(qq) = Cardinality(K) /\ Cardinality(K) \in Nat
  BY <1>0, AtKeeps
<1> DEFINE g == Origin(K)
<1>5. /\ \A k \in 1 .. Cardinality(K) : g[k] \in K /\ qq[k] = q[g[k]]
      /\ \A k, l \in 1 .. Cardinality(K) : k < l => g[k] < g[l]
      /\ \A i \in K : \E k \in 1 .. Cardinality(K) : g[k] = i
  BY <1>0, AtKeeps
<1> HIDE DEF qq, ff, g
<1> DEFINE D == DOMAIN qq
<1>6. /\ \A k \in D : k \in Int /\ g[k] \in DOMAIN q /\ q[g[k]] \notin S /\ qq[k] = q[g[k]]
      /\ \A k, l \in D : k < l => g[k] < g[l]
      /\ \A i \in DOMAIN q : q[i] \notin S => \E k \in D : g[k] = i
  <2>1. D = 1 .. Cardinality(K)
    BY <1>4
  <2>2. \A k \in D : g[k] \in K
    BY <1>5, <2>1
  <2> QED
    BY <1>2, <1>3, <1>4, <1>5, <2>1, <2>2
<1> HIDE DEF D
<1>7. ASSUME NEW n \in Msgs PROVE ff[n] = "queued" <=> OnList(qq, n)
  <2>1. OnList(qq, n) => OnList(q, n) /\ n \notin S
    BY <1>6 DEF OnList, D
  <2>2. OnList(q, n) /\ n \notin S => OnList(qq, n)
    BY <1>6 DEF OnList, D
  <2>3. f[n] = "queued" <=> OnList(q, n)
    BY DEF Ordered
  <2> QED
    BY <1>1, <2>1, <2>2, <2>3
<1>8. ASSUME NEW i \in D, NEW j \in D, qq[i] = qq[j] PROVE i = j
  <2>1. g[i] = g[j]
    BY <1>6, <1>8 DEF Ordered
  <2>2. g[i] \in Int /\ g[j] \in Int
    BY <1>0, <1>6
  <2>3. ~(i < j) /\ ~(j < i)
    BY <1>6, <2>1, <2>2
  <2> QED
    BY <1>6, <2>3
<1>9. \A i \in DOMAIN p : p[i] \notin Immediate /\ ff[p[i]] \in {"queued", "ran", "removed"}
  BY <1>0, <1>1 DEF Ordered
<1>10. ASSUME NEW i \in DOMAIN p, NEW j \in DOMAIN p, NEW a \in D, NEW b \in D,
              i < j, qq[a] = p[i], qq[b] = p[j]
       PROVE  a < b
  <2>1. g[a] \in DOMAIN q /\ g[b] \in DOMAIN q /\ q[g[a]] = p[i] /\ q[g[b]] = p[j]
    BY <1>6, <1>10
  <2>2. g[a] < g[b]
    BY <1>10, <2>1 DEF Ordered
  <2>3. g[a] \in Int /\ g[b] \in Int
    BY <1>0, <2>1
  <2>4. a # b /\ ~(b < a)
    BY <1>6, <2>2, <2>3
  <2> QED
    BY <1>6, <2>4
<1>11. ASSUME NEW i \in DOMAIN p, NEW j \in DOMAIN p, i < j, ff[p[j]] = "ran"
       PROVE  ff[p[i]] \in {"ran", "removed"}
  <2>1. f[p[j]] = "ran"
    BY <1>0, <1>1, <1>11
  <2>2. f[p[i]] \in {"ran", "removed"}
    BY <1>11, <2>1 DEF Ordered
  <2> QED
    BY <1>0, <1>1, <2>2
<1> QED
  BY <1>0, <1>1, <1>4, <1>7, <1>8, <1>9, <1>10, <1>11 DEF Ordered, K, qq, ff, D

(* An action that is not on the list is called, run or lost. *)
LEMMA ElsewhereOrdered ==
    ASSUME NEW q, NEW p, NEW f, Ordered(q, p, f), NEW m \in Msgs,
           f[m] \in {"new", "calling"}, NEW v \in {"calling", "ran", "failed"}
    PROVE  Ordered(q, p, [f EXCEPT ![m] = v])
<1> DEFINE ff == [f EXCEPT ![m] = v]
<1>1. /\ ff \in [Msgs -> {"new", "calling", "queued", "ran", "removed", "failed"}]
      /\ ff[m] = v /\ \A n \in Msgs : n # m => ff[n] = f[n]
  BY DEF Ordered
<1>2. ~OnList(q, m) /\ \A i \in DOMAIN p : p[i] \in Msgs /\ p[i] # m
  BY DEF Ordered, OnList
<1> HIDE DEF ff
<1>3. \A n \in Msgs : ff[n] = "queued" <=> OnList(q, n)
  BY <1>1, <1>2 DEF Ordered
<1>4. \A i \in DOMAIN p : ff[p[i]] = f[p[i]]
  BY <1>1, <1>2
<1> QED
  BY <1>1, <1>3, <1>4 DEF Ordered, ff

(* The list is emptied. *)
LEMMA EmptyOrdered ==
    ASSUME NEW q, NEW p, NEW f, Ordered(q, p, f)
    PROVE  Ordered(<<>>, p, [m \in Msgs |-> IF f[m] = "queued" THEN "removed" ELSE f[m]])
<1> DEFINE ff == [m \in Msgs |-> IF f[m] = "queued" THEN "removed" ELSE f[m]]
<1>1. /\ ff \in [Msgs -> {"new", "calling", "queued", "ran", "removed", "failed"}]
      /\ \A m \in Msgs : ff[m] # "queued"
      /\ \A m \in Msgs : ff[m] = f[m] \/ (f[m] = "queued" /\ ff[m] = "removed")
  BY DEF Ordered
<1>2. \A i \in DOMAIN p : p[i] \in Msgs
  BY DEF Ordered
<1> HIDE DEF ff
<1>3. \A i \in DOMAIN p : p[i] \notin Immediate /\ ff[p[i]] \in {"queued", "ran", "removed"}
  BY <1>1, <1>2 DEF Ordered
<1>4. ASSUME NEW i \in DOMAIN p, NEW j \in DOMAIN p, i < j, ff[p[j]] = "ran"
      PROVE  ff[p[i]] \in {"ran", "removed"}
  <2>1. f[p[j]] = "ran"
    BY <1>1, <1>2, <1>4
  <2>2. f[p[i]] \in {"ran", "removed"}
    BY <1>4, <2>1 DEF Ordered
  <2> QED
    BY <1>1, <1>2, <2>2
<1>5. <<>> \in Seq(Msgs) /\ DOMAIN <<>> = {}
  OBVIOUS
<1> QED
  BY <1>1, <1>3, <1>4, <1>5 DEF Ordered, OnList, ff

(* Pushing an action that is nowhere yet. *)
LEMMA PushOrdered ==
    ASSUME Ordered(queue, pushed, fate), NEW m \in Msgs, fate[m] \in {"new", "calling"}, Push(m)
    PROVE  Ordered(queue, pushed, fate)'
<1>1. CASE m \in Immediate
  BY <1>1, FrontOrdered DEF Push
<1>2. CASE m \notin Immediate
  BY <1>2, BackOrdered DEF Push
<1> QED
  BY <1>1, <1>2

(* Nothing has been dispatched at first. *)
LEMMA OrderInit == Init => OrderInv
<1> SUFFICES ASSUME Init PROVE OrderInv
  OBVIOUS
<1>1. <<>> \in Seq(Msgs) /\ DOMAIN <<>> = {}
  OBVIOUS
<1>2. Ordered(queue, pushed, fate)
  BY <1>1 DEF Init, Ordered, OnList
<1>3. CallInv
  BY DEF Init, CallInv, Labels
<1> QED
  BY <1>2, <1>3 DEF OrderInv

(* Every step keeps the order, and the actions of its callers apart. *)
LEMMA OrderStep == OrderInv /\ [Next]_vars => OrderInv'
<1> SUFFICES ASSUME OrderInv, [Next]_vars PROVE OrderInv'
  OBVIOUS
<1> USE DEF OrderInv, GoTo, config, cycle
<1>0. /\ Timer \in Threads
      /\ \A t \in App : t \in Threads /\ t # Timer
      /\ NoMsg \notin Msgs
  BY ThrottleAssumption DEF Threads
<1>a. fate \in [Msgs -> {"new", "calling", "queued", "ran", "removed", "failed"}]
  BY DEF Ordered
<1>1. CASE UNCHANGED vars
  BY <1>1 DEF vars, CallInv
<1>2. ASSUME NEW t \in App, NEW r \in Rates, SetRate(t, r) PROVE OrderInv'
  <2>1. CallInv'
    BY <1>0, <1>2 DEF SetRate, CallInv, Labels
  <2> QED
    BY <1>2, <2>1 DEF SetRate
<1>3. ASSUME NEW t \in App, SetQuota(t) PROVE OrderInv'
  <2>1. CallInv'
    BY <1>0, <1>3 DEF SetQuota, CallInv, Labels
  <2> QED
    BY <1>3, <2>1 DEF SetQuota
<1>4. ASSUME NEW t \in App, NEW m \in Msgs, DispatchCall(t, m) PROVE OrderInv'
  <2>1. Ordered(queue, pushed, fate)'
    <3>1. \E v \in {"calling", "ran", "failed"} : fate' = [fate EXCEPT ![m] = v]
      BY <1>4 DEF DispatchCall
    <3>2. queue' = queue /\ pushed' = pushed /\ fate[m] \in {"new", "calling"}
      BY <1>4 DEF DispatchCall
    <3>3. PICK v \in {"calling", "ran", "failed"} : fate' = [fate EXCEPT ![m] = v]
      BY <3>1
    <3>4. Ordered(queue, pushed, [fate EXCEPT ![m] = v])
      BY <3>2, ElsewhereOrdered
    <3> QED
      BY <3>2, <3>3, <3>4
  <2>2. CASE rate = 0
    <3>1. CallInv'
      BY <1>0, <1>4, <1>a, <2>2 DEF DispatchCall, CallInv
    <3> QED
      BY <2>1, <3>1
  <2>3. CASE rate # 0
    <3>1. /\ pc' = [pc EXCEPT ![t] = "dispatchLock"] /\ arg' = [arg EXCEPT ![t] = m]
          /\ fate' = [fate EXCEPT ![m] = "calling"] /\ fate[m] = "new"
      BY <1>4, <2>3 DEF DispatchCall
    <3>2. pc' \in [Threads -> Labels] /\ arg' \in [Threads -> Msgs \cup {NoMsg}]
      BY <1>0, <3>1 DEF CallInv, Labels
    <3>3. /\ fate'[m] = "calling" /\ \A n \in Msgs : n # m => fate'[n] = fate[n]
          /\ pc'[t] = "dispatchLock" /\ arg'[t] = m
          /\ \A u \in Threads : u # t => pc'[u] = pc[u] /\ arg'[u] = arg[u]
      BY <1>0, <1>a, <3>1 DEF CallInv
    <3>4. \A u \in Threads : arg[u] # m
      BY <1>0, <3>1 DEF CallInv
    <3>5. \A u \in Threads : arg'[u] # NoMsg => fate'[arg'[u]] = "calling"
      BY <3>3, <3>4 DEF CallInv
    <3>6. ASSUME NEW u \in Threads,
                 pc'[u] \in {"dispatchLock", "dispatchTimer", "dispatchPush"}
          PROVE  arg'[u] # NoMsg /\ \A w \in Threads : arg'[w] = arg'[u] => w = u
      BY <1>0, <3>3, <3>4, <3>6 DEF CallInv
    <3> QED
      BY <2>1, <3>2, <3>5, <3>6 DEF CallInv
  <2> QED
    BY <2>2, <2>3
<1>5. ASSUME NEW t \in App, DispatchLock(t) \/ DispatchTimer(t) PROVE OrderInv'
  <2>1. UNCHANGED <<queue, pushed, fate, arg>>
    BY <1>5 DEF DispatchLock, DispatchTimer
  <2>2. CallInv'
    BY <1>0, <1>5, <2>1 DEF DispatchLock, DispatchTimer, CallInv, Labels
  <2> QED
    BY <2>1, <2>2
<1>6. ASSUME NEW t \in App, DispatchPush(t) PROVE OrderInv'
  <2>1. arg[t] \in Msgs /\ fate[arg[t]] = "calling" /\ \A u \in Threads : arg[u] = arg[t] => u = t
    BY <1>0, <1>6 DEF DispatchPush, CallInv
  <2>2. Ordered(queue, pushed, fate)'
    <3>1. CASE Push(arg[t])
      BY <2>1, <3>1, PushOrdered
    <3>2. CASE fate' = [fate EXCEPT ![arg[t]] = "failed"] /\ UNCHANGED <<queue, pushed>>
      BY <2>1, <3>2, ElsewhereOrdered
    <3> QED
      BY <1>6, <3>1, <3>2 DEF DispatchPush
  <2>3. /\ pc' = [pc EXCEPT ![t] = "idle"] /\ arg' = [arg EXCEPT ![t] = NoMsg]
        /\ \A n \in Msgs : n # arg[t] => fate'[n] = fate[n]
    BY <1>6, <1>a DEF DispatchPush, Push
  <2>4. CallInv'
    BY <1>0, <2>1, <2>3 DEF CallInv, Labels
  <2> QED
    BY <2>2, <2>4
<1>7. ASSUME NEW t \in Threads, NEW S \in SUBSET Msgs, RemoveMessages(t, S) PROVE OrderInv'
  <2>1. \A m \in S : fate[m] = "queued"
    BY <1>7 DEF RemoveMessages, Queued
  <2>2. Ordered(queue, pushed, fate)'
    BY <1>7, <2>1, RemovalOrdered DEF RemoveMessages
  <2>3. CallInv'
    BY <1>7, <1>a, <2>1 DEF RemoveMessages, CallInv
  <2> QED
    BY <2>2, <2>3
<1>8. ASSUME NEW t \in App, Destroy(t) PROVE OrderInv'
  <2>1. Ordered(queue, pushed, fate)'
    BY <1>8, EmptyOrdered DEF Destroy
  <2>2. CallInv'
    BY <1>8, <1>a DEF Destroy, CallInv
  <2> QED
    BY <2>1, <2>2
<1>9. ASSUME NEW m \in Msgs, NestedDispatch(m) PROVE OrderInv'
  <2>1. Ordered(queue, pushed, fate)'
    <3>1. CASE Push(m)
      BY <1>9, <3>1, PushOrdered DEF NestedDispatch
    <3>2. CASE fate' = [fate EXCEPT ![m] = "ran"] /\ UNCHANGED <<queue, pushed>>
      BY <1>9, <3>2, ElsewhereOrdered DEF NestedDispatch
    <3> QED
      BY <1>9, <3>1, <3>2 DEF NestedDispatch
  <2>2. CallInv'
    BY <1>9, <1>a DEF NestedDispatch, Push, CallInv
  <2> QED
    BY <2>1, <2>2
<1>10. ASSUME NEW label \in {"runDrain", "runQuota"}, queue # <<>>, Pop(label),
              UNCHANGED <<arg, pushed>>
       PROVE  OrderInv'
  <2>1. Ordered(queue, pushed, fate)'
    BY <1>10, PopOrdered DEF Pop
  <2>2. Head(queue) \in Msgs /\ fate[Head(queue)] = "queued"
    BY <1>10 DEF Ordered, OnList
  <2>3. CallInv'
    BY <1>0, <1>10, <1>a, <2>2 DEF Pop, CallInv, Labels
  <2> QED
    BY <2>1, <2>3
<1>11. CASE Fire \/ Drain \/ Size \/ KillTimer \/ CheckQuota \/ RunEnd
  <2>1. UNCHANGED <<queue, pushed, fate, arg>>
    BY <1>11 DEF Fire, Drain, Size, KillTimer, CheckQuota, RunEnd
  <2>2. \E label \in {"idle", "drain", "drainPop", "size", "killTimer", "quota", "pop"} :
          pc' = [pc EXCEPT ![Timer] = label]
    BY <1>11 DEF Fire, Drain, Size, KillTimer, CheckQuota, RunEnd
  <2>3. CallInv'
    BY <1>0, <2>1, <2>2 DEF CallInv, Labels
  <2> QED
    BY <2>1, <2>3
<1>12. CASE DrainPop
  <2>1. CASE queue = <<>>
    <3>1. CallInv'
      BY <1>0, <1>12, <2>1 DEF DrainPop, CallInv, Labels
    <3> QED
      BY <1>12, <2>1, <3>1 DEF DrainPop
  <2> QED
    BY <1>10, <1>12, <2>1 DEF DrainPop
<1>13. CASE SendQueuedMessage
  <2>1. CASE queue = <<>>
    <3>1. CallInv'
      BY <1>0, <1>13, <2>1 DEF SendQueuedMessage, CallInv, Labels
    <3> QED
      BY <1>13, <2>1, <3>1 DEF SendQueuedMessage
  <2> QED
    BY <1>10, <1>13, <2>1 DEF SendQueuedMessage
<1>14. CASE SetInterval
  BY <1>14 DEF SetInterval, CallInv
<1> QED
  BY <1>0, <1>1, <1>2, <1>3, <1>4, <1>5, <1>6, <1>7, <1>8, <1>9, <1>11, <1>12, <1>13, <1>14
  DEF Next, Call, Continue, Callback

(* wombatThrottle_dispatch and timerCB keep the order of the list: an action  *)
(* that was not dispatched as immediate never runs before one that was put   *)
(* on the list earlier, whoever dispatches, removes or changes the rate.     *)
THEOREM RunsInOrder == Spec => []FifoOrder
<1>1. OrderInv => FifoOrder
  BY DEF OrderInv, Ordered, FifoOrder
<1> QED
  BY <1>1, OrderInit, OrderStep, PTL DEF Spec

-----------------------------------------------------------------------------
(* The timer and the list. *)

Quotas == {Quota(r, i) : r \in Rates \ {0}, i \in {1, 10}}

Dispatching(t) == pc[t] \in {"dispatchTimer", "dispatchPush"}

(* Who holds the list's lock. *)
LockInv ==
    /\ pc \in [Threads -> Labels]
    /\ \A t \in App : Dispatching(t) => lock = t
    /\ Running => lock = Timer

(* The counters of a callback are exact: what it counted it ran. *)
CountInv ==
    /\ rate \in Rates /\ interval \in {1, 10} /\ quota \in Quotas
    /\ sent \in Nat /\ burst \in Nat
    /\ pc[Timer] \in {"drain", "drainPop", "runDrain", "size"} => burst = 0
    /\ pc[Timer] \in {"killTimer", "quota", "runQuota"} => burst = sent
    /\ pc[Timer] = "pop" => sent = burst + 1

(* There is a timer up to the step that destroys it; when there is none, and   *)
(* something is on the list or about to be, the callback that destroyed it is *)
(* still to look at the list, or has run a whole quota.                      *)
TimerInv ==
    /\ timer \in {0, 1, 10}
    /\ queue \in Seq(Msgs)
    /\ pc[Timer] \in {"drain", "drainPop", "runDrain", "size", "killTimer"} => timer # 0
    /\ timer = 0 /\ (queue # <<>> \/ \E t \in App : pc[t] = "dispatchPush") =>
         \/ pc[Timer] \in {"quota", "pop", "runQuota"}
         \/ pc[Timer] = "idle" /\ burst >= MinQuota

StrandInv == LockInv /\ CountInv /\ TimerInv

(* Every quota that can be set is at least MinQuota. *)
LEMMA QuotaAtLeast ==
    /\ Quotas \in SUBSET Nat /\ MinQuota \in Nat
    /\ \A x \in Quotas : MinQuota <= x
<1>1. Quotas \in SUBSET Nat
  BY QuotaNat, ThrottleAssumption DEF Quotas
<1>2. Quota(InitialRate, 1) \in Quotas
  BY ThrottleAssumption DEF Quotas
<1>3. \E x \in Quotas : \A y \in Quotas : x <= y
  BY <1>1, <1>2, Smallest
<1>4. MinQuota = CHOOSE x \in Quotas : \A y \in Quotas : x <= y
  BY DEF MinQuota, Quotas, Min
<1>5. MinQuota \in Quotas /\ \A y \in Quotas : MinQuota <= y
  BY <1>3, <1>4
<1> QED
  BY <1>1, <1>5

(* The first dispatch has yet to create the timer. *)
LEMMA StrandInit == Init => StrandInv
<1> SUFFICES ASSUME Init PROVE StrandInv
  OBVIOUS
<1>0. Timer \in Threads /\ \A t \in App : t \in Threads
  BY DEF Threads
<1>1. InitialRate \in Rates \ {0} /\ Interval(InitialRate, 1) \in {1, 10}
  BY ThrottleAssumption DEF Interval
<1>2. Quota(InitialRate, 1) \in Quotas
  BY <1>1 DEF Quotas
<1>3. LockInv
  BY <1>0 DEF Init, LockInv, Dispatching, Running, Labels
<1>4. CountInv
  BY <1>0, <1>1, <1>2 DEF Init, CountInv
<1>5. TimerInv
  BY <1>0 DEF Init, TimerInv
<1> QED
  BY <1>3, <1>4, <1>5 DEF StrandInv

(* The list's lock is held from list_lock to list_unlock. *)
LEMMA LockStep == LockInv /\ [Next]_vars => LockInv'
<1> SUFFICES ASSUME LockInv, [Next]_vars PROVE LockInv'
  OBVIOUS
<1> USE DEF LockInv, Dispatching, Running, GoTo, Labels, config, cycle
<1>0. /\ Timer \in Threads
      /\ \A t \in App : t \in Threads /\ t # Timer
      /\ \A t \in Threads : t # NoThread
  BY ThrottleAssumption DEF Threads
<1>1. CASE UNCHANGED vars
  BY <1>1 DEF vars
<1>2. ASSUME NEW t \in App, NEW r \in Rates, SetRate(t, r) PROVE LockInv'
  BY <1>0, <1>2 DEF SetRate
<1>3. ASSUME NEW t \in App, SetQuota(t) PROVE LockInv'
  BY <1>0, <1>3 DEF SetQuota
<1>4. ASSUME NEW t \in App, NEW m \in Msgs, DispatchCall(t, m) PROVE LockInv'
  BY <1>0, <1>4 DEF DispatchCall
<1>5. ASSUME NEW t \in App, DispatchLock(t) \/ DispatchTimer(t) PROVE LockInv'
  BY <1>0, <1>5 DEF DispatchLock, DispatchTimer
<1>6. ASSUME NEW t \in App, DispatchPush(t) PROVE LockInv'
  BY <1>0, <1>6 DEF DispatchPush
<1>7. ASSUME NEW t \in Threads, NEW S \in SUBSET Msgs, RemoveMessages(t, S) PROVE LockInv'
  BY <1>7 DEF RemoveMessages
<1>8. ASSUME NEW t \in App, Destroy(t) PROVE LockInv'
  BY <1>8 DEF Destroy
<1>9. ASSUME NEW m \in Msgs, NestedDispatch(m) PROVE LockInv'
  BY <1>9 DEF NestedDispatch
<1>10. CASE Fire
  BY <1>0, <1>10 DEF Fire
<1>11. CASE Drain \/ DrainPop
  BY <1>0, <1>11 DEF Drain, DrainPop, Pop
<1>12. CASE Size
  BY <1>0, <1>12 DEF Size
<1>13. CASE KillTimer
  BY <1>0, <1>13 DEF KillTimer
<1>14. CASE CheckQuota
  BY <1>0, <1>14 DEF CheckQuota
<1>15. CASE SendQueuedMessage
  BY <1>0, <1>15 DEF SendQueuedMessage, Pop
<1>16. CASE RunEnd
  BY <1>0, <1>16 DEF RunEnd
<1>17. CASE SetInterval
  BY <1>17 DEF SetInterval
<1> QED
  BY <1>0, <1>1, <1>2, <1>3, <1>4, <1>5, <1>6, <1>7, <1>8, <1>9, <1>10, <1>11,
     <1>12, <1>13, <1>14, <1>15, <1>16, <1>17
  DEF Next, Call, Continue, Callback

(* An action is counted in the step before the one that runs it. *)
LEMMA CountStep == LockInv /\ CountInv /\ [Next]_vars => CountInv'
<1> SUFFICES ASSUME LockInv, CountInv, [Next]_vars PROVE CountInv'
  OBVIOUS
<1> USE DEF CountInv, GoTo, config, cycle
<1>0. /\ Timer \in Threads /\ pc \in [Threads -> Labels]
      /\ \A t \in App : t \in Threads /\ t # Timer
  BY ThrottleAssumption DEF Threads, LockInv
<1>1. CASE UNCHANGED vars
  BY <1>1 DEF vars
<1>2. ASSUME NEW t \in App, NEW r \in Rates, SetRate(t, r) PROVE CountInv'
  BY <1>0, <1>2 DEF SetRate
<1>3. ASSUME NEW t \in App, SetQuota(t) PROVE CountInv'
  <2>1. interval' \in {1, 10}
    BY <1>3 DEF SetQuota, Interval
  <2>2. rate # 0 => Quota(rate, interval') \in Quotas
    BY <2>1 DEF Quotas
  <2>3. quota' \in Quotas
    BY <1>3, <2>2 DEF SetQuota
  <2> QED
    BY <1>0, <1>3, <2>1, <2>3 DEF SetQuota
<1>4. ASSUME NEW t \in App, NEW m \in Msgs, DispatchCall(t, m) PROVE CountInv'
  BY <1>0, <1>4 DEF DispatchCall
<1>5. ASSUME NEW t \in App, DispatchLock(t) \/ DispatchTimer(t) PROVE CountInv'
  BY <1>0, <1>5 DEF DispatchLock, DispatchTimer
<1>6. ASSUME NEW t \in App, DispatchPush(t) PROVE CountInv'
  BY <1>0, <1>6 DEF DispatchPush
<1>7. ASSUME NEW t \in Threads, NEW S \in SUBSET Msgs, RemoveMessages(t, S) PROVE CountInv'
  BY <1>7 DEF RemoveMessages
<1>8. ASSUME NEW t \in App, Destroy(t) PROVE CountInv'
  BY <1>8 DEF Destroy
<1>9. ASSUME NEW m \in Msgs, NestedDispatch(m) PROVE CountInv'
  BY <1>9 DEF NestedDispatch
<1>10. CASE Fire
  BY <1>0, <1>10 DEF Fire
<1>11. CASE Drain \/ DrainPop
  BY <1>0, <1>11 DEF Drain, DrainPop, Pop
<1>12. CASE Size
  BY <1>0, <1>12 DEF Size
<1>13. CASE KillTimer
  BY <1>0, <1>13 DEF KillTimer
<1>14. CASE CheckQuota
  BY <1>0, <1>14 DEF CheckQuota
<1>15. CASE SendQueuedMessage
  BY <1>0, <1>15 DEF SendQueuedMessage, Pop
<1>16. CASE RunEnd
  BY <1>0, <1>16 DEF RunEnd, Running
<1>17. CASE SetInterval
  BY <1>17 DEF SetInterval
<1> QED
  BY <1>0, <1>1, <1>2, <1>3, <1>4, <1>5, <1>6, <1>7, <1>8, <1>9, <1>10, <1>11,
     <1>12, <1>13, <1>14, <1>15, <1>16, <1>17
  DEF Next, Call, Continue, Callback

(* No step leaves something on the list without a timer or a callback that is  *)
(* still to look at it, but the end of a callback that ran its quota.         *)
LEMMA TimerStep == ~DestroyOverlap /\ StrandInv /\ OrderInv /\ [Next]_vars => TimerInv'
<1> SUFFICES ASSUME ~DestroyOverlap, StrandInv, OrderInv, [Next]_vars PROVE TimerInv'
  OBVIOUS
<1> USE DEF StrandInv, TimerInv, GoTo, config, cycle
<1>0. /\ Timer \in Threads /\ pc \in [Threads -> Labels]
      /\ \A t \in App : t \in Threads /\ t # Timer
      /\ interval \in {1, 10}
  BY ThrottleAssumption DEF Threads, LockInv, CountInv
<1>1. CASE UNCHANGED vars
  BY <1>1 DEF vars
<1>2. ASSUME NEW t \in App, NEW r \in Rates, SetRate(t, r) PROVE TimerInv'
  BY <1>0, <1>2 DEF SetRate
<1>3. ASSUME NEW t \in App, SetQuota(t) PROVE TimerInv'
  BY <1>0, <1>3 DEF SetQuota
<1>4. ASSUME NEW t \in App, NEW m \in Msgs, DispatchCall(t, m) PROVE TimerInv'
  BY <1>0, <1>4 DEF DispatchCall
<1>5. ASSUME NEW t \in App, DispatchLock(t) PROVE TimerInv'
  BY <1>0, <1>5 DEF DispatchLock
<1>18. ASSUME NEW t \in App, DispatchTimer(t) PROVE TimerInv'
  BY <1>0, <1>18 DEF DispatchTimer
<1>a. ASSUME NEW m \in Msgs, Push(m) PROVE queue' \in Seq(Msgs)
  BY <1>a DEF Push
<1>6. ASSUME NEW t \in App, DispatchPush(t) PROVE TimerInv'
  <2>0. arg[t] \in Msgs
    BY <1>0, <1>6 DEF DispatchPush, OrderInv, CallInv
  <2>1. queue' \in Seq(Msgs)
    BY <1>6, <1>a, <2>0 DEF DispatchPush
  <2>2. timer = 0 => \/ pc[Timer] \in {"quota", "pop", "runQuota"}
                     \/ pc[Timer] = "idle" /\ burst >= MinQuota
    BY <1>6 DEF DispatchPush
  <2>3. pc'[Timer] = pc[Timer] /\ burst' = burst /\ timer' = timer
    BY <1>0, <1>6 DEF DispatchPush
  <2> QED
    BY <2>1, <2>2, <2>3
<1>7. ASSUME NEW t \in Threads, NEW S \in SUBSET Msgs, RemoveMessages(t, S) PROVE TimerInv'
  <2> DEFINE K == {i \in DOMAIN queue : queue[i] \notin S}
  <2>1. K \in SUBSET (1 .. Len(queue)) /\ queue' = At(queue, K)
    BY <1>7 DEF RemoveMessages
  <2>2. queue' \in Seq(Msgs) /\ Len(queue') = Cardinality(K)
    BY <2>1, AtKeeps
  <2>3. queue = <<>> => queue' = <<>>
    <3> SUFFICES ASSUME queue = <<>> PROVE queue' = <<>>
      OBVIOUS
    <3>1. K = {}
      BY <2>1
    <3>2. Len(queue') = 0
      BY <2>2, <3>1, FS_EmptySet
    <3> QED
      BY <2>2, <3>2
  <2>4. UNCHANGED <<timer, pc, burst>>
    BY <1>7 DEF RemoveMessages
  <2> HIDE DEF K
  <2> QED
    BY <2>2, <2>3, <2>4
<1>8. ASSUME NEW t \in App, Destroy(t) PROVE TimerInv'
  BY <1>0, <1>8 DEF Destroy
<1>9. ASSUME NEW m \in Msgs, NestedDispatch(m) PROVE TimerInv'
  <2>1. CASE rate = 0
    BY <1>9, <2>1 DEF NestedDispatch
  <2>2. CASE rate # 0
    BY <1>0, <1>9, <1>a, <2>2 DEF NestedDispatch
  <2> QED
    BY <2>1, <2>2
<1>10. CASE Fire
  BY <1>0, <1>10 DEF Fire
<1>11. CASE Drain \/ DrainPop
  BY <1>0, <1>11 DEF Drain, DrainPop, Pop
<1>12. CASE Size
  BY <1>0, <1>12 DEF Size
<1>13. CASE KillTimer
  BY <1>0, <1>13 DEF KillTimer
<1>14. CASE CheckQuota
  <2>1. burst = sent /\ sent \in Nat /\ quota \in Nat /\ MinQuota \in Nat /\ MinQuota <= quota
    BY <1>14, QuotaAtLeast DEF CheckQuota, CountInv
  <2>2. sent >= quota => burst >= MinQuota
    BY <2>1
  <2>3. pc'[Timer] = IF sent < quota THEN "pop" ELSE "idle"
    BY <1>0, <1>14 DEF CheckQuota
  <2>4. pc'[Timer] = "pop" \/ (pc'[Timer] = "idle" /\ burst' >= MinQuota)
    BY <1>14, <2>1, <2>2, <2>3 DEF CheckQuota
  <2>5. UNCHANGED <<timer, queue>>
    BY <1>14 DEF CheckQuota
  <2> QED
    BY <2>4, <2>5
<1>15. CASE SendQueuedMessage
  <2>1. CASE queue = <<>>
    <3>1. \A t \in App : pc[t] # "dispatchPush"
      BY <1>0, <1>15, ThrottleAssumption DEF SendQueuedMessage, LockInv, Dispatching
    <3> QED
      BY <1>0, <1>15, <2>1, <3>1 DEF SendQueuedMessage
  <2>2. CASE queue # <<>>
    BY <1>0, <1>15, <2>2 DEF SendQueuedMessage, Pop
  <2> QED
    BY <2>1, <2>2
<1>16. CASE RunEnd
  BY <1>0, <1>16 DEF RunEnd, Running
<1>17. CASE SetInterval
  BY <1>17 DEF SetInterval
<1> QED
  BY <1>0, <1>1, <1>2, <1>3, <1>4, <1>5, <1>6, <1>7, <1>8, <1>9, <1>10, <1>11,
     <1>12, <1>13, <1>14, <1>15, <1>16, <1>17, <1>18
  DEF Next, Call, Continue, Callback

(* When destroy does not overlap a callback or a dispatch, wombatThrottle     *)
(* leaves actions on the list without a timer only after a callback that ran  *)
(* a whole quota: the window in which timerCB destroys a timer that dispatch  *)
(* relies on is closed by the quota loop that follows, up to its limit.       *)
THEOREM TimerOutlivesList ==
    ASSUME ~DestroyOverlap
    PROVE  Spec => []StrandedOnlyPastQuota
<1>1. StrandInv => StrandedOnlyPastQuota
  BY DEF StrandInv, TimerInv, StrandedOnlyPastQuota, Stranded
<1>2. StrandInv /\ OrderInv /\ [Next]_vars => StrandInv'
  BY LockStep, CountStep, TimerStep DEF StrandInv
<1> QED
  BY <1>1, <1>2, StrandInit, OrderInit, OrderStep, PTL DEF Spec
=============================================================================
