------------------------ MODULE NodeRegistryProofs ------------------------
(* Proofs about NodeRegistry for any sets of nodes, connections, sessions  *)
(* and invokes, and about NodeService for any set of lanes and of _syncs   *)
(* under way.                                                              *)
EXTENDS NodeService, SequenceTheorems, WellFoundedInduction, TLAPS

\* The types of sessions, invokes and subscriptions; the queues come later.
SessionType ==
  /\ nodesById \in [Nodes -> Session \cup {NoSession}]
  /\ nodesByConn \subseteq Conns
InvokeType ==
  /\ pending \subseteq Requests /\ timers \subseteq Requests
  /\ future \in [Requests -> Results \cup {"none", "unset", "timeout", "disconnected",
                                           "cancelled"}]
  /\ caller \in [Requests -> {"new", "refused", "waiting", "answer", "queued", "raised"}]
  /\ reported \in [Requests -> Results \cup {"unsent", "nothing"}]
SubscriptionType ==
  /\ nodeSessions \in [Nodes -> SUBSET Sessions]
  /\ sessionNodes \in [Sessions -> SUBSET Nodes]

\* How the future of an invoke, its caller and the node's report go together.
CallsMatch ==
  \A r \in Requests :
    /\ caller[r] \in {"new", "refused"} <=> future[r] = "none"
    /\ caller[r] \in {"new", "refused"} <=> reported[r] = "unsent"
    /\ future[r] = "cancelled" => caller[r] = "raised"
    /\ future[r] \in Results => reported[r] \in Results

RegInv ==
  /\ SessionType /\ InvokeType /\ SubscriptionType
  /\ CallsMatch /\ InvokesAreTracked /\ SessionsAreReachable /\ SubscriptionsMirror

\* A step that leaves sessions, invokes and subscriptions alone.
LEMMA RegInvStutter ==
  ASSUME RegInv, UNCHANGED <<sessionVars, invokeVars, subscriptionVars, reported>>
  PROVE  RegInv'
<1> USE DEF sessionVars, invokeVars, subscriptionVars
<1>1. SessionType' /\ InvokeType' /\ SubscriptionType'
  BY DEF RegInv, SessionType, InvokeType, SubscriptionType
<1>2. CallsMatch'
  BY DEF RegInv, CallsMatch
<1>3. InvokesAreTracked'
  BY DEF RegInv, InvokesAreTracked, Connected
<1>4. SessionsAreReachable' /\ SubscriptionsMirror'
  BY DEF RegInv, SessionsAreReachable, SubscriptionsMirror, Connected
<1> QED
  BY <1>1, <1>2, <1>3, <1>4 DEF RegInv

\* A step of one invoke: sessions and subscriptions stay, and what is left is
\* to be shown of the invokes alone.
LEMMA RegInvOfInvoke ==
  ASSUME RegInv, UNCHANGED <<sessionVars, subscriptionVars>>,
         InvokeType', CallsMatch', InvokesAreTracked'
  PROVE  RegInv'
<1> USE DEF sessionVars, subscriptionVars
<1>1. SessionType' /\ SubscriptionType'
  BY DEF RegInv, SessionType, SubscriptionType
<1>2. SessionsAreReachable' /\ SubscriptionsMirror'
  BY DEF RegInv, SessionsAreReachable, SubscriptionsMirror, Connected
<1> QED
  BY <1>1, <1>2 DEF RegInv

LEMMA RegInvInit == RegistryInit => RegInv
<1> SUFFICES ASSUME RegistryInit PROVE RegInv
  OBVIOUS
<1> USE NodeRegistryAssumption DEF RegistryInit
<1>1. SessionType /\ InvokeType /\ SubscriptionType
  BY DEF SessionType, InvokeType, SubscriptionType
<1>2. CallsMatch
  BY DEF CallsMatch, Results
<1>3. InvokesAreTracked
  BY DEF InvokesAreTracked
<1>4. SessionsAreReachable
  BY DEF SessionsAreReachable, Connected
<1>5. SubscriptionsMirror
  BY DEF SubscriptionsMirror
<1> QED
  BY <1>1, <1>2, <1>3, <1>4, <1>5 DEF RegInv

\* A node registers: on a connection of its own it stays reachable, and no
\* node loses its session.
LEMMA RegInvRegister ==
  ASSUME RegInv, NEW c \in Conns, NEW cmds \in SUBSET Commands, Register(c, cmds)
  PROVE  RegInv'
<1> USE NodeRegistryAssumption DEF Register, invokeVars, subscriptionVars
<1>0. Owner[c] \in Nodes /\ [conn |-> c, commands |-> cmds] \in Session
  BY DEF Session
<1>1. SessionType'
  BY <1>0 DEF RegInv, SessionType
<1>2. InvokeType' /\ SubscriptionType'
  BY DEF RegInv, InvokeType, SubscriptionType
<1>3. CallsMatch' /\ SubscriptionsMirror'
  BY DEF RegInv, CallsMatch, SubscriptionsMirror
<1>4. \A n \in Nodes : nodesById'[n] = IF n = Owner[c] THEN [conn |-> c, commands |-> cmds]
                                        ELSE nodesById[n]
  BY <1>0 DEF RegInv, SessionType
<1>5. [conn |-> c, commands |-> cmds] # NoSession
  BY DEF NoSession
<1>6. InvokesAreTracked'
  BY <1>4, <1>5 DEF RegInv, InvokesAreTracked, Connected, InvokeType
<1>7. SessionsAreReachable'
  BY <1>4 DEF RegInv, SessionsAreReachable, Connected
<1> QED
  BY <1>1, <1>2, <1>3, <1>6, <1>7 DEF RegInv

\* A node loses its session, and with it what was pending and subscribed.
LEMMA RegInvUnregister ==
  ASSUME RegInv, NEW c \in Conns, Unregister(c)
  PROVE  RegInv'
<1> USE NodeRegistryAssumption DEF Unregister, Lose
<1> DEFINE gone == Owner[c]
           failed == {r \in pending : Target[r] = gone}
<1>0. gone \in Nodes
  OBVIOUS
<1>1. SessionType'
  BY <1>0 DEF RegInv, SessionType
<1>2. InvokeType'
  BY DEF RegInv, InvokeType
<1>3. SubscriptionType'
  BY DEF RegInv, SubscriptionType
<1>4. \A n \in Nodes : nodesById'[n] = IF n = gone THEN NoSession ELSE nodesById[n]
  BY <1>0 DEF RegInv, SessionType
<1>5. \A r \in Requests : future'[r] = IF r \in failed /\ future[r] = "unset"
                                        THEN "disconnected" ELSE future[r]
  OBVIOUS
<1>6. pending' = pending \ failed /\ timers' = timers \ failed
  OBVIOUS
<1>7. CallsMatch'
  BY <1>5 DEF RegInv, CallsMatch, Results
<1>8. InvokesAreTracked'
  <2>1. \A r \in Requests : future'[r] = "unset" => r \in pending'
    BY <1>5, <1>6 DEF RegInv, InvokesAreTracked
  <2>2. pending' = timers'
    BY <1>6 DEF RegInv, InvokesAreTracked
  <2>3. ASSUME NEW r \in pending'
        PROVE  Connected(Target[r])' /\ future'[r] \in {"unset", "cancelled"}
    <3>1. r \in pending /\ Target[r] # gone /\ r \in Requests /\ Target[r] \in Nodes
      BY <1>6, <2>3 DEF RegInv, InvokeType
    <3>2. Connected(Target[r]) /\ future[r] \in {"unset", "cancelled"}
      BY <3>1 DEF RegInv, InvokesAreTracked
    <3>3. future'[r] = future[r]
      BY <1>5, <3>1
    <3>4. nodesById'[Target[r]] = nodesById[Target[r]]
      BY <1>4, <3>1
    <3> QED
      BY <3>2, <3>3, <3>4 DEF Connected
  <2> QED
    BY <2>1, <2>2, <2>3 DEF InvokesAreTracked
<1>9. SessionsAreReachable'
  BY <1>4 DEF RegInv, SessionsAreReachable, Connected
<1>10. SubscriptionsMirror'
  BY DEF RegInv, SubscriptionsMirror, SubscriptionType
<1> QED
  BY <1>1, <1>2, <1>3, <1>7, <1>8, <1>9, <1>10 DEF RegInv

\* An invoke begins: it is tracked from the moment its request is sent.
LEMMA RegInvInvoke ==
  ASSUME RegInv, NEW r \in Requests, Invoke(r)
  PROVE  RegInv'
<1> USE DEF Invoke
<1>1. r \notin pending
  BY DEF RegInv, CallsMatch, InvokesAreTracked
<1>2. InvokeType'
  BY DEF RegInv, InvokeType
<1>3. CallsMatch'
  BY DEF RegInv, CallsMatch, InvokeType, Results
<1>4. InvokesAreTracked'
  BY <1>1 DEF RegInv, InvokesAreTracked, InvokeType, Connected, sessionVars
<1> QED
  BY <1>2, <1>3, <1>4, RegInvOfInvoke

LEMMA RegInvRefused ==
  ASSUME RegInv, NEW r \in Requests, InvokeRefused(r)
  PROVE  RegInv'
<1> USE DEF InvokeRefused
<1>1. InvokeType'
  BY DEF RegInv, InvokeType
<1>2. CallsMatch'
  BY DEF RegInv, CallsMatch, InvokeType
<1>3. InvokesAreTracked'
  BY DEF RegInv, InvokesAreTracked, Connected, sessionVars
<1> QED
  BY <1>1, <1>2, <1>3, RegInvOfInvoke

\* An invoke is settled, by its timer or by a result: the future that was
\* unset is no longer so, and its entry is gone with its timer.
LEMMA RegInvTimer ==
  ASSUME RegInv, NEW r \in Requests, TimerFires(r)
  PROVE  RegInv'
<1> USE DEF TimerFires, Settle
<1>1. InvokeType'
  BY DEF RegInv, InvokeType
<1>2. CallsMatch'
  BY DEF RegInv, CallsMatch, InvokeType, Results
<1>3. InvokesAreTracked'
  BY DEF RegInv, InvokesAreTracked, InvokeType, Connected, sessionVars
<1> QED
  BY <1>1, <1>2, <1>3, RegInvOfInvoke

LEMMA RegInvResult ==
  ASSUME RegInv, NEW r \in Requests, NEW result \in Results, HandleInvokeResult(r, result)
  PROVE  RegInv'
<1> USE DEF HandleInvokeResult, Settle
<1>1. InvokeType'
  BY DEF RegInv, InvokeType
<1>2. CallsMatch'
  BY DEF RegInv, CallsMatch, InvokeType, Results
<1>3. InvokesAreTracked'
  BY DEF RegInv, InvokesAreTracked, InvokeType, Connected, sessionVars, Results
<1> QED
  BY <1>1, <1>2, <1>3, RegInvOfInvoke

\* A cancelled caller leaves its entry to the timer.
LEMMA RegInvCancel ==
  ASSUME RegInv, NEW r \in Requests, CancelCaller(r)
  PROVE  RegInv'
<1> USE DEF CancelCaller
<1>1. InvokeType'
  BY DEF RegInv, InvokeType
<1>2. CallsMatch'
  BY DEF RegInv, CallsMatch, InvokeType, Results
<1>3. InvokesAreTracked'
  BY DEF RegInv, InvokesAreTracked, InvokeType, Connected, sessionVars
<1> QED
  BY <1>1, <1>2, <1>3, RegInvOfInvoke

LEMMA RegInvResume ==
  ASSUME RegInv, NEW r \in Requests, Resume(r)
  PROVE  RegInv'
<1> USE DEF Resume
<1>1. InvokeType'
  BY DEF RegInv, InvokeType
<1>2. CallsMatch'
  BY DEF RegInv, CallsMatch, InvokeType
<1>3. InvokesAreTracked'
  BY DEF RegInv, InvokesAreTracked, Connected, sessionVars
<1> QED
  BY <1>1, <1>2, <1>3, RegInvOfInvoke

\* Subscriptions change in both maps at once.
LEMMA RegInvSubscribe ==
  ASSUME RegInv, NEW n \in Nodes, NEW s \in Sessions, Subscribe(n, s) \/ Unsubscribe(n, s)
  PROVE  RegInv'
<1> USE DEF Subscribe, Unsubscribe, sessionVars, invokeVars
<1>1. SessionType' /\ InvokeType'
  BY DEF RegInv, SessionType, InvokeType
<1>2. SubscriptionType'
  BY DEF RegInv, SubscriptionType
<1>3. CallsMatch'
  BY DEF RegInv, CallsMatch
<1>4. InvokesAreTracked'
  BY DEF RegInv, InvokesAreTracked, Connected
<1>5. SessionsAreReachable'
  BY DEF RegInv, SessionsAreReachable, Connected
<1>6. SubscriptionsMirror'
  BY DEF RegInv, SubscriptionsMirror, SubscriptionType
<1> QED
  BY <1>1, <1>2, <1>3, <1>4, <1>5, <1>6 DEF RegInv

LEMMA RegInvNext == RegInv /\ [RegistryNext]_registryVars => RegInv'
<1> SUFFICES ASSUME RegInv, [RegistryNext]_registryVars PROVE RegInv'
  OBVIOUS
<1>1. CASE \E c \in Conns : (\E cmds \in SUBSET Commands : Register(c, cmds))
                            \/ Unregister(c)
  BY <1>1, RegInvRegister, RegInvUnregister
<1>2. CASE InvokeNext
  BY <1>2, RegInvRefused, RegInvInvoke, RegInvTimer, RegInvCancel, RegInvResume,
     RegInvResult DEF InvokeNext
<1>3. CASE QueueNext
  <2>1. PICK n \in Nodes :
          \/ GrowOld(n) \/ Peek(n) \/ Pull(n)
          \/ \E ids \in SUBSET IdsOf(actions[n]) : Ack(n, ids)
          \/ \E s \in Sessions : Subscribe(n, s) \/ Unsubscribe(n, s)
    BY <1>3 DEF QueueNext
  <2>2. CASE \E s \in Sessions : Subscribe(n, s) \/ Unsubscribe(n, s)
    BY <2>2, RegInvSubscribe
  <2>3. CASE GrowOld(n)
    BY <2>3, RegInvStutter DEF GrowOld
  <2>4. CASE Peek(n)
    BY <2>4, RegInvStutter DEF Peek
  <2>5. CASE Pull(n)
    BY <2>5, RegInvStutter DEF Pull
  <2>6. CASE \E ids \in SUBSET IdsOf(actions[n]) : Ack(n, ids)
    BY <2>6, RegInvStutter DEF Ack
  <2> QED
    BY <2>1, <2>2, <2>3, <2>4, <2>5, <2>6
<1>4. CASE UNCHANGED registryVars
  BY <1>4, RegInvStutter DEF registryVars
<1> QED
  BY <1>1, <1>2, <1>3, <1>4 DEF RegistryNext

\* The registry's inductive invariant holds throughout.
THEOREM RegInvHolds == RegistrySpec => []RegInv
<1> QED
  BY RegInvInit, RegInvNext, PTL DEF RegistrySpec

\* No invoke is left waiting without an entry, a timer and a connected node,
\* for any number of nodes, connections and concurrent invokes.
THEOREM InvokesTracked == RegistrySpec => []InvokesAreTracked
<1>1. RegInv => InvokesAreTracked
  BY DEF RegInv
<1> QED
  BY <1>1, RegInvHolds, PTL

\* Every session can be ended through the connection it names.
THEOREM SessionsReachable == RegistrySpec => []SessionsAreReachable
<1>1. RegInv => SessionsAreReachable
  BY DEF RegInv
<1> QED
  BY <1>1, RegInvHolds, PTL

\* The two maps of subscriptions never disagree.
THEOREM SubscriptionsMirrored == RegistrySpec => []SubscriptionsMirror
<1>1. RegInv => SubscriptionsMirror
  BY DEF RegInv
<1> QED
  BY <1>1, RegInvHolds, PTL

-----------------------------------------------------------------------------
(* The queues of foreground actions.                                       *)

\* The order of the naturals is well-founded.
LEMMA LeastNode ==
  ASSUME NEW S \in SUBSET Nat, S # {}
  PROVE  \E n \in S : \A m \in S : n <= m
<1> DEFINE Less == OpToRel(<, Nat)
<1>1. \A m, n \in Nat : m < n => <<m, n>> \in Less
  BY DEF OpToRel
<1> HIDE DEF Less
<1>2. \E n \in S : \A m \in S : <<m, n>> \notin Less
  <2>1. IsWellFoundedOn(Less, Nat)
    BY NatLessThanWellFounded DEF Less
  <2> QED
    BY <2>1, WFMin
<1>3. PICK n \in S : \A m \in S : <<m, n>> \notin Less
  BY <1>2
<1>4. ASSUME NEW m \in S PROVE n <= m
  <2>1. ~ (m < n)
    BY <1>1, <1>3
  <2> QED
    BY <2>1
<1> QED
  BY <1>4

\* Induction: a set of numbers that has 0 and the successor of each of its
\* members has them all.
LEMMA EveryNumber ==
  ASSUME NEW T \in SUBSET Nat, 0 \in T, \A n \in T : n + 1 \in T
  PROVE  T = Nat
<1> SUFFICES ASSUME T # Nat PROVE FALSE
  OBVIOUS
<1>1. PICK n \in Nat \ T : \A m \in Nat \ T : n <= m
  BY LeastNode
<1>2. n - 1 \in Nat /\ n - 1 \notin Nat \ T
  BY <1>1
<1> QED
  BY <1>1, <1>2

\* The function by which Kept is defined, on the first n places of the queue.
Sifts(f, q, S, n) ==
  f = [i \in 0..n |-> IF i = 0 THEN <<>>
                      ELSE IF q[i] \in S THEN Append(f[i - 1], q[i]) ELSE f[i - 1]]

\* What that function is at each place.
LEMMA SiftAt ==
  ASSUME NEW q, NEW S, NEW n, NEW f, Sifts(f, q, S, n), NEW i \in 0..n
  PROVE  f[i] = IF i = 0 THEN <<>>
                ELSE IF q[i] \in S THEN Append(f[i - 1], q[i]) ELSE f[i - 1]
<1> DEFINE E(j) == IF j = 0 THEN <<>>
                   ELSE IF q[j] \in S THEN Append(f[j - 1], q[j]) ELSE f[j - 1]
           h == [j \in 0..n |-> E(j)]
<1>1. f = h
  BY DEF Sifts
<1> HIDE DEF E
<1>2. h[i] = E(i)
  OBVIOUS
<1> HIDE DEF h
<1>3. f[i] = E(i)
  BY <1>1, <1>2
<1> QED
  BY <1>3 DEF E

LEMMA SiftExists ==
  ASSUME NEW q, NEW S
  PROVE  \A n \in Nat : \E f : Sifts(f, q, S, n)
<1> DEFINE T == {n \in Nat : \E f : Sifts(f, q, S, n)}
<1>1. 0 \in T
  <2>1. Sifts([i \in 0..0 |-> <<>>], q, S, 0)
    BY DEF Sifts
  <2> QED
    BY <2>1
<1>2. ASSUME NEW n \in T PROVE n + 1 \in T
  <2>1. PICK f : Sifts(f, q, S, n)
    OBVIOUS
  <2> DEFINE g == [i \in 0..(n + 1) |-> IF i = 0 THEN <<>>
                     ELSE IF q[i] \in S THEN Append(f[i - 1], q[i]) ELSE f[i - 1]]
  <2>2. \A i \in 0..n : g[i] = f[i]
    BY <2>1, SiftAt
  <2>3. Sifts(g, q, S, n + 1)
    <3> DEFINE F(i) == IF i = 0 THEN <<>>
                       ELSE IF q[i] \in S THEN Append(f[i - 1], q[i]) ELSE f[i - 1]
               G(i) == IF i = 0 THEN <<>>
                       ELSE IF q[i] \in S THEN Append(g[i - 1], q[i]) ELSE g[i - 1]
               h == [i \in 0..(n + 1) |-> G(i)]
    <3>1. \A i \in 0..(n + 1) : i # 0 => i - 1 \in 0..n
      OBVIOUS
    <3>2. g = [i \in 0..(n + 1) |-> F(i)]
      OBVIOUS
    <3> HIDE DEF g
    <3>3. \A i \in 0..(n + 1) : i # 0 => g[i - 1] = f[i - 1]
      BY <2>2, <3>1
    <3>4. \A i \in 0..(n + 1) : F(i) = G(i)
      BY <3>3
    <3> HIDE DEF F, G
    <3>5. g = h
      BY <3>2, <3>4
    <3> QED
      BY <3>5, Zenon DEF Sifts, G
  <2> QED
    BY <2>3
<1> HIDE DEF T
<1>3. T = Nat
  BY <1>1, <1>2, EveryNumber DEF T
<1> QED
  BY <1>3 DEF T

LEMMA KeptIsSifted ==
  ASSUME NEW R, NEW q \in Seq(R), NEW S
  PROVE  \E f : Sifts(f, q, S, Len(q)) /\ Kept(q, S) = f[Len(q)]
<1> DEFINE f == CHOOSE f : Sifts(f, q, S, Len(q))
<1>1. Len(q) \in Nat
  OBVIOUS
<1>2. \E g : Sifts(g, q, S, Len(q))
  BY <1>1, SiftExists
<1>3. Sifts(f, q, S, Len(q))
  BY <1>2
<1>4. Kept(q, S) = f[Len(q)]
  BY DEF Kept, Sifts
<1> HIDE DEF f
<1> QED
  BY <1>3, <1>4

\* The queue s is what is left of the first n places of q, by the places e at
\* which its members were: all that are in S, in their order.
IsKept(s, e, q, S, n) ==
  /\ e \in [1..Len(s) -> 1..n]
  /\ \A k \in 1..Len(s) : s[k] = q[e[k]] /\ s[k] \in S
  /\ \A k, l \in 1..Len(s) : k < l => e[k] < e[l]
  /\ \A i \in 1..n : q[i] \in S => \E k \in 1..Len(s) : e[k] = i

\* What _prune, pull and ack leave of a queue, for every queue and every set:
\* the members that are in the set, all of them, and in their order.
THEOREM KeptKeeps ==
  ASSUME NEW R, NEW q \in Seq(R), NEW S
  PROVE  /\ Kept(q, S) \in Seq(R)
         /\ \E e : IsKept(Kept(q, S), e, q, S, Len(q))
<1>1. PICK f : Sifts(f, q, S, Len(q)) /\ Kept(q, S) = f[Len(q)]
  BY KeptIsSifted
<1> DEFINE Good(n) == f[n] \in Seq(R) /\ \E e : IsKept(f[n], e, q, S, n)
           T == {n \in Nat : n <= Len(q) => Good(n)}
<1>2. 0 \in T
  <2>1. f[0] = <<>>
    BY <1>1 DEF Sifts
  <2>2. IsKept(<<>>, [k \in 1..0 |-> 0], q, S, 0)
    BY DEF IsKept
  <2>3. <<>> \in Seq(R)
    OBVIOUS
  <2> QED
    BY <2>1, <2>2, <2>3
<1>3. ASSUME NEW n \in T PROVE n + 1 \in T
  <2> SUFFICES ASSUME n + 1 <= Len(q) PROVE Good(n + 1)
    OBVIOUS
  <2>1. f[n] \in Seq(R) /\ \E e : IsKept(f[n], e, q, S, n)
    <3>1. n \in Nat /\ n <= Len(q)
      OBVIOUS
    <3> QED
      BY <3>1
  <2>2. PICK e : IsKept(f[n], e, q, S, n)
    BY <2>1
  <2>3. n + 1 \in 1..Len(q) /\ q[n + 1] \in R
    OBVIOUS
  <2>4. f[n + 1] = IF q[n + 1] \in S THEN Append(f[n], q[n + 1]) ELSE f[n]
    <3>1. n + 1 \in 0..Len(q) /\ n + 1 # 0 /\ (n + 1) - 1 = n
      BY <2>3
    <3>2. Sifts(f, q, S, Len(q))
      BY <1>1
    <3> QED
      BY <3>1, <3>2, SiftAt
  <2>5. CASE q[n + 1] \notin S
    <3>1. IsKept(f[n], e, q, S, n + 1)
      BY <2>2, <2>5 DEF IsKept
    <3> QED
      BY <2>1, <2>4, <2>5, <3>1
  <2>6. CASE q[n + 1] \in S
    <3> DEFINE s == f[n]
               t == Append(s, q[n + 1])
               d == [k \in 1..(Len(s) + 1) |-> IF k = Len(s) + 1 THEN n + 1 ELSE e[k]]
    <3>1. /\ t \in Seq(R) /\ Len(t) = Len(s) + 1 /\ Len(s) \in Nat
          /\ \A k \in 1..Len(s) : t[k] = s[k]
          /\ t[Len(s) + 1] = q[n + 1]
      BY <2>1, <2>3, AppendProperties
    <3> HIDE DEF s, t
    <3>2. d \in [1..Len(t) -> 1..(n + 1)]
      BY <3>1, <2>2 DEF IsKept, s
    <3>3. \A k \in 1..Len(t) : t[k] = q[d[k]] /\ t[k] \in S
      BY <3>1, <2>2, <2>6 DEF IsKept, s
    <3>4. \A k, l \in 1..Len(t) : k < l => d[k] < d[l]
      <4> SUFFICES ASSUME NEW k \in 1..Len(t), NEW l \in 1..Len(t), k < l
                   PROVE  d[k] < d[l]
        OBVIOUS
      <4>1. k \in 1..Len(s) /\ e[k] \in 1..n /\ d[k] = e[k]
        <5>1. k \in 1..Len(s) /\ k # Len(s) + 1
          BY <3>1
        <5>2. d[k] = e[k]
          BY <3>1, <5>1
        <5>3. e[k] \in 1..n
          BY <5>1, <2>2 DEF IsKept, s
        <5> QED
          BY <5>1, <5>2, <5>3
      <4>2. CASE l = Len(s) + 1
        BY <3>1, <4>1, <4>2
      <4>3. CASE l # Len(s) + 1
        <5>1. l \in 1..Len(s) /\ d[l] = e[l]
          BY <3>1, <4>3
        <5> QED
          BY <4>1, <5>1, <2>2 DEF IsKept, s
      <4> QED
        BY <4>2, <4>3
    <3>5. \A i \in 1..(n + 1) : q[i] \in S => \E k \in 1..Len(t) : d[k] = i
      <4> SUFFICES ASSUME NEW i \in 1..(n + 1), q[i] \in S
                   PROVE  \E k \in 1..Len(t) : d[k] = i
        OBVIOUS
      <4>1. CASE i = n + 1
        <5>1. Len(s) + 1 \in 1..Len(t) /\ d[Len(s) + 1] = n + 1
          BY <3>1
        <5> QED
          BY <4>1, <5>1
      <4>2. CASE i # n + 1
        <5>1. PICK k \in 1..Len(s) : e[k] = i
          BY <4>2, <2>2 DEF IsKept, s
        <5>2. k \in 1..Len(t) /\ d[k] = e[k]
          BY <3>1
        <5> QED
          BY <5>1, <5>2
      <4> QED
        BY <4>1, <4>2
    <3>6. IsKept(t, d, q, S, n + 1)
      BY <3>2, <3>3, <3>4, <3>5 DEF IsKept
    <3> QED
      BY <3>1, <3>6, <2>4, <2>6 DEF s, t
  <2> QED
    BY <2>5, <2>6
<1> HIDE DEF T, Good
<1>4. T = Nat
  BY <1>2, <1>3, EveryNumber DEF T
<1>5. Len(q) \in T
  BY <1>4
<1> QED
  BY <1>1, <1>5 DEF T, Good

\* A queue of node n as QueuesAreSound wants it.
Sound(q, n) ==
  /\ q \in Seq(Requests) /\ Len(q) <= MaxQueue
  /\ \A i, j \in DOMAIN q : Target[q[i]] = n /\ (Key[q[i]] = Key[q[j]] => i = j)

\* What stays keeps its place in the order, so no place is before its own
\* number and the queue does not get longer.
LEMMA KeptIsShorter ==
  ASSUME NEW s, NEW e, NEW q, NEW S, NEW n \in Nat, Len(s) \in Nat, IsKept(s, e, q, S, n)
  PROVE  Len(s) <= n
<1> DEFINE T == {k \in Nat : k \in 1..Len(s) => e[k] >= k}
<1>1. 0 \in T
  OBVIOUS
<1>2. ASSUME NEW k \in T PROVE k + 1 \in T
  <2> SUFFICES ASSUME k + 1 \in 1..Len(s) PROVE e[k + 1] >= k + 1
    OBVIOUS
  <2>1. e[k + 1] \in 1..n
    BY DEF IsKept
  <2>2. CASE k = 0
    BY <2>1, <2>2
  <2>3. CASE k # 0
    <3>1. k \in 1..Len(s) /\ e[k] >= k
      BY <2>3
    <3>2. e[k] \in 1..n /\ e[k] < e[k + 1]
      BY <3>1 DEF IsKept
    <3> QED
      BY <2>1, <3>1, <3>2
  <2> QED
    BY <2>2, <2>3
<1> HIDE DEF T
<1>3. T = Nat
  BY <1>1, <1>2, EveryNumber DEF T
<1>4. CASE Len(s) = 0
  BY <1>4
<1>5. CASE Len(s) # 0
  <2>1. Len(s) \in 1..Len(s)
    BY <1>5
  <2>2. e[Len(s)] >= Len(s)
    BY <1>3, <2>1 DEF T
  <2>3. e[Len(s)] \in 1..n
    BY <2>1 DEF IsKept
  <2> QED
    BY <2>2, <2>3
<1> QED
  BY <1>4, <1>5

LEMMA KeptIsSound ==
  ASSUME NEW n \in Nodes, NEW q, Sound(q, n), NEW S
  PROVE  /\ Sound(Kept(q, S), n)
         /\ IdsOf(Kept(q, S)) = IdsOf(q) \cap S
<1>0. q \in Seq(Requests)
  BY DEF Sound
<1> DEFINE s == Kept(q, S)
<1>1. s \in Seq(Requests) /\ \E e : IsKept(s, e, q, S, Len(q))
  BY <1>0, KeptKeeps
<1>2. PICK e : IsKept(s, e, q, S, Len(q))
  BY <1>1
<1> HIDE DEF s
<1>3. /\ Len(s) \in Nat /\ DOMAIN s = 1..Len(s)
      /\ Len(q) \in Nat /\ DOMAIN q = 1..Len(q)
  BY <1>0, <1>1
<1>4. Len(s) <= MaxQueue
  <2>1. Len(s) <= Len(q)
    BY <1>2, <1>3, KeptIsShorter
  <2>2. Len(q) <= MaxQueue
    BY DEF Sound
  <2> QED
    BY <1>3, <2>1, <2>2, NodeRegistryAssumption
<1>5. ASSUME NEW k \in DOMAIN s
      PROVE  e[k] \in DOMAIN q /\ s[k] = q[e[k]] /\ s[k] \in S
  BY <1>2, <1>3 DEF IsKept
<1>6. ASSUME NEW i \in DOMAIN s, NEW j \in DOMAIN s
      PROVE  Target[s[i]] = n /\ (Key[s[i]] = Key[s[j]] => i = j)
  <2>1. Target[q[e[i]]] = n /\ (Key[q[e[i]]] = Key[q[e[j]]] => e[i] = e[j])
    BY <1>5 DEF Sound
  <2>2. e[i] = e[j] => i = j
    <3>1. i \in Nat /\ j \in Nat /\ e[i] \in Nat /\ e[j] \in Nat
      BY <1>3, <1>5
    <3>2. (i < j => e[i] < e[j]) /\ (j < i => e[j] < e[i])
      BY <1>2, <1>3 DEF IsKept
    <3> QED
      BY <3>1, <3>2
  <2> QED
    BY <1>5, <2>1, <2>2
<1>7. IdsOf(s) = IdsOf(q) \cap S
  <2>1. ASSUME NEW a \in IdsOf(s) PROVE a \in IdsOf(q) /\ a \in S
    BY <1>5 DEF IdsOf
  <2>2. ASSUME NEW a \in IdsOf(q), a \in S PROVE a \in IdsOf(s)
    <3>1. PICK i \in 1..Len(q) : q[i] = a
      BY <1>3 DEF IdsOf
    <3>2. PICK k \in 1..Len(s) : e[k] = i
      BY <1>2, <2>2, <3>1 DEF IsKept
    <3>3. s[k] = a
      BY <1>3, <1>5, <3>1, <3>2
    <3> QED
      BY <1>3, <3>3 DEF IdsOf
  <2> QED
    BY <2>1, <2>2
<1> QED
  BY <1>1, <1>4, <1>6, <1>7 DEF s, Sound

\* enqueue: the queue stays sound and gains the action at most.
LEMMA EnqueueIsSound ==
  ASSUME NEW n \in Nodes, NEW r \in Requests, Target[r] = n, Sound(actions[n], n)
  PROVE  /\ Sound(Enqueue(n, r), n)
         /\ IdsOf(Enqueue(n, r)) \subseteq IdsOf(actions[n]) \cup {r}
<1> DEFINE live == Live(n)
           q == Append(live, r)
           m == 1 + (IF Len(q) > MaxQueue THEN Len(q) - MaxQueue ELSE 0)
<1>1. Sound(live, n) /\ IdsOf(live) \subseteq IdsOf(actions[n])
  BY KeptIsSound DEF Live
<1>2. Enqueue(n, r) = IF \E a \in IdsOf(live) : Key[a] = Key[r] THEN live
                      ELSE SubSeq(q, m, Len(q))
  BY DEF Enqueue
<1> HIDE DEF live
<1>3. CASE \E a \in IdsOf(live) : Key[a] = Key[r]
  BY <1>1, <1>2, <1>3
<1>4. CASE ~ \E a \in IdsOf(live) : Key[a] = Key[r]
  <2> DEFINE s == SubSeq(q, m, Len(q))
  <2>1. live \in Seq(Requests) /\ Len(live) \in Nat /\ DOMAIN live = 1..Len(live)
        /\ Len(live) <= MaxQueue
    BY <1>1 DEF Sound
  <2>2. /\ q \in Seq(Requests) /\ Len(q) = Len(live) + 1
        /\ \A i \in 1..Len(live) : q[i] = live[i]
        /\ q[Len(live) + 1] = r
    BY <2>1, AppendProperties
  <2> HIDE DEF q
  <2>3. m \in 1..(Len(q) + 1) /\ Len(q) - m + 1 <= MaxQueue /\ m \in Nat
    BY <2>1, <2>2, NodeRegistryAssumption
  <2> HIDE DEF m
  <2>4. /\ s \in Seq(Requests) /\ Len(s) = Len(q) - m + 1
        /\ \A i \in 1..Len(s) : s[i] = q[m + i - 1]
    BY <2>1, <2>2, <2>3, SubSeqProperties
  <2> HIDE DEF s
  <2>5. DOMAIN s = 1..Len(s) /\ Len(s) \in Nat
    BY <2>4
  <2>6. ASSUME NEW i \in 1..Len(q), NEW j \in 1..Len(q)
        PROVE  Target[q[i]] = n /\ (Key[q[i]] = Key[q[j]] => i = j)
    <3>1. CASE i = Len(live) + 1 /\ j = Len(live) + 1
      BY <2>2, <3>1
    <3>2. CASE i = Len(live) + 1 /\ j # Len(live) + 1
      <4>1. j \in DOMAIN live
        BY <2>1, <2>2, <3>2
      <4>2. live[j] \in IdsOf(live) /\ q[j] = live[j]
        BY <2>1, <2>2, <4>1 DEF IdsOf
      <4> QED
        BY <1>4, <2>2, <3>2, <4>2
    <3>3. CASE i # Len(live) + 1 /\ j = Len(live) + 1
      <4>1. i \in DOMAIN live
        BY <2>1, <2>2, <3>3
      <4>2. live[i] \in IdsOf(live) /\ q[i] = live[i]
        BY <2>1, <2>2, <4>1 DEF IdsOf
      <4>3. Target[live[i]] = n
        BY <1>1, <4>1 DEF Sound
      <4> QED
        BY <1>4, <2>2, <3>3, <4>2, <4>3
    <3>4. CASE i # Len(live) + 1 /\ j # Len(live) + 1
      <4>1. i \in DOMAIN live /\ j \in DOMAIN live
        BY <2>1, <2>2, <3>4
      <4>2. q[i] = live[i] /\ q[j] = live[j]
        BY <2>1, <2>2, <4>1
      <4> QED
        BY <1>1, <4>1, <4>2 DEF Sound
    <3> QED
      BY <3>1, <3>2, <3>3, <3>4
  <2>7. ASSUME NEW i \in 1..Len(s)
        PROVE  m + i - 1 \in 1..Len(q) /\ s[i] = q[m + i - 1]
    <3>1. i \in Nat /\ i >= 1 /\ i <= Len(q) - m + 1 /\ Len(q) \in Nat
      BY <2>2, <2>3, <2>4, <2>7
    <3>2. m + i - 1 \in 1..Len(q)
      BY <2>3, <3>1
    <3> QED
      BY <2>4, <3>2
  <2>8. ASSUME NEW i \in 1..Len(s), NEW j \in 1..Len(s)
        PROVE  Target[s[i]] = n /\ (Key[s[i]] = Key[s[j]] => i = j)
    <3>1. Target[q[m + i - 1]] = n
          /\ (Key[q[m + i - 1]] = Key[q[m + j - 1]] => m + i - 1 = m + j - 1)
      BY <2>6, <2>7
    <3>2. m + i - 1 = m + j - 1 => i = j
      BY <2>3
    <3> QED
      BY <2>7, <3>1, <3>2
  <2>9. Sound(s, n)
    BY <2>3, <2>4, <2>5, <2>8 DEF Sound
  <2>10. IdsOf(s) \subseteq IdsOf(actions[n]) \cup {r}
    <3>1. ASSUME NEW i \in 1..Len(q) PROVE q[i] \in IdsOf(live) \cup {r}
      <4>1. CASE i = Len(live) + 1
        BY <2>2, <4>1
      <4>2. CASE i # Len(live) + 1
        <5>1. i \in DOMAIN live /\ q[i] = live[i]
          BY <2>1, <2>2, <4>2
        <5> QED
          BY <5>1 DEF IdsOf
      <4> QED
        BY <4>1, <4>2
    <3>2. ASSUME NEW i \in 1..Len(s) PROVE s[i] \in IdsOf(live) \cup {r}
      BY <2>7, <3>1
    <3> QED
      BY <1>1, <2>5, <3>2 DEF IdsOf
  <2>11. Enqueue(n, r) = s
    BY <1>2, <1>4 DEF s
  <2> QED
    BY <2>9, <2>10, <2>11
<1> QED
  BY <1>3, <1>4

\* The inductive invariant of the queues. What is in one was put there when
\* its invoke was over, so an invoke is queued at most once.
QueueInv ==
  /\ expired \subseteq Requests
  /\ actions \in [Nodes -> Seq(Requests)]
  /\ \A n \in Nodes : Sound(actions[n], n)
  /\ \A n \in Nodes : \A a \in IdsOf(actions[n]) : caller[a] = "queued"

\* An invoke was told its action is queued, and the action is in no queue: it
\* was acknowledged, dropped, pushed out or grew old.
Gone(r) == caller[r] = "queued" /\ \A n \in Nodes : r \notin IdsOf(actions[n])
GoneStay == \A r \in Requests : Gone(r) => Gone(r)'

LEMMA QueueInit == RegistryInit => QueueInv
<1> SUFFICES ASSUME RegistryInit PROVE QueueInv
  OBVIOUS
<1>1. <<>> \in Seq(Requests) /\ Len(<<>>) = 0 /\ DOMAIN <<>> = {}
  BY EmptySeq
<1>2. \A n \in Nodes : Sound(<<>>, n) /\ IdsOf(<<>>) = {}
  BY <1>1, NodeRegistryAssumption DEF Sound, IdsOf
<1> QED
  BY <1>1, <1>2 DEF QueueInv, RegistryInit

\* A step that leaves the queues alone, and of the callers those queued.
LEMMA QueueUntouched ==
  ASSUME QueueInv, UNCHANGED queueVars,
         \A a \in Requests : caller[a] = "queued" => caller'[a] = "queued"
  PROVE  QueueInv' /\ GoneStay
<1> USE DEF queueVars
<1>1. \A n \in Nodes : \A a \in IdsOf(actions[n]) : a \in Requests
  BY DEF QueueInv, Sound, IdsOf
<1>2. \A n \in Nodes : Sound(actions'[n], n)
  BY DEF QueueInv
<1>3. QueueInv'
  BY <1>1, <1>2 DEF QueueInv, Sound, IdsOf
<1> QED
  BY <1>3 DEF GoneStay, Gone, IdsOf

\* A step that gives one node a queue q, which gains what was not queued yet.
LEMMA QueueStep ==
  ASSUME QueueInv, NEW n \in Nodes, NEW q, Sound(q, n),
         actions' = [actions EXCEPT ![n] = q], expired' \subseteq Requests,
         \A a \in IdsOf(q) : /\ caller'[a] = "queued"
                             /\ a \in IdsOf(actions[n]) \/ caller[a] # "queued",
         \A a \in Requests : caller[a] = "queued" => caller'[a] = "queued"
  PROVE  QueueInv' /\ GoneStay
<1>1. actions'[n] = q /\ \A o \in Nodes \ {n} : actions'[o] = actions[o]
  BY DEF QueueInv
<1>2. actions' \in [Nodes -> Seq(Requests)]
  <2>1. q \in Seq(Requests)
    BY DEF Sound
  <2> QED
    BY <2>1 DEF QueueInv
<1>3. \A o \in Nodes : Sound(actions'[o], o)
  BY <1>1 DEF QueueInv
<1>4. ASSUME NEW o \in Nodes, NEW a \in IdsOf(actions'[o]) PROVE caller'[a] = "queued"
  <2>1. CASE o = n
    BY <1>1, <1>4, <2>1
  <2>2. CASE o # n
    <3>1. a \in IdsOf(actions[o])
      BY <1>1, <1>4, <2>2
    <3>2. a \in Requests
      BY <3>1 DEF QueueInv, Sound, IdsOf
    <3> QED
      BY <3>1, <3>2 DEF QueueInv
  <2> QED
    BY <2>1, <2>2
<1>5. \A o \in Nodes : \A a \in IdsOf(actions[o])' : caller'[a] = "queued"
  BY <1>4 DEF IdsOf
<1>6. \A o \in Nodes : Sound(actions[o], o)'
  BY <1>3 DEF Sound
<1>7. ASSUME NEW r \in Requests, Gone(r) PROVE Gone(r)'
  <2>1. \A o \in Nodes : r \notin IdsOf(actions'[o])
    BY <1>1, <1>7 DEF Gone
  <2> QED
    BY <1>7, <2>1 DEF Gone, IdsOf
<1> QED
  BY <1>2, <1>5, <1>6, <1>7 DEF QueueInv, GoneStay

\* The queue keeps the members of a set only: peek, pull and ack.
LEMMA QueueKept ==
  ASSUME QueueInv, NEW n \in Nodes, NEW q,
         q = Live(n) \/ \E S : q = Kept(Live(n), S),
         actions' = [actions EXCEPT ![n] = q], expired' = expired, caller' = caller
  PROVE  QueueInv' /\ GoneStay
<1>1. Sound(actions[n], n)
  BY DEF QueueInv
<1>2. Sound(Live(n), n) /\ IdsOf(Live(n)) \subseteq IdsOf(actions[n])
  BY <1>1, KeptIsSound DEF Live
<1>3. Sound(q, n) /\ IdsOf(q) \subseteq IdsOf(Live(n))
  BY <1>2, KeptIsSound
<1>4. \A a \in IdsOf(q) : a \in IdsOf(actions[n]) /\ caller'[a] = "queued"
  BY <1>2, <1>3 DEF QueueInv
<1>5. expired' \subseteq Requests
  BY DEF QueueInv
<1> QED
  BY <1>3, <1>4, <1>5, QueueStep

LEMMA QueueResume ==
  ASSUME RegInv, QueueInv, NEW r \in Requests, Resume(r)
  PROVE  QueueInv' /\ GoneStay
<1> DEFINE n == Target[r]
           queues == future[r] = "background" /\ r \in Foreground
<1>1. n \in Nodes /\ Sound(actions[n], n)
  BY NodeRegistryAssumption DEF QueueInv
<1>2. caller[r] = "waiting" /\ UNCHANGED expired
  BY DEF Resume
<1>3. \A a \in Requests \ {r} : caller'[a] = caller[a]
  BY DEF Resume, RegInv, InvokeType
<1>4. \A a \in Requests : caller[a] = "queued" => caller'[a] = "queued"
  BY <1>2, <1>3
<1>5. CASE queues
  <2>1. actions' = [actions EXCEPT ![n] = Enqueue(n, r)]
    BY <1>5 DEF Resume
  <2>2. caller'[r] = "queued"
    BY <1>5 DEF Resume, RegInv, InvokeType
  <2>3. Sound(Enqueue(n, r), n) /\ IdsOf(Enqueue(n, r)) \subseteq IdsOf(actions[n]) \cup {r}
    BY <1>1, EnqueueIsSound
  <2>4. \A a \in IdsOf(actions[n]) : a \in Requests /\ caller[a] = "queued"
    BY <1>1 DEF QueueInv, Sound, IdsOf
  <2>5. \A a \in IdsOf(Enqueue(n, r)) :
          caller'[a] = "queued" /\ (a \in IdsOf(actions[n]) \/ caller[a] # "queued")
    BY <1>2, <1>4, <2>2, <2>3, <2>4
  <2>6. expired' \subseteq Requests
    BY <1>2 DEF QueueInv
  <2> HIDE DEF n
  <2> QED
    BY <1>1, <1>4, <2>1, <2>3, <2>5, <2>6, QueueStep
<1>6. CASE ~ queues
  <2>1. actions' = actions
    BY <1>6, <1>1 DEF Resume, QueueInv
  <2> QED
    BY <1>2, <1>4, <2>1, QueueUntouched DEF queueVars
<1> QED
  BY <1>5, <1>6

LEMMA QueueOfInvokes ==
  ASSUME RegInv, QueueInv, InvokeNext
  PROVE  QueueInv' /\ GoneStay
<1>1. PICK r \in Requests :
        \/ InvokeRefused(r) \/ Invoke(r) \/ TimerFires(r) \/ CancelCaller(r) \/ Resume(r)
        \/ \E result \in Results : HandleInvokeResult(r, result)
  BY DEF InvokeNext
<1>2. CASE InvokeRefused(r) \/ Invoke(r) \/ CancelCaller(r)
  <2>1. UNCHANGED queueVars
    BY <1>2 DEF InvokeRefused, Invoke, CancelCaller
  <2>2. \A a \in Requests : caller[a] = "queued" => caller'[a] = "queued"
    BY <1>2 DEF InvokeRefused, Invoke, CancelCaller, RegInv, InvokeType
  <2> QED
    BY <2>1, <2>2, QueueUntouched
<1>3. CASE TimerFires(r) \/ \E result \in Results : HandleInvokeResult(r, result)
  <2>1. UNCHANGED <<caller, queueVars>>
    BY <1>3 DEF TimerFires, HandleInvokeResult
  <2> QED
    BY <2>1, QueueUntouched
<1>4. CASE Resume(r)
  BY <1>4, QueueResume
<1> QED
  BY <1>1, <1>2, <1>3, <1>4

LEMMA QueueOfQueue ==
  ASSUME QueueInv, QueueNext
  PROVE  QueueInv' /\ GoneStay
<1>1. PICK n \in Nodes :
        \/ GrowOld(n) \/ Peek(n) \/ Pull(n)
        \/ \E ids \in SUBSET IdsOf(actions[n]) : Ack(n, ids)
        \/ \E s \in Sessions : Subscribe(n, s) \/ Unsubscribe(n, s)
  BY DEF QueueNext
<1>2. CASE GrowOld(n)
  <2>1. Sound(Live(n), n)
    BY KeptIsSound DEF Live, QueueInv
  <2>2. Head(Live(n)) \in Requests
    BY <1>2, <2>1, HeadTailProperties DEF GrowOld, Sound
  <2>3. expired' \subseteq Requests
    BY <1>2, <2>2 DEF GrowOld, QueueInv
  <2>4. UNCHANGED <<actions, caller>>
    BY <1>2 DEF GrowOld, invokeVars
  <2>5. QueueInv'
    BY <2>3, <2>4 DEF QueueInv, Sound, IdsOf
  <2>6. GoneStay
    BY <2>4 DEF GoneStay, Gone, IdsOf
  <2> QED
    BY <2>5, <2>6
<1>3. CASE Peek(n)
  BY <1>3, QueueKept DEF Peek, invokeVars
<1>4. CASE Pull(n)
  <2> DEFINE q == IF Connected(n)
                  THEN Kept(Live(n), {a \in Requests : Command[a] \in nodesById[n].commands})
                  ELSE Live(n)
  <2>1. actions' = [actions EXCEPT ![n] = q] /\ expired' = expired /\ caller' = caller
    BY <1>4 DEF Pull, invokeVars
  <2>2. q = Live(n) \/ \E S : q = Kept(Live(n), S)
    OBVIOUS
  <2> HIDE DEF q
  <2> QED
    BY <2>1, <2>2, QueueKept
<1>5. CASE \E ids \in SUBSET IdsOf(actions[n]) : Ack(n, ids)
  <2>1. PICK ids : Ack(n, ids)
    BY <1>5
  <2> DEFINE q == Kept(Live(n), Requests \ ids)
  <2>2. actions' = [actions EXCEPT ![n] = q] /\ expired' = expired /\ caller' = caller
    BY <2>1 DEF Ack, invokeVars
  <2>3. \E S : q = Kept(Live(n), S)
    OBVIOUS
  <2> HIDE DEF q
  <2> QED
    BY <2>2, <2>3, QueueKept
<1>6. CASE \E s \in Sessions : Subscribe(n, s) \/ Unsubscribe(n, s)
  <2>1. UNCHANGED <<caller, queueVars>>
    BY <1>6 DEF Subscribe, Unsubscribe, invokeVars
  <2> QED
    BY <2>1, QueueUntouched
<1> QED
  BY <1>1, <1>2, <1>3, <1>4, <1>5, <1>6

LEMMA QueueNextKeeps ==
  RegInv /\ QueueInv /\ [RegistryNext]_registryVars => QueueInv' /\ GoneStay
<1> SUFFICES ASSUME RegInv, QueueInv, [RegistryNext]_registryVars
             PROVE  QueueInv' /\ GoneStay
  OBVIOUS
<1>1. CASE \E c \in Conns : (\E cmds \in SUBSET Commands : Register(c, cmds))
                            \/ Unregister(c)
  <2>1. UNCHANGED <<caller, queueVars>>
    BY <1>1 DEF Register, Unregister, invokeVars
  <2> QED
    BY <2>1, QueueUntouched
<1>2. CASE InvokeNext
  BY <1>2, QueueOfInvokes
<1>3. CASE QueueNext
  BY <1>3, QueueOfQueue
<1>4. CASE UNCHANGED registryVars
  BY <1>4, QueueUntouched DEF registryVars, invokeVars
<1> QED
  BY <1>1, <1>2, <1>3, <1>4 DEF RegistryNext

LEMMA QueueInvHolds == RegistrySpec => [](RegInv /\ QueueInv)
<1>1. RegInv /\ QueueInv /\ [RegistryNext]_registryVars => (RegInv /\ QueueInv)'
  BY RegInvNext, QueueNextKeeps
<1> QED
  BY <1>1, RegInvInit, QueueInit, PTL DEF RegistrySpec

LEMMA SoundQueues == QueueInv => QueuesAreSound
BY DEF QueueInv, Sound, QueuesAreSound

\* Each variable of the registry holds what it should, the queues included.
THEOREM RegistryTypeCorrect == RegistrySpec => []RegistryTypeOK
<1>1. RegInv /\ QueueInv => RegistryTypeOK
  BY DEF RegInv, SessionType, InvokeType, SubscriptionType, QueueInv, RegistryTypeOK
<1> QED
  BY <1>1, QueueInvHolds, PTL

\* For any bound and any number of invokes, retried under the same key or not,
\* the queue of a node stays within its bound, holds its own actions and one
\* for a key.
THEOREM QueuesSound == RegistrySpec => []QueuesAreSound
<1> QED
  BY SoundQueues, QueueInvHolds, PTL

\* An action that was acknowledged, dropped, pushed out or grew old is never
\* handed to a node again.
THEOREM ActionsGoOnce == RegistrySpec => [][GoneStay]_registryVars
<1>1. RegInv /\ QueueInv /\ [RegistryNext]_registryVars => [GoneStay]_registryVars
  BY QueueNextKeeps
<1> QED
  BY <1>1, QueueInvHolds, PTL DEF RegistrySpec

-----------------------------------------------------------------------------
(* invoke() implements CallLedger.                                         *)

Outs == [r \in Requests |-> Outcome(r)]
Reports == {r \in Requests : reported[r] \in Results}

\* The ledger sees of a step only the caller of one invoke and the reports.
LEMMA OutsOfOne ==
  ASSUME NEW r \in Requests, RegInv, NEW value,
         caller' = [caller EXCEPT ![r] = value]
  PROVE  /\ Outcome(r)' = CASE value \in {"new", "refused"} -> "unused"
                            [] value = "waiting" -> "open"
                            [] value \in {"answer", "queued"} -> "answer"
                            [] value = "raised" -> "raised"
         /\ Outs' = [Outs EXCEPT ![r] = Outcome(r)']
<1>1. caller'[r] = value /\ \A q \in Requests \ {r} : caller'[q] = caller[q]
  BY DEF RegInv, InvokeType
<1>2. \A q \in Requests \ {r} : Outcome(q)' = Outcome(q)
  BY <1>1 DEF Outcome
<1>3. Outcome(r)' = CASE value \in {"new", "refused"} -> "unused"
                      [] value = "waiting" -> "open"
                      [] value \in {"answer", "queued"} -> "answer"
                      [] value = "raised" -> "raised"
  BY <1>1 DEF Outcome
<1>4. Outs' = [Outs EXCEPT ![r] = Outcome(r)']
  BY <1>2 DEF Outs
<1> QED
  BY <1>3, <1>4

LEMMA OutsUnchanged ==
  ASSUME caller' = caller
  PROVE  Outs' = Outs
BY DEF Outs, Outcome

LEMMA InvokeRefines ==
  ASSUME RegInv, NEW r \in Requests, Invoke(r)
  PROVE  Ledger!Open(r)
<1>1. Outs[r] = "unused"
  BY DEF Invoke, Outs, Outcome
<1>2. Outs' = [Outs EXCEPT ![r] = "open"]
  BY OutsOfOne DEF Invoke
<1>3. Reports' = Reports
  BY DEF Invoke, Reports, RegInv, InvokeType, CallsMatch, Results
<1> QED
  BY <1>1, <1>2, <1>3 DEF Ledger!Open, Outs, Reports

LEMMA RefusedRefines ==
  ASSUME RegInv, NEW r \in Requests, InvokeRefused(r)
  PROVE  UNCHANGED Ledger!ledgerVars
<1>1. Outs[r] = "unused"
  BY DEF InvokeRefused, Outs, Outcome
<1>2. Outs' = [Outs EXCEPT ![r] = "unused"]
  BY OutsOfOne DEF InvokeRefused
<1>3. Outs' = Outs
  BY <1>1, <1>2 DEF Outs
<1>4. Reports' = Reports
  BY DEF InvokeRefused, Reports
<1> QED
  BY <1>3, <1>4 DEF Ledger!ledgerVars, Outs, Reports

LEMMA ResultRefines ==
  ASSUME RegInv, NEW r \in Requests, NEW result \in Results, HandleInvokeResult(r, result)
  PROVE  Ledger!Answer(r) \/ UNCHANGED Ledger!ledgerVars
<1>1. Outs' = Outs
  BY OutsUnchanged DEF HandleInvokeResult
<1>2. caller[r] \notin {"new", "refused"}
  BY DEF HandleInvokeResult, RegInv, CallsMatch, Results
<1>3. Outs[r] # "unused"
  BY <1>2 DEF Outs, Outcome, RegInv, InvokeType
<1>4. Reports' = Reports \cup {r}
  BY DEF HandleInvokeResult, Reports, RegInv, InvokeType, Results
<1>5. CASE r \in Reports
  <2>1. Reports' = Reports
    BY <1>4, <1>5
  <2> QED
    BY <1>1, <2>1 DEF Ledger!ledgerVars, Outs, Reports
<1>6. CASE r \notin Reports
  BY <1>1, <1>3, <1>4, <1>6 DEF Ledger!Answer, Outs, Reports
<1> QED
  BY <1>5, <1>6

LEMMA CancelRefines ==
  ASSUME RegInv, NEW r \in Requests, CancelCaller(r)
  PROVE  Ledger!Raise(r)
<1>1. Outs[r] = "open"
  BY DEF CancelCaller, Outs, Outcome
<1>2. Outs' = [Outs EXCEPT ![r] = "raised"]
  BY OutsOfOne DEF CancelCaller
<1>3. Reports' = Reports
  BY DEF CancelCaller, Reports
<1> QED
  BY <1>1, <1>2, <1>3 DEF Ledger!Raise, Outs, Reports

LEMMA ResumeRefines ==
  ASSUME RegInv, NEW r \in Requests, Resume(r)
  PROVE  Ledger!Raise(r) \/ Ledger!ReturnAnswer(r)
<1>1. Outs[r] = "open"
  BY DEF Resume, Outs, Outcome
<1>2. Reports' = Reports
  BY DEF Resume, Reports
<1>3. CASE future[r] \in {"timeout", "disconnected"}
  <2>1. caller' = [caller EXCEPT ![r] = "raised"]
    BY <1>3 DEF Resume
  <2>2. Outs' = [Outs EXCEPT ![r] = "raised"]
    BY <2>1, OutsOfOne
  <2> QED
    BY <1>1, <1>2, <2>2 DEF Ledger!Raise, Outs, Reports
<1>4. CASE future[r] \notin {"timeout", "disconnected"}
  <2>1. future[r] \in Results
    BY <1>4 DEF Resume, RegInv, InvokeType, CallsMatch
  <2>2. r \in Reports
    BY <2>1 DEF RegInv, CallsMatch, Reports
  <2>3. PICK value \in {"answer", "queued"} : caller' = [caller EXCEPT ![r] = value]
    BY <1>4 DEF Resume
  <2>4. Outs' = [Outs EXCEPT ![r] = "answer"]
    BY <2>3, OutsOfOne
  <2> QED
    BY <1>1, <1>2, <2>2, <2>4 DEF Ledger!ReturnAnswer, Outs, Reports
<1> QED
  BY <1>3, <1>4

\* Each step of the registry is a step of the ledger or leaves it as it was.
LEMMA RegistryStepRefines ==
  RegInv /\ [RegistryNext]_registryVars => [Ledger!LedgerNext]_(Ledger!ledgerVars)
<1> SUFFICES ASSUME RegInv, [RegistryNext]_registryVars
             PROVE  Ledger!LedgerNext \/ UNCHANGED Ledger!ledgerVars
  OBVIOUS
<1>1. ASSUME UNCHANGED <<caller, reported>> PROVE UNCHANGED Ledger!ledgerVars
  BY <1>1, OutsUnchanged DEF Ledger!ledgerVars, Outs, Reports
<1>2. CASE \E c \in Conns : (\E cmds \in SUBSET Commands : Register(c, cmds))
                            \/ Unregister(c)
  BY <1>1, <1>2 DEF Register, Unregister, invokeVars
<1>3. CASE InvokeNext
  <2>1. PICK r \in Requests :
          \/ InvokeRefused(r) \/ Invoke(r) \/ TimerFires(r) \/ CancelCaller(r) \/ Resume(r)
          \/ \E result \in Results : HandleInvokeResult(r, result)
    BY <1>3 DEF InvokeNext
  <2>2. CASE TimerFires(r)
    BY <1>1, <2>2 DEF TimerFires
  <2> QED
    BY <2>1, <2>2, InvokeRefines, RefusedRefines, ResultRefines, CancelRefines,
       ResumeRefines DEF Ledger!LedgerNext
<1>4. CASE QueueNext
  BY <1>1, <1>4 DEF QueueNext, GrowOld, Peek, Pull, Ack, Subscribe, Unsubscribe, invokeVars
<1>5. CASE UNCHANGED registryVars
  BY <1>1, <1>5 DEF registryVars, invokeVars
<1> QED
  BY <1>2, <1>3, <1>4, <1>5 DEF RegistryNext

\* Every behaviour of the registry is one of CallLedger: an invoke comes back
\* once, and with a result only if the node reported one for that very invoke.
THEOREM InvokeRefinement == RegistrySpec => Ledger!LedgerSafety
<1>1. RegistryInit => Ledger!LedgerInit
  BY DEF RegistryInit, Ledger!LedgerInit, Outcome, Results
<1>2. RegInv /\ [RegistryNext]_registryVars => [Ledger!LedgerNext]_(Ledger!ledgerVars)
  BY RegistryStepRefines
<1> QED
  BY <1>1, <1>2, RegInvHolds, PTL DEF RegistrySpec, Ledger!LedgerSafety
-----------------------------------------------------------------------------
(* NodeService: the registry under it                                      *)

Lanes == {"unborn", "down", "up", "deleted"}
SyncType == [pc : {"idle", "updating"}, view : [Nodes -> Lanes], next : Nat]
ServiceType ==
  /\ lane \in [Nodes -> Lanes]
  /\ managed \subseteq Nodes /\ remembered \subseteq Nodes
  /\ sync \in [Syncs -> SyncType]
  /\ clean \subseteq Syncs /\ steady \subseteq Requests

\* The connection of a managed node is its own.
LEMMA OwnConnection ==
  ASSUME RegInv, NEW n \in Nodes, Connected(n)
  PROVE  nodesById[n].conn = n /\ n \in nodesByConn
<1>1. nodesById[n].conn \in nodesByConn /\ Owner[nodesById[n].conn] = n
  BY DEF RegInv, SessionsAreReachable
<1>2. nodesById[n].conn \in Nodes
  BY <1>1, NodeServiceAssumption DEF RegInv, SessionType
<1>3. nodesById[n].conn = n
  BY <1>1, <1>2, NodeServiceAssumption
<1> QED
  BY <1>1, <1>3

\* A walk drops some nodes and registers at most one: the registry's
\* invariant is kept as when a node registers or is unregistered.
LEMMA RegInvWalk ==
  ASSUME RegInv, NEW s, NEW view, NEW from, NEW stale, Walk(s, view, from, stale)
  PROVE  RegInv'
<1> DEFINE up == NextUp(view, from)
           gone == (stale \cup Down(view, from)) \cap nodesByConn
           failed == {r \in pending : Target[r] \in gone}
<1>0. /\ nodesByConn' = (nodesByConn \ gone) \cup up
      /\ nodesById' = [n \in Nodes |->
                         IF n \in up THEN [conn |-> n, commands |-> {}]
                         ELSE IF n \in gone THEN NoSession ELSE nodesById[n]]
      /\ Lose(gone)
      /\ UNCHANGED <<caller, reported>>
  BY Zenon DEF Walk
<1>a. up \subseteq Nodes /\ gone \subseteq nodesByConn /\ nodesByConn \subseteq Nodes
  <2>1. up \subseteq Nodes
    BY DEF NextUp, Todo
  <2>2. nodesByConn \subseteq Nodes
    BY NodeServiceAssumption DEF RegInv, SessionType
  <2> QED
    BY <2>1, <2>2
<1> HIDE DEF up, gone
<1>b. \A n \in Nodes : [conn |-> n, commands |-> {}] \in Session
                       /\ [conn |-> n, commands |-> {}] # NoSession
  BY NodeServiceAssumption, NodeRegistryAssumption DEF Session, NoSession
<1>1. SessionType'
  <2>1. nodesByConn' \subseteq Conns
    BY <1>0, <1>a, NodeServiceAssumption
  <2> QED
    BY <2>1, <1>0, <1>b DEF RegInv, SessionType
<1>c. /\ pending' = pending \ failed /\ timers' = timers \ failed
      /\ \A r \in Requests : future'[r] = IF r \in failed /\ future[r] = "unset"
                                           THEN "disconnected" ELSE future[r]
  BY <1>0 DEF Lose
<1>2. InvokeType'
  BY <1>0 DEF RegInv, InvokeType, Lose
<1>3. SubscriptionType'
  BY <1>0 DEF RegInv, SubscriptionType, Lose
<1>4. CallsMatch'
  BY <1>0, <1>c DEF RegInv, CallsMatch, Results
<1>5. InvokesAreTracked'
  <2>1. \A r \in Requests : future'[r] = "unset" => r \in pending'
    BY <1>c DEF RegInv, InvokesAreTracked
  <2>2. pending' = timers'
    BY <1>c DEF RegInv, InvokesAreTracked
  <2>3. ASSUME NEW r \in pending'
        PROVE  Connected(Target[r])' /\ future'[r] \in {"unset", "cancelled"}
    <3>1. r \in pending /\ Target[r] \notin gone /\ r \in Requests /\ Target[r] \in Nodes
      BY <1>c, <2>3, NodeRegistryAssumption DEF RegInv, InvokeType
    <3>2. Connected(Target[r]) /\ future[r] \in {"unset", "cancelled"}
      BY <3>1 DEF RegInv, InvokesAreTracked
    <3>3. future'[r] = future[r]
      BY <1>c, <3>1
    <3>4. Connected(Target[r])'
      BY <1>0, <1>b, <3>1, <3>2 DEF Connected
    <3> QED
      BY <3>2, <3>3, <3>4
  <2> QED
    BY <2>1, <2>2, <2>3 DEF InvokesAreTracked
<1>6. SessionsAreReachable'
  <2> SUFFICES ASSUME NEW n \in Nodes, Connected(n)'
               PROVE  nodesById'[n].conn \in nodesByConn' /\ Owner[nodesById'[n].conn] = n
    BY DEF SessionsAreReachable
  <2>1. CASE n \in up
    BY <2>1, <1>0, NodeServiceAssumption
  <2>2. CASE n \notin up
    <3>1. n \notin gone /\ nodesById'[n] = nodesById[n] /\ Connected(n)
      BY <2>2, <1>0 DEF Connected
    <3>2. nodesById[n].conn = n /\ n \in nodesByConn
      BY <3>1, OwnConnection
    <3> QED
      BY <3>1, <3>2, <1>0, NodeServiceAssumption
  <2> QED
    BY <2>1, <2>2
<1>7. SubscriptionsMirror'
  BY <1>0 DEF RegInv, SubscriptionsMirror, SubscriptionType, Lose
<1> QED
  BY <1>1, <1>2, <1>3, <1>4, <1>5, <1>6, <1>7 DEF RegInv

\* An invoke fails as disconnected when its node is lost, and not before.
LEMMA InvokesKeepConnected ==
  ASSUME RegInv, InvokeNext, NEW r \in Requests, future'[r] = "disconnected"
  PROVE  future[r] = "disconnected"
<1>1. PICK q \in Requests :
        \/ InvokeRefused(q) \/ Invoke(q) \/ TimerFires(q) \/ CancelCaller(q) \/ Resume(q)
        \/ \E result \in Results : HandleInvokeResult(q, result)
  BY DEF InvokeNext
<1> USE DEF RegInv, InvokeType
<1>2. CASE InvokeRefused(q) \/ Resume(q)
  BY <1>2 DEF InvokeRefused, Resume
<1>3. CASE Invoke(q)
  BY <1>3 DEF Invoke
<1>4. CASE TimerFires(q)
  BY <1>4 DEF TimerFires, Settle
<1>5. CASE CancelCaller(q)
  BY <1>5 DEF CancelCaller
<1>6. CASE \E result \in Results : HandleInvokeResult(q, result)
  BY <1>6 DEF HandleInvokeResult, Settle, Results
<1> QED
  BY <1>1, <1>2, <1>3, <1>4, <1>5, <1>6

LEMMA RegInvService == RegInv /\ [Next]_vars => RegInv'
<1> SUFFICES ASSUME RegInv, [Next]_vars PROVE RegInv'
  OBVIOUS
<1>1. CASE \E s \in Syncs : SyncStart(s) \/ SyncResume(s)
  BY <1>1, RegInvWalk DEF SyncStart, SyncResume
<1>2. CASE \E n \in Nodes : CreateLane(n) \/ ConnectLane(n) \/ LaneDrops(n) \/ DeleteLane(n)
  <2>1. UNCHANGED registryVars
    BY <1>2 DEF CreateLane, ConnectLane, LaneDrops, DeleteLane, ChangeLane
  <2> QED
    BY <2>1, RegInvStutter DEF registryVars
<1>3. CASE \E n \in Nodes : DisconnectDevice(n)
  BY <1>3, RegInvUnregister, OwnConnection, NodeServiceAssumption DEF DisconnectDevice
<1>4. CASE InvokeStep
  <2>1. RegistryNext
    BY <1>4 DEF InvokeStep, RegistryNext
  <2> QED
    BY <2>1, RegInvNext
<1>5. CASE UNCHANGED vars
  BY <1>5, RegInvStutter DEF vars, registryVars
<1> QED
  BY <1>1, <1>2, <1>3, <1>4, <1>5 DEF Next

LEMMA QueueInvService == RegInv /\ QueueInv /\ [Next]_vars => QueueInv'
<1> SUFFICES ASSUME RegInv, QueueInv, [Next]_vars PROVE QueueInv'
  OBVIOUS
<1>1. CASE \E s \in Syncs : SyncStart(s) \/ SyncResume(s)
  <2>1. UNCHANGED <<caller, queueVars>>
    BY <1>1, Zenon DEF SyncStart, SyncResume, Walk
  <2> QED
    BY <2>1, QueueUntouched
<1>2. CASE \E n \in Nodes : \/ CreateLane(n) \/ ConnectLane(n) \/ LaneDrops(n)
                            \/ DeleteLane(n) \/ DisconnectDevice(n)
  <2>1. UNCHANGED <<caller, queueVars>>
    BY <1>2 DEF CreateLane, ConnectLane, LaneDrops, DeleteLane, ChangeLane,
       DisconnectDevice, Unregister, registryVars, invokeVars
  <2> QED
    BY <2>1, QueueUntouched
<1>3. CASE InvokeStep
  BY <1>3, QueueOfInvokes DEF InvokeStep
<1>4. CASE UNCHANGED vars
  BY <1>4, QueueUntouched DEF vars, registryVars, invokeVars
<1> QED
  BY <1>1, <1>2, <1>3, <1>4 DEF Next

\* Whatever the lanes do and however _syncs overlap, no invoke through the
\* node service waits without an entry, a timer and a connected node, every
\* session can be ended, and the queues of actions stay sound.
THEOREM ServiceKeepsRegistry ==
  Spec => [](InvokesAreTracked /\ SessionsAreReachable /\ QueuesAreSound)
<1>1. Init => RegInv /\ QueueInv
  BY RegInvInit, QueueInit DEF Init
<1>2. RegInv /\ QueueInv => InvokesAreTracked /\ SessionsAreReachable /\ QueuesAreSound
  BY SoundQueues DEF RegInv
<1>3. RegInv /\ QueueInv /\ [Next]_vars => (RegInv /\ QueueInv)'
  BY RegInvService, QueueInvService
<1> QED
  BY <1>1, <1>2, <1>3, PTL DEF Spec

-----------------------------------------------------------------------------
(* What a walk does                                                        *)

Listed(view) == {n \in Nodes : Exists(view[n])}

\* A walk from a place in a list: it stops at the first lane there that is up,
\* or comes to the end and finds none.
Stops(view, from, u) ==
  /\ u \in Nodes /\ u >= from /\ view[u] = "up" /\ NextUp(view, from) = {u}
  /\ \A n \in Nodes : n >= from /\ n < u => view[n] # "up"
  /\ Visited(view, from) = {n \in Todo(view, from) : n <= u}
Ends(view, from) ==
  /\ \A n \in Nodes : n >= from => view[n] # "up"
  /\ NextUp(view, from) = {} /\ Visited(view, from) = Todo(view, from)

LEMMA WalkStopsOrEnds ==
  ASSUME NEW view, NEW from \in Nat
  PROVE  Ends(view, from) \/ \E u \in Nodes : Stops(view, from, u)
<1> USE NodeServiceAssumption
<1> DEFINE ups == {n \in Todo(view, from) : view[n] = "up"}
<1>1. ups \subseteq Nodes /\ ups \subseteq Nat
  BY DEF Todo
<1>2. \A n \in Nodes : n >= from /\ view[n] = "up" <=> n \in ups
  BY DEF Todo, Exists
<1>3. CASE ups = {}
  <2>1. NextUp(view, from) = {}
    BY <1>3 DEF NextUp
  <2>2. Visited(view, from) = Todo(view, from)
    BY <2>1 DEF Visited
  <2> QED
    BY <1>2, <1>3, <2>1, <2>2 DEF Ends
<1>4. CASE ups # {}
  <2>1. PICK u \in ups : \A m \in ups : u <= m
    BY <1>1, <1>4, LeastNode
  <2>2. u \in Nodes /\ u \in Nat /\ u >= from /\ view[u] = "up" /\ u \in Todo(view, from)
    BY <1>1, <1>2, <2>1
  <2>3. u \in NextUp(view, from)
    BY <2>1, <2>2 DEF NextUp
  <2>4. ASSUME NEW n \in NextUp(view, from) PROVE n = u
    <3>1. n \in ups /\ n <= u
      BY <2>2, <2>4 DEF NextUp
    <3> QED
      BY <1>1, <2>1, <2>2, <3>1
  <2>5. NextUp(view, from) = {u}
    BY <2>3, <2>4
  <2>6. Visited(view, from) = {n \in Todo(view, from) : n <= u}
    BY <2>5 DEF Visited
  <2>7. \A n \in Nodes : n >= from /\ n < u => view[n] # "up"
    BY <1>1, <1>2, <2>1, <2>2
  <2> QED
    BY <2>2, <2>5, <2>6, <2>7 DEF Stops
<1> QED
  BY <1>3, <1>4

\* What a walk comes by is on its list and, except the lane it stops at, down.
LEMMA WalkVisits ==
  ASSUME NEW view, NEW from \in Nat
  PROVE  /\ Visited(view, from) \subseteq Listed(view)
         /\ Down(view, from) \subseteq {n \in Listed(view) : view[n] # "up"}
         /\ NextUp(view, from) \subseteq {n \in Listed(view) : n >= from /\ view[n] = "up"}
         /\ Down(view, from) \subseteq {n \in Nodes : n >= from}
<1> USE NodeServiceAssumption
<1>1. Visited(view, from) \subseteq Todo(view, from)
      /\ NextUp(view, from) \subseteq {n \in Todo(view, from) : view[n] = "up"}
  BY DEF Visited, NextUp
<1>2. Todo(view, from) \subseteq {n \in Listed(view) : n >= from}
  BY DEF Todo, Listed
<1>3. Listed(view) \subseteq Nodes
  BY DEF Listed
<1>4. ASSUME NEW n \in Down(view, from) PROVE view[n] # "up"
  <2>1. n \in Visited(view, from) /\ n \notin NextUp(view, from) /\ n \in Nodes /\ n >= from
    BY <1>1, <1>2, <1>3, <1>4 DEF Down
  <2>2. CASE Ends(view, from)
    BY <2>1, <2>2 DEF Ends
  <2>3. CASE \E u \in Nodes : Stops(view, from, u)
    <3>1. PICK u \in Nodes : Stops(view, from, u)
      BY <2>3
    <3>2. n <= u /\ n # u
      BY <2>1, <3>1 DEF Stops
    <3> QED
      BY <2>1, <3>1, <3>2 DEF Stops
  <2> QED
    BY <2>2, <2>3, WalkStopsOrEnds
<1>5. Down(view, from) \subseteq Visited(view, from)
  BY DEF Down
<1> QED
  BY <1>1, <1>2, <1>3, <1>4, <1>5

\* A walk connects the lane it stops at and disconnects what it finds down or
\* stale; it remembers what it comes by; it ends, or waits behind that lane.
Connects(view, from, stale) ==
  \A n \in Nodes : Connected(n)' <=>
    \/ n \in NextUp(view, from)
    \/ Connected(n) /\ n \notin stale /\ n \notin Down(view, from)
Fails(view, from, stale) ==
  \A r \in Requests : future'[r] = "disconnected" =>
    future[r] = "disconnected" \/ Target[r] \in stale \/ Target[r] \in Down(view, from)
Moves(s, view, from) ==
  \/ Ends(view, from) /\ sync' = [sync EXCEPT ![s] = Idle]
  \/ \E u \in Nodes :
       /\ Stops(view, from, u)
       /\ sync' = [sync EXCEPT ![s] = [pc |-> "updating", view |-> view, next |-> u + 1]]

LEMMA WalkDoes ==
  ASSUME RegInv, NEW s, NEW view, NEW from \in Nat, NEW stale, Walk(s, view, from, stale)
  PROVE  /\ Connects(view, from, stale) /\ Fails(view, from, stale)
         /\ remembered' = (remembered \ stale) \cup Visited(view, from)
         /\ Moves(s, view, from)
         /\ UNCHANGED <<lane, steady>>
<1> DEFINE up == NextUp(view, from)
           gone == (stale \cup Down(view, from)) \cap nodesByConn
<1>0. /\ nodesById' = [n \in Nodes |->
                         IF n \in up THEN [conn |-> n, commands |-> {}]
                         ELSE IF n \in gone THEN NoSession ELSE nodesById[n]]
      /\ Lose(gone)
      /\ remembered' = (remembered \ stale) \cup Visited(view, from)
      /\ sync' = [sync EXCEPT ![s] =
                    IF up = {} THEN Idle
                    ELSE [pc |-> "updating", view |-> view,
                          next |-> 1 + CHOOSE n \in up : TRUE]]
      /\ UNCHANGED <<lane, steady>>
  BY Zenon DEF Walk
<1>1. Connects(view, from, stale)
  <2> SUFFICES ASSUME NEW n \in Nodes
               PROVE  Connected(n)' <=> \/ n \in up
                                        \/ Connected(n) /\ n \notin stale
                                           /\ n \notin Down(view, from)
    BY DEF Connects
  <2>1. CASE n \in up
    <3>1. [conn |-> n, commands |-> {}] # NoSession
      BY NodeRegistryAssumption, NodeServiceAssumption DEF NoSession
    <3> QED
      BY <1>0, <2>1, <3>1 DEF Connected
  <2>2. CASE n \notin up /\ n \in gone
    BY <1>0, <2>2 DEF Connected
  <2>3. CASE n \notin up /\ n \notin gone
    <3>1. Connected(n)' <=> Connected(n)
      BY <1>0, <2>3 DEF Connected
    <3>2. Connected(n) => n \notin stale /\ n \notin Down(view, from)
      BY <2>3, OwnConnection
    <3> QED
      BY <2>3, <3>1, <3>2
  <2> QED
    BY <2>1, <2>2, <2>3
<1>2. Fails(view, from, stale)
  BY <1>0 DEF Fails, Lose
<1>3. Moves(s, view, from)
  <2>1. CASE Ends(view, from)
    BY <1>0, <2>1 DEF Moves, Ends
  <2>2. CASE \E u \in Nodes : Stops(view, from, u)
    <3>1. PICK u \in Nodes : Stops(view, from, u)
      BY <2>2
    <3>2. up = {u} /\ u \in Nat
      BY <3>1, NodeServiceAssumption DEF Stops
    <3> HIDE DEF up
    <3>3. (CHOOSE n \in up : TRUE) = u
      BY <3>2
    <3>4. 1 + u = u + 1 /\ up # {}
      BY <3>2
    <3>5. sync' = [sync EXCEPT ![s] = [pc |-> "updating", view |-> view, next |-> u + 1]]
      BY <1>0, <3>3, <3>4
    <3> QED
      BY <3>1, <3>5 DEF Moves
  <2> QED
    BY <2>1, <2>2, WalkStopsOrEnds
<1> QED
  BY <1>0, <1>1, <1>2, <1>3

-----------------------------------------------------------------------------
(* _syncs that do not overlap                                              *)

Busy(s) == sync[s].pc # "idle"
Alone == \A s, t \in Syncs : Busy(s) /\ Busy(t) => s = t

\* Only a managed node is remembered or connected, and the nodes on the list
\* of the _sync under way are the managed ones.
Roster ==
  /\ remembered \subseteq managed
  /\ \A n \in Nodes : Connected(n) => n \in managed
  /\ \A s \in Syncs : Busy(s) => Listed(sync[s].view) = managed

\* Behind a walk that saw no change every node is as its lane.
Walked(s) ==
  /\ sync[s].view = lane
  /\ \A n \in managed : n < sync[s].next =>
       n \in remembered /\ (Connected(n) <=> lane[n] = "up")
CleanWalk == \A s \in clean : Busy(s) => Walked(s)

\* What was invoked over a connected lane is on no list as anything else.
SteadyLanes ==
  \A r \in steady :
    /\ lane[Target[r]] = "up" /\ future[r] # "disconnected"
    /\ \A s \in Syncs : Busy(s) => sync[s].view[Target[r]] = "up"

AloneInv == Alone /\ Roster /\ CleanWalk /\ SyncSettles /\ SteadyLanes
ServiceInv == RegInv /\ ServiceType /\ (overlapped \/ AloneInv)

LEMMA IdleIsSync == Idle \in SyncType
BY DEF Idle, SyncType, Lanes

LEMMA ServiceInvInit == Init => ServiceInv
<1> SUFFICES ASSUME Init PROVE ServiceInv
  OBVIOUS
<1>1. RegInv
  BY RegInvInit DEF Init
<1>2. ServiceType
  BY IdleIsSync DEF Init, ServiceType, Lanes
<1>3. \A s \in Syncs : ~ Busy(s)
  BY DEF Init, Busy, Idle
<1>4. \A n \in Nodes : ~ Connected(n)
  BY DEF Init, RegistryInit, Connected
<1>5. Alone /\ Roster /\ CleanWalk
  BY <1>3, <1>4 DEF Alone, Roster, CleanWalk, Init
<1>6. SyncSettles /\ SteadyLanes
  BY DEF Init, SyncSettles, SteadyLanes
<1> QED
  BY <1>1, <1>2, <1>5, <1>6 DEF ServiceInv, AloneInv

\* The record a walk leaves of itself.
LEMMA WalkSync ==
  ASSUME ServiceType, NEW s \in Syncs, NEW view \in [Nodes -> Lanes], NEW from,
         Moves(s, view, from)
  PROVE  /\ sync' \in [Syncs -> SyncType]
         /\ \A t \in Syncs \ {s} : sync'[t] = sync[t]
         /\ \/ Ends(view, from) /\ ~ Busy(s)'
            \/ \E u \in Nodes : /\ Stops(view, from, u) /\ Busy(s)'
                                /\ sync'[s].view = view /\ sync'[s].next = u + 1
<1>0. sync \in [Syncs -> SyncType]
  BY DEF ServiceType
<1>1. CASE Ends(view, from) /\ sync' = [sync EXCEPT ![s] = Idle]
  BY <1>0, <1>1, IdleIsSync DEF Busy, Idle
<1>2. CASE \E u \in Nodes :
             /\ Stops(view, from, u)
             /\ sync' = [sync EXCEPT ![s] = [pc |-> "updating", view |-> view,
                                             next |-> u + 1]]
  <2>1. PICK u \in Nodes :
             /\ Stops(view, from, u)
             /\ sync' = [sync EXCEPT ![s] = [pc |-> "updating", view |-> view,
                                             next |-> u + 1]]
    BY <1>2
  <2> DEFINE new == [pc |-> "updating", view |-> view, next |-> u + 1]
  <2>2. new \in SyncType /\ new.pc # "idle" /\ new.view = view /\ new.next = u + 1
    BY NodeServiceAssumption DEF SyncType
  <2>3. sync' = [sync EXCEPT ![s] = new]
    BY <2>1
  <2> HIDE DEF new
  <2>4. sync'[s] = new /\ sync' \in [Syncs -> SyncType]
        /\ \A t \in Syncs \ {s} : sync'[t] = sync[t]
    BY <1>0, <2>2, <2>3
  <2> QED
    BY <2>1, <2>2, <2>4 DEF Busy
<1> QED
  BY <1>1, <1>2 DEF Moves

\* The types of the service are kept by a walk.
LEMMA WalkType ==
  ASSUME RegInv, ServiceType, NEW s \in Syncs, NEW view \in [Nodes -> Lanes],
         NEW from \in Nat, NEW stale, Walk(s, view, from, stale),
         managed' \subseteq Nodes, clean' \subseteq Syncs
  PROVE  ServiceType'
<1>1. /\ remembered' = (remembered \ stale) \cup Visited(view, from)
      /\ Moves(s, view, from) /\ UNCHANGED <<lane, steady>>
  BY WalkDoes
<1>2. Visited(view, from) \subseteq Nodes
  BY WalkVisits DEF Listed
<1>3. sync' \in [Syncs -> SyncType]
  BY <1>1, WalkSync
<1> QED
  BY <1>1, <1>2, <1>3 DEF ServiceType

\* A walk that is alone, over the list its _sync took of the managed nodes.
LEMMA WalkRoster ==
  ASSUME RegInv, ServiceType, NEW s \in Syncs, NEW view \in [Nodes -> Lanes],
         NEW from \in Nat, NEW stale, Walk(s, view, from, stale),
         \A t \in Syncs \ {s} : ~ Busy(t),
         remembered \ stale \subseteq managed',
         \A n \in Nodes : Connected(n) /\ n \notin stale => n \in managed',
         Listed(view) = managed'
  PROVE  Alone' /\ Roster'
<1>1. /\ Connects(view, from, stale)
      /\ remembered' = (remembered \ stale) \cup Visited(view, from)
      /\ Moves(s, view, from)
  BY WalkDoes
<1>2. \A t \in Syncs \ {s} : ~ Busy(t)'
  BY <1>1, WalkSync DEF Busy
<1>3. Busy(s)' => sync'[s].view = view
  BY <1>1, WalkSync
<1>4. Alone'
  BY <1>2 DEF Alone
<1>5. remembered' \subseteq managed'
  BY <1>1, WalkVisits
<1>6. \A n \in Nodes : Connected(n)' => n \in managed'
  BY <1>1, WalkVisits DEF Connects
<1>7. \A t \in Syncs : Busy(t)' => Listed(sync'[t].view) = managed'
  BY <1>2, <1>3
<1>8. Roster'
  BY <1>5, <1>6, <1>7 DEF Roster, Listed
<1> QED
  BY <1>4, <1>8

\* Where the walk has come to, every node is as its lane; at the end, all are.
LEMMA WalkClean ==
  ASSUME RegInv, ServiceType, NEW s \in Syncs, NEW from \in Nat, NEW stale,
         Walk(s, lane, from, stale), Listed(lane) = managed',
         \A n \in managed' : n < from =>
           /\ n \in remembered /\ n \notin stale
           /\ Connected(n) <=> lane[n] = "up"
  PROVE  /\ Busy(s)' => Walked(s)'
         /\ ~ Busy(s)' => \A n \in managed' :
              n \in remembered' /\ (Connected(n)' <=> lane[n] = "up")
<1> USE NodeServiceAssumption
<1>0. lane \in [Nodes -> Lanes]
  BY DEF ServiceType
<1>1. /\ Connects(lane, from, stale)
      /\ remembered' = (remembered \ stale) \cup Visited(lane, from)
      /\ Moves(s, lane, from) /\ lane' = lane
  BY WalkDoes
<1>2. managed' \subseteq Nodes
  BY DEF Listed
<1>3. Todo(lane, from) = {n \in managed' : n >= from}
  BY DEF Todo, Listed
<1>4. \A n \in managed' : n < from => n \in remembered' /\ (Connected(n)' <=> lane[n] = "up")
  <2> SUFFICES ASSUME NEW n \in managed', n < from
               PROVE  n \in remembered' /\ (Connected(n)' <=> lane[n] = "up")
    OBVIOUS
  <2>1. n \in Nodes /\ n \in Nat /\ ~ (n >= from)
    BY <1>2
  <2>2. n \notin NextUp(lane, from) /\ n \notin Down(lane, from)
    BY <2>1, <1>0, WalkVisits
  <2>3. Connected(n)' <=> Connected(n) /\ n \notin stale
    BY <1>1, <2>1, <2>2 DEF Connects
  <2> QED
    BY <1>1, <2>3
<1>5. \A n \in Visited(lane, from) : n \in remembered' /\ n \in Nodes
  BY <1>0, <1>1, WalkVisits DEF Listed
<1>6. ASSUME NEW n \in Visited(lane, from) PROVE Connected(n)' <=> lane[n] = "up"
  <2>1. CASE n \in NextUp(lane, from)
    BY <1>0, <1>1, <1>5, <2>1, WalkVisits DEF Connects
  <2>2. CASE n \notin NextUp(lane, from)
    <3>1. n \in Down(lane, from)
      BY <1>6, <2>2 DEF Down
    <3> QED
      BY <1>0, <1>1, <1>5, <2>2, <3>1, WalkVisits DEF Connects
  <2> QED
    BY <2>1, <2>2
<1>7. CASE Ends(lane, from) /\ ~ Busy(s)'
  <2>1. \A n \in managed' : n < from \/ n \in Visited(lane, from)
    BY <1>2, <1>3, <1>7 DEF Ends
  <2> QED
    BY <1>4, <1>5, <1>6, <1>7, <2>1
<1>8. CASE \E u \in Nodes : /\ Stops(lane, from, u) /\ Busy(s)'
                            /\ sync'[s].view = lane /\ sync'[s].next = u + 1
  <2>1. PICK u \in Nodes : /\ Stops(lane, from, u) /\ Busy(s)'
                           /\ sync'[s].view = lane /\ sync'[s].next = u + 1
    BY <1>8
  <2>2. \A n \in managed' : n < u + 1 => n < from \/ n \in Visited(lane, from)
    BY <1>2, <1>3, <2>1 DEF Stops
  <2>3. \A n \in managed' : n < sync'[s].next =>
          n \in remembered' /\ (Connected(n)' <=> lane'[n] = "up")
    BY <1>1, <1>4, <1>5, <1>6, <2>1, <2>2
  <2> QED
    BY <1>1, <2>1, <2>3 DEF Walked
<1> QED
  BY <1>0, <1>1, <1>7, <1>8, WalkSync

\* No walk loses a node whose lane is up on its list.
LEMMA WalkSteady ==
  ASSUME RegInv, ServiceType, SteadyLanes, NEW s \in Syncs,
         NEW view \in [Nodes -> Lanes], NEW from \in Nat, NEW stale,
         Walk(s, view, from, stale),
         \A t \in Syncs \ {s} : ~ Busy(t),
         \A r \in steady : view[Target[r]] = "up",
         \A n \in stale : lane[n] # "up"
  PROVE  SteadyLanes'
<1>1. /\ Fails(view, from, stale) /\ Moves(s, view, from)
      /\ lane' = lane /\ steady' = steady
  BY WalkDoes
<1>2. \A t \in Syncs : Busy(t)' => sync'[t].view = view
  BY <1>1, WalkSync DEF Busy
<1>3. ASSUME NEW r \in steady PROVE future'[r] # "disconnected"
  <2>1. r \in Requests /\ future[r] # "disconnected" /\ lane[Target[r]] = "up"
        /\ view[Target[r]] = "up"
    BY DEF ServiceType, SteadyLanes
  <2>2. Target[r] \notin stale /\ Target[r] \notin Down(view, from)
    BY <2>1, WalkVisits
  <2> QED
    BY <1>1, <2>1, <2>2 DEF Fails
<1> QED
  BY <1>1, <1>2, <1>3 DEF SteadyLanes

LEMMA StartKeeps ==
  ASSUME ServiceInv, NEW s \in Syncs, SyncStart(s)
  PROVE  ServiceInv'
<1> DEFINE listed == Listed(lane)
           stale == managed \ listed
<1>0. /\ managed' = listed /\ Walk(s, lane, 0, stale)
      /\ clean' = IF Others(s) = {} THEN {s} ELSE {}
      /\ overlapped' = (overlapped \/ Others(s) # {})
      /\ settled' = (Others(s) = {} /\ sync'[s].pc = "idle")
  BY DEF SyncStart, Listed
<1>1. RegInv /\ ServiceType
  BY DEF ServiceInv
<1>2. lane \in [Nodes -> Lanes] /\ listed \subseteq Nodes /\ 0 \in Nat
  BY <1>1 DEF ServiceType, Listed
<1>3. RegInv'
  BY <1>0, <1>1, RegInvWalk
<1>4. ServiceType'
  BY <1>0, <1>1, <1>2, WalkType
<1>5. ASSUME ~ overlapped' PROVE AloneInv'
  <2>1. ~ overlapped /\ Others(s) = {}
    BY <1>0, <1>5
  <2>2. Alone /\ Roster /\ CleanWalk /\ SyncSettles /\ SteadyLanes
    BY <2>1 DEF ServiceInv, AloneInv
  <2>3. \A t \in Syncs \ {s} : ~ Busy(t)
    BY <2>1 DEF Others, Busy
  <2>4. /\ Connects(lane, 0, stale) /\ lane' = lane
        /\ remembered' = (remembered \ stale) \cup Visited(lane, 0)
    BY <1>0, <1>1, <1>2, WalkDoes
  <2>5. /\ remembered \ stale \subseteq managed'
        /\ \A n \in Nodes : Connected(n) /\ n \notin stale => n \in managed'
    BY <1>0, <2>2 DEF Roster
  <2>6. Alone' /\ Roster'
    BY <1>0, <1>1, <1>2, <2>3, <2>5, WalkRoster
  <2>7. \A n \in managed' : ~ (n < 0)
    BY <1>0, <1>2, NodeServiceAssumption
  <2>8. /\ Busy(s)' => Walked(s)'
        /\ ~ Busy(s)' => \A n \in managed' :
             n \in remembered' /\ (Connected(n)' <=> lane[n] = "up")
    BY <1>0, <1>1, <1>2, <2>7, WalkClean
  <2>9. CleanWalk'
    <3>1. clean' = {s}
      BY <1>0, <2>1
    <3> QED
      BY <2>8, <3>1 DEF CleanWalk
  <2>10. SyncSettles'
    <3> SUFFICES ASSUME settled'
                 PROVE  /\ \A n \in Nodes : Connected(n)' <=> lane'[n] = "up"
                        /\ remembered' = {n \in Nodes : Exists(lane'[n])}
      BY DEF SyncSettles
    <3>1. ~ Busy(s)'
      BY <1>0 DEF Busy
    <3>2. remembered' \subseteq managed'
          /\ \A n \in Nodes : Connected(n)' => n \in managed'
      BY <2>6 DEF Roster
    <3>3. managed' = {n \in Nodes : Exists(lane[n])}
      BY <1>0 DEF Listed
    <3> QED
      BY <2>4, <2>8, <3>1, <3>2, <3>3 DEF Exists
  <2>11. SteadyLanes'
    <3>1. \A r \in steady : lane[Target[r]] = "up"
      BY <2>2 DEF SteadyLanes
    <3>2. \A n \in stale : lane[n] # "up"
      BY <1>1 DEF ServiceType, Listed, Exists
    <3> QED
      BY <1>0, <1>1, <1>2, <2>2, <2>3, <3>1, <3>2, WalkSteady
  <2> QED
    BY <2>6, <2>9, <2>10, <2>11 DEF AloneInv
<1> QED
  BY <1>3, <1>4, <1>5 DEF ServiceInv

LEMMA ResumeKeeps ==
  ASSUME ServiceInv, NEW s \in Syncs, SyncResume(s)
  PROVE  ServiceInv'
<1> DEFINE view == sync[s].view
           from == sync[s].next
<1>0. /\ Walk(s, view, from, {}) /\ Busy(s)
      /\ settled' = (s \in clean /\ sync'[s].pc = "idle")
      /\ managed' = managed /\ clean' = clean /\ overlapped' = overlapped
  BY DEF SyncResume, Busy
<1>1. RegInv /\ ServiceType
  BY DEF ServiceInv
<1>2. view \in [Nodes -> Lanes] /\ from \in Nat
  BY <1>1 DEF ServiceType, SyncType
<1>3. RegInv'
  BY <1>0, <1>1, RegInvWalk
<1>4. ServiceType'
  BY <1>0, <1>1, <1>2, WalkType DEF ServiceType
<1>5. ASSUME ~ overlapped' PROVE AloneInv'
  <2>2. Alone /\ Roster /\ CleanWalk /\ SyncSettles /\ SteadyLanes
    BY <1>0, <1>5 DEF ServiceInv, AloneInv
  <2>3. \A t \in Syncs \ {s} : ~ Busy(t)
    BY <1>0, <2>2 DEF Alone
  <2>4. /\ Moves(s, view, from) /\ lane' = lane
    BY <1>0, <1>1, <1>2, WalkDoes
  <2>5. Listed(view) = managed'
    BY <1>0, <2>2 DEF Roster
  <2>6. Alone' /\ Roster'
    <3>1. /\ remembered \ {} \subseteq managed'
          /\ \A n \in Nodes : Connected(n) /\ n \notin {} => n \in managed'
      BY <1>0, <2>2 DEF Roster
    <3> QED
      BY <1>0, <1>1, <1>2, <2>3, <2>5, <3>1, WalkRoster
  <2>8. ASSUME s \in clean
        PROVE  /\ Busy(s)' => Walked(s)'
               /\ ~ Busy(s)' => \A n \in managed' :
                    n \in remembered' /\ (Connected(n)' <=> lane[n] = "up")
    <3>1. view = lane /\ \A n \in managed' : n < from =>
             /\ n \in remembered /\ n \notin {}
             /\ Connected(n) <=> lane[n] = "up"
      BY <1>0, <2>2, <2>8 DEF CleanWalk, Walked
    <3>2. Walk(s, lane, from, {}) /\ Listed(lane) = managed'
      BY <1>0, <2>5, <3>1
    <3> HIDE DEF from
    <3> QED
      BY <1>1, <1>2, <3>1, <3>2, WalkClean
  <2>9. CleanWalk'
    <3>1. \A t \in Syncs \ {s} : ~ Busy(t)'
      BY <1>1, <1>2, <2>3, <2>4, WalkSync DEF Busy
    <3> QED
      BY <1>0, <1>1, <2>8, <3>1 DEF CleanWalk, ServiceType
  <2>10. SyncSettles'
    <3> SUFFICES ASSUME settled'
                 PROVE  /\ \A n \in Nodes : Connected(n)' <=> lane'[n] = "up"
                        /\ remembered' = {n \in Nodes : Exists(lane'[n])}
      BY DEF SyncSettles
    <3>1. ~ Busy(s)' /\ s \in clean
      BY <1>0 DEF Busy
    <3>2. remembered' \subseteq managed'
          /\ \A n \in Nodes : Connected(n)' => n \in managed'
      BY <2>6 DEF Roster
    <3>3. view = lane
      BY <1>0, <2>2, <3>1 DEF CleanWalk, Walked
    <3>4. managed' = {n \in Nodes : Exists(lane[n])}
      BY <2>5, <3>3 DEF Listed
    <3> QED
      BY <2>4, <2>8, <3>1, <3>2, <3>4 DEF Exists
  <2>11. SteadyLanes'
    <3>1. \A r \in steady : view[Target[r]] = "up"
      BY <1>0, <2>2 DEF SteadyLanes
    <3> QED
      BY <1>0, <1>1, <1>2, <2>2, <2>3, <3>1, WalkSteady
  <2> QED
    BY <2>6, <2>9, <2>10, <2>11 DEF AloneInv
<1> QED
  BY <1>3, <1>4, <1>5 DEF ServiceInv

\* A lane changes between the steps of the _syncs: what is invoked over it is
\* no longer steady, and no walk that is under way is clean.
LEMMA ChangeKeeps ==
  ASSUME ServiceInv, NEW n \in Nodes,
         CreateLane(n) \/ ConnectLane(n) \/ LaneDrops(n) \/ DeleteLane(n)
  PROVE  ServiceInv'
<1>0. PICK from \in SUBSET Lanes, to \in Lanes : ChangeLane(n, from, to)
  BY DEF CreateLane, ConnectLane, LaneDrops, DeleteLane, Lanes
<1> USE DEF ServiceInv
<1>1. /\ lane' = [lane EXCEPT ![n] = to]
      /\ clean' = {} /\ settled' = FALSE /\ overlapped' = overlapped
      /\ steady' = {r \in steady : Target[r] # n}
      /\ UNCHANGED <<registryVars, serviceVars>>
  BY <1>0 DEF ChangeLane, Changes
<1>2. RegInv'
  BY <1>1, RegInvStutter DEF registryVars
<1>3. managed' = managed /\ remembered' = remembered /\ sync' = sync
      /\ nodesById' = nodesById /\ future' = future
  BY <1>1 DEF serviceVars, registryVars, sessionVars, invokeVars
<1>4. ServiceType'
  BY <1>1, <1>3 DEF ServiceType
<1>5. ASSUME AloneInv PROVE AloneInv'
  <2>1. Alone' /\ Roster'
    BY <1>3, <1>5 DEF AloneInv, Alone, Roster, Busy, Listed, Connected
  <2>2. CleanWalk' /\ SyncSettles'
    BY <1>1 DEF CleanWalk, SyncSettles
  <2>3. ASSUME NEW r \in steady' PROVE lane'[Target[r]] = "up"
    BY <1>1, <1>5, NodeRegistryAssumption DEF ServiceType, AloneInv, SteadyLanes
  <2>4. SteadyLanes'
    BY <1>1, <1>3, <1>5, <2>3 DEF AloneInv, SteadyLanes, Busy
  <2> QED
    BY <2>1, <2>2, <2>4 DEF AloneInv
<1> QED
  BY <1>1, <1>2, <1>4, <1>5

LEMMA DisconnectKeeps ==
  ASSUME ServiceInv, NEW n \in Nodes, DisconnectDevice(n)
  PROVE  ServiceInv'
<1> USE DEF ServiceInv
<1>1. /\ Connected(n) /\ Unregister(nodesById[n].conn)
      /\ clean' = {} /\ settled' = FALSE /\ overlapped' = overlapped
      /\ steady' = {r \in steady : Target[r] # n}
      /\ lane' = lane /\ managed' = managed /\ remembered' = remembered /\ sync' = sync
  BY DEF DisconnectDevice, Changes, serviceVars
<1>2. nodesById[n].conn = n /\ n \in Conns /\ Owner[n] = n
  BY <1>1, OwnConnection, NodeServiceAssumption
<1>3. RegInv'
  BY <1>1, <1>2, RegInvUnregister
<1>4. ServiceType'
  BY <1>1 DEF ServiceType
<1>5. nodesById' = [nodesById EXCEPT ![n] = NoSession] /\ Lose({n})
  BY <1>1, <1>2 DEF Unregister
<1>6. \A m \in Nodes : Connected(m)' => Connected(m)
  BY <1>5 DEF RegInv, SessionType, Connected
<1>7. \A r \in Requests : Target[r] # n => future'[r] = future[r]
  BY <1>5 DEF Lose
<1>8. ASSUME AloneInv PROVE AloneInv'
  <2>1. Alone' /\ Roster'
    BY <1>1, <1>6, <1>8 DEF AloneInv, Alone, Roster, Busy, Listed
  <2>2. CleanWalk' /\ SyncSettles'
    BY <1>1 DEF CleanWalk, SyncSettles
  <2>3. SteadyLanes'
    BY <1>1, <1>7, <1>8 DEF ServiceType, AloneInv, SteadyLanes, Busy
  <2> QED
    BY <2>1, <2>2, <2>3 DEF AloneInv
<1> QED
  BY <1>1, <1>3, <1>4, <1>8

\* An invoke is sent when no _sync is under way, or requests have overlapped.
LEMMA InvokeKeeps ==
  ASSUME ServiceInv, InvokeStep
  PROVE  ServiceInv'
<1> DEFINE sent == {r \in Requests : caller[r] = "new" /\ caller'[r] = "waiting"}
<1> USE DEF ServiceInv
<1>1. /\ InvokeNext
      /\ steady' = steady \cup {r \in sent : lane[Target[r]] = "up"}
      /\ overlapped' = (overlapped \/ (sent # {} /\ \E s \in Syncs : Busy(s)))
      /\ lane' = lane /\ managed' = managed /\ remembered' = remembered /\ sync' = sync
      /\ clean' = clean /\ settled' = settled
  BY DEF InvokeStep, serviceVars, Busy
<1>2. RegInv'
  BY <1>1, RegInvNext DEF RegistryNext
<1>3. nodesById' = nodesById
  BY <1>1 DEF InvokeNext, InvokeRefused, Invoke, TimerFires, CancelCaller, Resume,
              HandleInvokeResult, sessionVars
<1>4. ServiceType'
  BY <1>1 DEF ServiceType
<1>5. ASSUME ~ overlapped' PROVE AloneInv'
  <2>1. AloneInv /\ (sent = {} \/ \A s \in Syncs : ~ Busy(s))
    BY <1>1, <1>5
  <2>2. Alone' /\ Roster' /\ CleanWalk' /\ SyncSettles'
    BY <1>1, <1>3, <2>1
    DEF AloneInv, Alone, Roster, CleanWalk, SyncSettles, Walked, Busy, Listed, Connected
  <2>3. ASSUME NEW r \in steady'
        PROVE  /\ lane[Target[r]] = "up" /\ future'[r] # "disconnected"
               /\ \A s \in Syncs : Busy(s) => sync[s].view[Target[r]] = "up"
    <3>1. CASE r \in steady
      BY <1>1, <2>1, <3>1, InvokesKeepConnected DEF AloneInv, SteadyLanes, ServiceType
    <3>2. CASE r \in sent /\ lane[Target[r]] = "up"
      <4>1. future[r] = "none"
        BY <3>2 DEF RegInv, CallsMatch
      <4> QED
        BY <1>1, <2>1, <3>2, <4>1, InvokesKeepConnected
    <3> QED
      BY <1>1, <2>3, <3>1, <3>2
  <2>4. SteadyLanes'
    BY <1>1, <2>3 DEF SteadyLanes, Busy
  <2> QED
    BY <2>2, <2>4 DEF AloneInv
<1> QED
  BY <1>2, <1>4, <1>5

LEMMA ServiceInvNext == ServiceInv /\ [Next]_vars => ServiceInv'
<1> SUFFICES ASSUME ServiceInv, [Next]_vars PROVE ServiceInv'
  OBVIOUS
<1>1. CASE \E s \in Syncs : SyncStart(s) \/ SyncResume(s)
  BY <1>1, StartKeeps, ResumeKeeps
<1>2. CASE \E n \in Nodes : CreateLane(n) \/ ConnectLane(n) \/ LaneDrops(n)
                            \/ DeleteLane(n) \/ DisconnectDevice(n)
  BY <1>2, ChangeKeeps, DisconnectKeeps
<1>3. CASE InvokeStep
  BY <1>3, InvokeKeeps
<1>4. CASE UNCHANGED vars
  <2>1. UNCHANGED <<registryVars, lane, managed, remembered, sync, clean, settled,
                    overlapped, steady>>
    BY <1>4 DEF vars, serviceVars, historyVars
  <2>2. RegInv'
    BY <2>1, RegInvStutter DEF ServiceInv, registryVars
  <2>3. nodesById' = nodesById /\ future' = future
    BY <2>1 DEF registryVars, sessionVars, invokeVars
  <2>4. ServiceType'
    BY <2>1 DEF ServiceInv, ServiceType
  <2>5. ASSUME AloneInv PROVE AloneInv'
    BY <2>1, <2>3, <2>5 DEF AloneInv, Alone, Roster, CleanWalk, SyncSettles, SteadyLanes,
       Walked, Busy, Listed, Connected
  <2> QED
    BY <2>1, <2>2, <2>4, <2>5 DEF ServiceInv
<1> QED
  BY <1>1, <1>2, <1>3, <1>4 DEF Next

LEMMA ServiceInvHolds == Spec => []ServiceInv
<1> QED
  BY ServiceInvInit, ServiceInvNext, PTL DEF Spec

\* While requests come one after the other, a _sync that saw no change leaves
\* the registry with the lanes that exist and the connections that are, for
\* any number of lanes and whatever they did before it and between its awaits.
THEOREM SyncsSettle == Spec => []SyncSettlesAlone
<1>1. ServiceInv => SyncSettlesAlone
  BY DEF ServiceInv, AloneInv, SyncSettlesAlone
<1> QED
  BY <1>1, ServiceInvHolds, PTL

\* While they do, no invoke fails as disconnected whose lane stayed connected.
THEOREM DisconnectsReal == Spec => []DisconnectsAreReal
<1>1. ServiceInv => DisconnectsAreReal
  BY DEF ServiceInv, AloneInv, SteadyLanes, DisconnectsAreReal
<1> QED
  BY <1>1, ServiceInvHolds, PTL

=============================================================================
