---------------------------- MODULE RateLimitProofs ----------------------------
(***************************************************************************)
(* Theorems about RateLimit, for every window and every limit.             *)
(***************************************************************************)
EXTENDS RateLimit, FiniteSetTheorems, TLAPS

\* The numbers of the code's lists are numbers: sets of times are finite.
LEMMA TimesFinite ==
  ASSUME NEW n \in Nat, NEW S \in SUBSET (1..n)
  PROVE  IsFiniteSet(S) /\ Cardinality(S) \in Nat
<1>1. IsFiniteSet(1..n)
  BY FS_Interval
<1>2. IsFiniteSet(S)
  BY <1>1, FS_Subset
<1> QED BY <1>2, FS_CardinalityType

\* A set of grants with one time each is no larger than the set of its times.
LEMMA AtMostTimes ==
  ASSUME NEW T, IsFiniteSet(T), NEW G, \A g \in G : g[2] \in T,
         \A g, h \in G : g[2] = h[2] => g = h
  PROVE  IsFiniteSet(G) /\ Cardinality(G) <= Cardinality(T)
<1> DEFINE f == [g \in G |-> g[2]]
<1>1. f \in Injection(G, T)
  BY DEF Injection, IsInjective
<1> QED BY <1>1, FS_Injection

LimitInv == TypeOK /\ Remembered

\* Pruning forgets nothing that is still in the window.
LEMMA AllowedKeeps ==
  ASSUME LimitInv, NEW ip \in IPs, NEW time \in 1..MaxTime, time > now, now' = time,
         Allowed(ip, time)
  PROVE  LimitInv'
<1> DEFINE all == [attempts EXCEPT ![ip] = Fresh(@, time) \cup {time}]
           kept == Kept(tracked \cup {ip}, all, time)
<1> USE DEF LimitInv
<1>1. now \in Nat /\ MaxTime \in Nat /\ Window \in Nat /\ now <= MaxTime
  BY LimitsAssumption DEF TypeOK
<1>2. /\ all \in [IPs -> SUBSET (1..time)]
      /\ all[ip] = Fresh(attempts[ip], time) \cup {time}
      /\ \A i \in IPs \ {ip} : all[i] = attempts[i]
      /\ \A i \in IPs : \A t \in all[i] : t \in 1..now \/ (i = ip /\ t = time)
  BY <1>1 DEF TypeOK, Fresh
<1>3. kept \subseteq tracked \cup {ip} /\ kept \subseteq IPs
  BY DEF Kept, TypeOK
<1>4. \A i \in tracked \cup {ip} : i \notin kept => \A t \in all[i] : time - t >= Window
  BY DEF Kept, Stale
<1>5. /\ global' = Fresh(global, time) \cup {time} /\ tracked' = kept
      /\ attempts' = [i \in IPs |-> IF i \in kept THEN all[i] ELSE {}]
      /\ granted' = granted \cup {<<ip, time>>}
  BY DEF Allowed, Recorded
<1> HIDE DEF all, kept
<1>6. TypeOK'
  <2>1. time \in 0..MaxTime /\ 1..now \subseteq 1..time /\ time \in 1..time
    BY <1>1
  <2>2. tracked' \subseteq IPs /\ attempts' \in [IPs -> SUBSET (1..time)]
    BY <1>2, <1>3, <1>5
  <2>3. \A i \in IPs \ tracked' : attempts'[i] = {}
    BY <1>5
  <2>4. global' \subseteq 1..time
    BY <1>5, <2>1 DEF TypeOK, Fresh
  <2>5. granted' \subseteq IPs \X (1..time)
    BY <1>5, <2>1 DEF TypeOK
  <2> QED BY <2>1, <2>2, <2>3, <2>4, <2>5 DEF TypeOK
<1>7. ASSUME NEW i \in IPs, NEW t \in 1..time, time - t < Window
      PROVE  t \in attempts'[i] <=> <<i, t>> \in granted'
  <2>1. CASE t = time
    <3>1. <<i, t>> \in granted' <=> i = ip
      BY <1>1, <1>5, <2>1 DEF TypeOK
    <3>2. ip \in kept
      <4>1. ~(time - time >= Window)
        BY LimitsAssumption
      <4> QED BY <4>1, <1>2, <1>4
    <3>3. t \in attempts'[i] <=> i = ip
      <4>1. i = ip => t \in attempts'[i]
        BY <1>2, <1>5, <2>1, <3>2
      <4>2. i # ip => t \notin attempts'[i]
        BY <1>1, <1>2, <1>5, <2>1
      <4> QED BY <4>1, <4>2
    <3> QED BY <3>1, <3>3
  <2>2. CASE t # time /\ t \in 1..now
    <3>1. now - t < Window
      BY <1>1, <1>7, <2>2
    <3>2. t \in attempts[i] <=> <<i, t>> \in granted
      BY <2>2, <3>1 DEF Remembered
    <3>3. t \in all[i] <=> t \in attempts[i]
      BY <1>2, <1>7, <2>2 DEF Fresh
    <3>4. t \in attempts'[i] <=> t \in all[i]
      <4>1. t \in all[i] => i \in kept
        <5>1. t \in all[i] => i \in tracked \cup {ip}
          BY <1>2, <3>3 DEF TypeOK
        <5> QED BY <1>1, <1>4, <1>7, <5>1
      <4> QED BY <1>5, <4>1
    <3>5. <<i, t>> \in granted' <=> <<i, t>> \in granted
      BY <1>5, <2>2
    <3> QED BY <3>2, <3>3, <3>4, <3>5
  <2>3. CASE t # time /\ t \notin 1..now
    <3>1. t \notin attempts'[i]
      BY <1>2, <1>5, <2>3
    <3>2. <<i, t>> \notin granted'
      BY <1>5, <2>3 DEF TypeOK
    <3> QED BY <3>1, <3>2
  <2> QED BY <2>1, <2>2, <2>3
<1>8. ASSUME NEW t \in 1..time, time - t < Window
      PROVE  t \in global' <=> \E i \in IPs : <<i, t>> \in granted'
  <2>1. CASE t = time
    BY <1>5, <2>1
  <2>2. CASE t # time /\ t \in 1..now
    <3>1. now - t < Window
      BY <1>1, <1>8, <2>2
    <3>2. t \in global <=> \E i \in IPs : <<i, t>> \in granted
      BY <2>2, <3>1 DEF Remembered
    <3>3. t \in global' <=> t \in global
      BY <1>5, <1>8, <2>2 DEF Fresh
    <3> QED BY <1>5, <2>2, <3>2, <3>3
  <2>3. CASE t # time /\ t \notin 1..now
    BY <1>5, <2>3 DEF TypeOK, Fresh
  <2> QED BY <2>1, <2>2, <2>3
<1>9. ASSUME NEW g \in granted', NEW h \in granted', g[2] = h[2]
      PROVE  g = h
  <2>1. \A x \in granted : x[2] # time
    BY <1>1 DEF TypeOK
  <2>2. g \in granted <=> h \in granted
    BY <1>5, <1>9, <2>1
  <2>3. CASE g \in granted
    BY <1>9, <2>2, <2>3 DEF Remembered
  <2>4. CASE g \notin granted
    BY <1>5, <2>2, <2>4
  <2> QED BY <2>3, <2>4
<1>10. Remembered'
  BY <1>7, <1>8, <1>9 DEF Remembered
<1> QED BY <1>6, <1>10

\* A refused call forgets only what has left the window.
LEMMA RefusedKeeps ==
  ASSUME LimitInv, NEW ip \in IPs, NEW time \in 1..MaxTime, time > now, now' = time,
         RefusedGlobally(ip, time) \/ RefusedForIP(ip, time)
  PROVE  LimitInv'
<1> USE DEF LimitInv
<1>1. now \in Nat /\ MaxTime \in Nat /\ Window \in Nat /\ now <= MaxTime
  BY LimitsAssumption DEF TypeOK
<1>2. /\ global' = Fresh(global, time) /\ granted' = granted
      /\ \/ attempts' = attempts /\ tracked' = tracked
         \/ /\ attempts' = [attempts EXCEPT ![ip] = Fresh(@, time)]
            /\ tracked' = tracked \cup {ip}
  BY DEF RefusedGlobally, RefusedForIP
<1>3. TypeOK'
  <2>1. time \in 0..MaxTime /\ 1..now \subseteq 1..time
    BY <1>1
  <2>2. tracked' \subseteq IPs /\ attempts' \in [IPs -> SUBSET (1..time)]
    BY <1>2, <2>1 DEF TypeOK, Fresh
  <2>3. \A i \in IPs \ tracked' : attempts'[i] = {}
    BY <1>2 DEF TypeOK, Fresh
  <2>4. global' \subseteq 1..time /\ granted' \subseteq IPs \X (1..time)
    BY <1>2, <2>1 DEF TypeOK, Fresh
  <2> QED BY <2>1, <2>2, <2>3, <2>4 DEF TypeOK
<1>4. ASSUME NEW i \in IPs, NEW t \in 1..time, time - t < Window
      PROVE  t \in attempts'[i] <=> <<i, t>> \in granted'
  <2>1. t \in attempts'[i] <=> t \in attempts[i]
    BY <1>2, <1>4 DEF TypeOK, Fresh
  <2>2. CASE t \in 1..now
    <3>1. now - t < Window
      BY <1>1, <1>4, <2>2
    <3> QED BY <1>2, <2>1, <2>2, <3>1 DEF Remembered
  <2>3. CASE t \notin 1..now
    BY <1>2, <2>1, <2>3 DEF TypeOK
  <2> QED BY <2>2, <2>3
<1>5. ASSUME NEW t \in 1..time, time - t < Window
      PROVE  t \in global' <=> \E i \in IPs : <<i, t>> \in granted'
  <2>1. t \in global' <=> t \in global
    BY <1>2, <1>5 DEF Fresh
  <2>2. CASE t \in 1..now
    <3>1. now - t < Window
      BY <1>1, <1>5, <2>2
    <3> QED BY <1>2, <2>1, <2>2, <3>1 DEF Remembered
  <2>3. CASE t \notin 1..now
    BY <1>2, <2>1, <2>3 DEF TypeOK
  <2> QED BY <2>2, <2>3
<1>6. Remembered'
  BY <1>2, <1>4, <1>5 DEF Remembered
<1> QED BY <1>3, <1>6

\* The invariant the theorems below rest on: types and the agreement of the
\* lists of redeem_allowed with what it granted.
LEMMA LimitInvariant == Spec => []LimitInv
<1>1. Init => LimitInv
  BY LimitsAssumption DEF Init, LimitInv, TypeOK, Remembered
<1>2. LimitInv /\ [Next]_vars => LimitInv'
  <2> SUFFICES ASSUME LimitInv, [Next]_vars PROVE LimitInv'
    OBVIOUS
  <2>1. ASSUME NEW ip \in IPs, NEW time \in 1..MaxTime, RedeemAllowed(ip, time)
        PROVE  LimitInv'
    BY <2>1, AllowedKeeps, RefusedKeeps DEF RedeemAllowed
  <2>2. CASE UNCHANGED vars
    BY <2>2 DEF vars, LimitInv, TypeOK, Remembered
  <2> QED BY <2>1, <2>2 DEF Next
<1> QED BY <1>1, <1>2, PTL DEF Spec

\* The lists agree with what was granted in the window: nothing that counts is
\* ever pruned.
THEOREM RememberedInvariant == Spec => []Remembered
BY LimitInvariant, PTL DEF LimitInv

-----------------------------------------------------------------------------
(* What is remembered of the window fits the budgets.                      *)

Budgets ==
  /\ \A i \in IPs : Cardinality(Fresh(attempts[i], now)) <= MaxPerIP
  /\ Cardinality(Fresh(global, now)) <= MaxGlobal

\* Later, fewer times are fresh.
LEMMA FreshShrinks ==
  ASSUME NEW m \in Nat, NEW n \in Nat, m <= n, NEW S \in SUBSET (1..m)
  PROVE  /\ Cardinality(Fresh(S, n)) <= Cardinality(Fresh(S, m))
         /\ Cardinality(Fresh(Fresh(S, n), n)) <= Cardinality(Fresh(S, m))
         /\ Cardinality(Fresh(S, n)) \in Nat /\ Cardinality(Fresh(S, m)) \in Nat
         /\ Cardinality(Fresh(Fresh(S, n), n)) \in Nat
<1>1. IsFiniteSet(Fresh(S, m)) /\ Cardinality(Fresh(S, m)) \in Nat
  BY TimesFinite DEF Fresh
<1>2. Fresh(S, n) \subseteq Fresh(S, m)
  <2> SUFFICES ASSUME NEW t \in S, n - t < Window PROVE m - t < Window
    BY DEF Fresh
  <2>1. t \in Nat /\ Window \in Nat
    BY LimitsAssumption
  <2> QED BY <2>1
<1>3. Fresh(S, n) \in SUBSET (1..m) /\ Fresh(Fresh(S, n), n) = Fresh(S, n)
  BY DEF Fresh
<1> QED BY <1>1, <1>2, <1>3, FS_Subset, TimesFinite

\* One more attempt is one more fresh time at most.
LEMMA OneMoreFresh ==
  ASSUME NEW m \in Nat, NEW n \in Nat, m < n, NEW S \in SUBSET (1..m)
  PROVE  Cardinality(Fresh(Fresh(S, n) \cup {n}, n)) <= Cardinality(Fresh(S, n)) + 1
<1>1. Fresh(Fresh(S, n) \cup {n}, n) = Fresh(S, n) \cup {n}
  BY LimitsAssumption DEF Fresh
<1>2. Fresh(S, n) \in SUBSET (1..m)
  BY DEF Fresh
<1>3. IsFiniteSet(Fresh(S, n)) /\ Cardinality(Fresh(S, n)) \in Nat
  BY <1>2, TimesFinite
<1>4. Cardinality(Fresh(S, n) \cup {n})
        = IF n \in Fresh(S, n) THEN Cardinality(Fresh(S, n)) ELSE Cardinality(Fresh(S, n)) + 1
  BY <1>3, FS_AddElement
<1>5. Cardinality(Fresh(S, n) \cup {n}) <= Cardinality(Fresh(S, n)) + 1
  BY <1>3, <1>4
<1> QED BY <1>1, <1>5

LEMMA BudgetsKept ==
  ASSUME TypeOK, Budgets, [Next]_vars
  PROVE  Budgets'
<1>1. now \in Nat /\ MaxPerIP \in Nat /\ MaxGlobal \in Nat
  BY LimitsAssumption DEF TypeOK
<1>2. global \in SUBSET (1..now) /\ \A i \in IPs : attempts[i] \in SUBSET (1..now)
  BY DEF TypeOK
<1>3. CASE UNCHANGED vars
  BY <1>3 DEF vars, Budgets
<1>4. ASSUME NEW ip \in IPs, NEW time \in 1..MaxTime, RedeemAllowed(ip, time)
      PROVE  Budgets'
  <2>1. time \in Nat /\ now < time /\ now <= time /\ now' = time
    BY <1>1, <1>4 DEF RedeemAllowed
  <2>2. ASSUME NEW i \in IPs
        PROVE  /\ Cardinality(Fresh(attempts[i], time)) <= MaxPerIP
               /\ Cardinality(Fresh(Fresh(attempts[i], time), time)) <= MaxPerIP
    <3>1. Cardinality(Fresh(attempts[i], now)) <= MaxPerIP
      BY DEF Budgets
    <3> QED BY <1>1, <1>2, <2>1, <3>1, FreshShrinks
  <2>3. /\ Cardinality(Fresh(global, time)) <= MaxGlobal
        /\ Cardinality(Fresh(Fresh(global, time), time)) <= MaxGlobal
    <3>1. Cardinality(Fresh(global, now)) <= MaxGlobal
      BY DEF Budgets
    <3> QED BY <1>1, <1>2, <2>1, <3>1, FreshShrinks
  <2>4. CASE RefusedGlobally(ip, time)
    BY <2>1, <2>2, <2>3, <2>4 DEF RefusedGlobally, Budgets
  <2>5. CASE RefusedForIP(ip, time)
    <3>1. \A i \in IPs : attempts'[i] = attempts[i] \/ attempts'[i] = Fresh(attempts[i], time)
      BY <2>5 DEF RefusedForIP, TypeOK
    <3>2. global' = Fresh(global, time)
      BY <2>5 DEF RefusedForIP
    <3> QED BY <2>1, <2>2, <2>3, <3>1, <3>2 DEF Budgets
  <2>6. CASE Allowed(ip, time)
    <3> DEFINE all == [attempts EXCEPT ![ip] = Fresh(@, time) \cup {time}]
               kept == Kept(tracked \cup {ip}, all, time)
    <3>1. global' = Fresh(global, time) \cup {time}
      BY <2>6 DEF Allowed, Recorded
    <3>2. Cardinality(Fresh(global', time)) <= MaxGlobal
      <4>1. Cardinality(Fresh(global', time)) <= Cardinality(Fresh(global, time)) + 1
        BY <1>1, <1>2, <2>1, <3>1, OneMoreFresh
      <4>2. Cardinality(Fresh(global, time)) < MaxGlobal
        BY <2>6 DEF Allowed
      <4>3. Fresh(global', time) \in SUBSET (1..time)
        <5>1. 1..now \subseteq 1..time /\ time \in 1..time
          BY <1>1, <2>1
        <5> QED BY <1>2, <3>1, <5>1 DEF Fresh
      <4>4. Cardinality(Fresh(global', time)) \in Nat
        BY <2>1, <4>3, TimesFinite
      <4>5. Cardinality(Fresh(global, time)) \in Nat
        BY <1>1, <1>2, <2>1, FreshShrinks
      <4> QED BY <1>1, <4>1, <4>2, <4>4, <4>5
    <3>3. attempts' = [i \in IPs |-> IF i \in kept THEN all[i] ELSE {}]
      BY <2>6 DEF Allowed, Recorded
    <3>4. all[ip] = Fresh(attempts[ip], time) \cup {time}
          /\ \A i \in IPs \ {ip} : all[i] = attempts[i]
      BY DEF TypeOK
    <3> HIDE DEF all, kept
    <3>5. Fresh({}, time) = {} /\ Cardinality({}) = 0
      BY FS_EmptySet DEF Fresh
    <3>6. Cardinality(Fresh(all[ip], time)) <= MaxPerIP
      <4>1. Cardinality(Fresh(all[ip], time)) <= Cardinality(Fresh(attempts[ip], time)) + 1
        BY <1>1, <1>2, <2>1, <3>4, OneMoreFresh
      <4>2. Cardinality(Fresh(attempts[ip], time)) < MaxPerIP
        BY <2>6 DEF Allowed
      <4>3. Fresh(all[ip], time) \in SUBSET (1..time)
        BY <1>1, <1>2, <2>1, <3>4 DEF Fresh
      <4>4. Cardinality(Fresh(all[ip], time)) \in Nat
        BY <2>1, <4>3, TimesFinite
      <4>5. Cardinality(Fresh(attempts[ip], time)) \in Nat
        BY <1>1, <1>2, <2>1, FreshShrinks
      <4> QED BY <1>1, <4>1, <4>2, <4>4, <4>5
    <3>7. \A i \in IPs : Cardinality(Fresh(attempts'[i], time)) <= MaxPerIP
      BY <1>1, <2>2, <3>3, <3>4, <3>5, <3>6
    <3> QED BY <2>1, <3>2, <3>7 DEF Budgets
  <2> QED BY <1>4, <2>4, <2>5, <2>6 DEF RedeemAllowed
<1> QED BY <1>3, <1>4 DEF Next

THEOREM BudgetsInvariant == Spec => []Budgets
<1>1. Init => Budgets
  BY LimitsAssumption, FS_EmptySet DEF Init, Budgets, Fresh
<1>2. TypeOK /\ Budgets /\ [Next]_vars => Budgets'
  BY BudgetsKept
<1>3. Spec => []TypeOK
  BY LimitInvariant, PTL DEF LimitInv
<1> QED BY <1>1, <1>2, <1>3, PTL DEF Spec

\* No IP is granted more than MaxPerIP attempts in any window, however many
\* other IPs were pruned meanwhile.
THEOREM PerIPLimitHolds == Spec => []PerIPLimit
<1>1. LimitInv /\ Budgets => PerIPLimit
  <2> SUFFICES ASSUME LimitInv, Budgets, NEW ip \in IPs
               PROVE  Cardinality(InWindow(ip)) <= MaxPerIP
    BY DEF PerIPLimit
  <2> DEFINE T == Fresh(attempts[ip], now)
  <2>1. T \in SUBSET (1..now) /\ now \in Nat
    <3>1. now \in Nat
      BY LimitsAssumption DEF LimitInv, TypeOK
    <3>2. T \in SUBSET (1..now)
      BY DEF LimitInv, TypeOK, Fresh
    <3> QED BY <3>1, <3>2
  <2>2. IsFiniteSet(T) /\ Cardinality(T) \in Nat /\ Cardinality(T) <= MaxPerIP
    BY <2>1, TimesFinite DEF Budgets
  <2>3. \A g \in InWindow(ip) : g[2] \in T
    BY DEF InWindow, LimitInv, TypeOK, Remembered, Fresh
  <2>4. \A g, h \in InWindow(ip) : g[2] = h[2] => g = h
    BY DEF InWindow, LimitInv, Remembered
  <2> HIDE DEF T
  <2>5. IsFiniteSet(InWindow(ip)) /\ Cardinality(InWindow(ip)) <= Cardinality(T)
    BY <2>2, <2>3, <2>4, AtMostTimes
  <2>6. Cardinality(InWindow(ip)) \in Nat
    BY <2>5, FS_CardinalityType
  <2> QED BY <2>2, <2>5, <2>6, LimitsAssumption
<1> QED BY <1>1, LimitInvariant, BudgetsInvariant, PTL

\* All IPs together are granted no more than MaxGlobal attempts in any window.
THEOREM GlobalLimitHolds == Spec => []GlobalLimit
<1>1. LimitInv /\ Budgets => GlobalLimit
  <2> SUFFICES ASSUME LimitInv, Budgets PROVE GlobalLimit
    OBVIOUS
  <2> DEFINE T == Fresh(global, now)
             G == {g \in granted : now - g[2] < Window}
  <2>1. T \in SUBSET (1..now) /\ now \in Nat
    <3>1. now \in Nat
      BY LimitsAssumption DEF LimitInv, TypeOK
    <3>2. T \in SUBSET (1..now)
      BY DEF LimitInv, TypeOK, Fresh
    <3> QED BY <3>1, <3>2
  <2>2. IsFiniteSet(T) /\ Cardinality(T) \in Nat /\ Cardinality(T) <= MaxGlobal
    BY <2>1, TimesFinite DEF Budgets
  <2>3. \A g \in G : g[2] \in T
    BY DEF LimitInv, TypeOK, Remembered, Fresh
  <2>4. \A g, h \in G : g[2] = h[2] => g = h
    BY DEF LimitInv, Remembered
  <2> HIDE DEF T, G
  <2>5. IsFiniteSet(G) /\ Cardinality(G) <= Cardinality(T)
    BY <2>2, <2>3, <2>4, AtMostTimes
  <2>6. Cardinality(G) \in Nat
    BY <2>5, FS_CardinalityType
  <2>7. Cardinality(G) <= MaxGlobal
    BY <2>2, <2>5, <2>6, LimitsAssumption
  <2> QED BY <2>7 DEF GlobalLimit, G
<1> QED BY <1>1, LimitInvariant, BudgetsInvariant, PTL

-----------------------------------------------------------------------------
\* An IP that pruning keeps was granted an attempt in the window, at a time of
\* its own in the global list.
LEMMA KeptAreFresh ==
  ASSUME LimitInv', Budgets', NEW K \in SUBSET IPs,
         \A i \in K : \E t \in attempts'[i] : now' - t < Window
  PROVE  IsFiniteSet(K) /\ Cardinality(K) <= MaxGlobal
<1> DEFINE T == Fresh(global', now')
           f == [i \in K |-> CHOOSE t \in attempts'[i] : now' - t < Window]
<1>1. T \in SUBSET (1..now') /\ now' \in Nat
  <2>1. now' \in Nat
    BY LimitsAssumption DEF LimitInv, TypeOK
  <2>2. T \in SUBSET (1..now')
    BY DEF LimitInv, TypeOK, Fresh
  <2> QED BY <2>1, <2>2
<1>2. IsFiniteSet(T) /\ Cardinality(T) \in Nat /\ Cardinality(T) <= MaxGlobal
  BY <1>1, TimesFinite DEF Budgets
<1>3. ASSUME NEW i \in K
      PROVE  f[i] \in attempts'[i] /\ now' - f[i] < Window /\ f[i] \in 1..now'
    BY DEF LimitInv, TypeOK
<1> HIDE DEF f
<1>4. ASSUME NEW i \in K
      PROVE  f[i] \in T /\ <<i, f[i]>> \in granted'
  BY <1>3 DEF LimitInv, Remembered, Fresh
<1>5. ASSUME NEW i \in K, NEW j \in K, f[i] = f[j]
      PROVE  i = j
  BY <1>4, <1>5 DEF LimitInv, Remembered
<1>6. f \in Injection(K, T)
  <2>1. f = [i \in K |-> f[i]]
    BY DEF f
  <2> QED BY <1>4, <1>5, <2>1 DEF Injection, IsInjective
<1> HIDE DEF T
<1>7. IsFiniteSet(K) /\ Cardinality(K) <= Cardinality(T)
  BY <1>2, <1>6, FS_Injection
<1> QED BY <1>2, <1>7, FS_CardinalityType, LimitsAssumption

\* The table of IPs stays bounded: what pruning keeps has been granted an attempt
\* within the window, and those are at most MaxGlobal.
THEOREM TrackedIsBounded == Spec => []TrackedBounded
<1> DEFINE Bounded == TrackedBounded /\ IsFiniteSet(tracked)
<1>1. Init => Bounded
  BY LimitsAssumption, FS_EmptySet DEF Init, TrackedBounded
<1>2. (LimitInv /\ LimitInv' /\ Budgets' /\ Bounded /\ [Next]_vars) => Bounded'
  <2> SUFFICES ASSUME LimitInv, LimitInv', Budgets', Bounded, [Next]_vars
               PROVE  Bounded'
    OBVIOUS
  <2>1. CASE UNCHANGED vars
    BY <2>1 DEF vars, TrackedBounded
  <2>2. ASSUME NEW ip \in IPs, NEW time \in 1..MaxTime, RedeemAllowed(ip, time)
        PROVE  Bounded'
    <3>1. CASE RefusedGlobally(ip, time)
      BY <3>1 DEF RefusedGlobally, TrackedBounded
    <3>2. CASE RefusedForIP(ip, time)
      <4>1. ip \in tracked
        <5>1. attempts[ip] = {} => Fresh(attempts[ip], time) = {}
          BY DEF Fresh
        <5>2. Cardinality(Fresh(attempts[ip], time)) # 0
          BY <3>2, LimitsAssumption DEF RefusedForIP
        <5> QED BY <5>1, <5>2, FS_EmptySet DEF LimitInv, TypeOK
      <4>2. tracked' = tracked
        BY <3>2, <4>1 DEF RefusedForIP
      <4> QED BY <4>2 DEF TrackedBounded
    <3>3. CASE Allowed(ip, time)
      <4> DEFINE all == [attempts EXCEPT ![ip] = Fresh(@, time) \cup {time}]
                 ips == tracked \cup {ip}
      <4>1. tracked' = Kept(ips, all, time)
            /\ attempts' = [i \in IPs |-> IF i \in tracked' THEN all[i] ELSE {}]
        BY <3>3 DEF Allowed, Recorded
      <4>2. CASE ~(Cardinality(ips) > MaxTracked)
        <5>1. tracked' = ips
          BY <4>1, <4>2 DEF Kept
        <5>2. IsFiniteSet(ips) => Cardinality(ips) \in Nat
          BY FS_CardinalityType
        <5>3. IsFiniteSet(ips)
          BY FS_AddElement
        <5> QED BY <4>2, <5>1, <5>2, <5>3, LimitsAssumption DEF TrackedBounded
      <4>3. CASE Cardinality(ips) > MaxTracked
        <5>1. tracked' = {i \in ips : ~Stale(i, all, time)}
          BY <4>1, <4>3 DEF Kept
        <5>2. \A i \in tracked' : \E t \in attempts'[i] : ~(time - t >= Window)
          BY <4>1, <5>1 DEF Stale, LimitInv, TypeOK
        <5>3. now' = time /\ attempts' \in [IPs -> SUBSET (1..time)] /\ tracked' \subseteq IPs
          BY <2>2 DEF RedeemAllowed, LimitInv, TypeOK
        <5>4. \A i \in tracked' : \E t \in attempts'[i] : now' - t < Window
          BY <5>2, <5>3, LimitsAssumption
        <5>5. IsFiniteSet(tracked') /\ Cardinality(tracked') <= MaxGlobal
          BY <5>3, <5>4, KeptAreFresh
        <5> QED BY <5>5 DEF TrackedBounded
      <4> QED BY <4>2, <4>3
    <3> QED BY <2>2, <3>1, <3>2, <3>3 DEF RedeemAllowed
  <2> QED BY <2>1, <2>2 DEF Next
<1>3. Spec => []Bounded
  BY <1>1, <1>2, LimitInvariant, BudgetsInvariant, PTL DEF Spec
<1> QED BY <1>3, PTL

-----------------------------------------------------------------------------
\* The types, and that an untracked IP has no list.
THEOREM TypeCorrect == Spec => []TypeOK
BY LimitInvariant, PTL DEF LimitInv

\* A set of times in each of which something was granted is no larger than the
\* set of the grants.
LEMMA AtMostGrants ==
  ASSUME NEW T, NEW G, IsFiniteSet(G), \A t \in T : \E g \in G : g[2] = t
  PROVE  Cardinality(T) <= Cardinality(G)
<1> DEFINE f == [t \in T |-> CHOOSE g \in G : g[2] = t]
<1>1. f \in Injection(T, G)
  BY DEF Injection, IsInjective
<1> QED BY <1>1, FS_Injection

\* What was granted in the window is a finite set.
LEMMA WindowFinite ==
  ASSUME LimitInv', NEW G, G \subseteq {g \in granted' : now' - g[2] < Window}
  PROVE  IsFiniteSet(G) /\ Cardinality(G) \in Nat
<1>1. now' \in Nat
  BY LimitsAssumption DEF LimitInv, TypeOK
<1>2. IsFiniteSet(1..now')
  BY <1>1, FS_Interval
<1>3. /\ \A g \in G : g[2] \in 1..now'
      /\ \A g, h \in G : g[2] = h[2] => g = h
  BY DEF LimitInv, TypeOK, Remembered
<1> QED BY <1>2, <1>3, AtMostTimes, FS_CardinalityType

\* Only full budgets refuse: what a refused call counted was all granted.
THEOREM OnlyFullBudgetsRefuse == Spec => []RefusedOnlyIfFull
<1>1. Init => RefusedOnlyIfFull
  BY DEF Init, RefusedOnlyIfFull
<1>2. LimitInv' /\ RefusedOnlyIfFull /\ [Next]_vars => RefusedOnlyIfFull'
  <2> SUFFICES ASSUME LimitInv', RefusedOnlyIfFull, [Next]_vars
               PROVE  RefusedOnlyIfFull'
    OBVIOUS
  <2>1. CASE UNCHANGED vars
    BY <2>1 DEF vars, RefusedOnlyIfFull, InWindow
  <2>2. ASSUME NEW ip \in IPs, NEW time \in 1..MaxTime, RedeemAllowed(ip, time)
        PROVE  RefusedOnlyIfFull'
    <3> DEFINE all == {g \in granted' : now' - g[2] < Window}
               ips == {g \in granted' : g[1] = ip /\ now' - g[2] < Window}
    <3>1. now' = time /\ time \in Nat
      BY <2>2 DEF RedeemAllowed
    <3>2. IsFiniteSet(all) /\ Cardinality(all) \in Nat
          /\ IsFiniteSet(ips) /\ Cardinality(ips) \in Nat
      BY WindowFinite
    <3>3. CASE RefusedGlobally(ip, time)
      <4> DEFINE T == Fresh(global, time)
      <4>1. T \subseteq 1..time /\ T \subseteq global' /\ \A t \in T : time - t < Window
        BY <3>1, <3>3 DEF RefusedGlobally, Fresh, LimitInv, TypeOK
      <4>2. ASSUME NEW t \in T PROVE \E g \in all : g[2] = t
        <5>1. PICK i \in IPs : <<i, t>> \in granted'
          BY <3>1, <4>1 DEF LimitInv, Remembered
        <5> QED BY <3>1, <4>1, <5>1
      <4>3. Cardinality(T) <= Cardinality(all)
        BY <3>2, <4>2, AtMostGrants
      <4>4. Cardinality(T) \in Nat
        BY <3>1, <4>1, TimesFinite
      <4>5. Cardinality(T) >= MaxGlobal
        BY <3>3 DEF RefusedGlobally
      <4> QED BY <3>2, <4>3, <4>4, <4>5, LimitsAssumption DEF RefusedOnlyIfFull
    <3>4. CASE RefusedForIP(ip, time)
      <4> DEFINE T == Fresh(attempts[ip], time)
      <4>1. T \subseteq 1..time /\ T \subseteq attempts'[ip] /\ \A t \in T : time - t < Window
        BY <3>1, <3>4 DEF RefusedForIP, Fresh, LimitInv, TypeOK
      <4>2. ASSUME NEW t \in T PROVE \E g \in ips : g[2] = t
        <5>1. <<ip, t>> \in granted'
          BY <3>1, <4>1 DEF LimitInv, Remembered
        <5> QED BY <3>1, <4>1, <5>1
      <4>3. Cardinality(T) <= Cardinality(ips)
        BY <3>2, <4>2, AtMostGrants
      <4>4. Cardinality(T) \in Nat
        BY <3>1, <4>1, TimesFinite
      <4>5. Cardinality(T) >= MaxPerIP /\ answer'.ip = ip
        BY <3>4 DEF RefusedForIP
      <4> QED BY <3>2, <4>3, <4>4, <4>5, LimitsAssumption DEF RefusedOnlyIfFull, InWindow
    <3>5. CASE Allowed(ip, time)
      BY <3>5 DEF Allowed, RefusedOnlyIfFull
    <3> QED BY <2>2, <3>3, <3>4, <3>5 DEF RedeemAllowed
  <2> QED BY <2>1, <2>2 DEF Next
<1> QED BY <1>1, <1>2, LimitInvariant, PTL DEF Spec

-----------------------------------------------------------------------------
(* The abstract limiter.                                                   *)

\* The instance counts as this module does.
LEMMA SameCount == \A S : L!Cardinality(S) = Cardinality(S)
BY DEF L!Cardinality, Cardinality

\* What the lists hold of the window at a later call is as many as were granted
\* in it.
LEMMA CountsAgree ==
  ASSUME LimitInv, NEW ip \in IPs, NEW time \in Nat, time > now
  PROVE  /\ Cardinality(Fresh(attempts[ip], time)) = Cardinality(L!CountedFor(ip, time))
         /\ Cardinality(Fresh(global, time)) = Cardinality(L!Counted(time))
         /\ Cardinality(L!CountedFor(ip, time)) \in Nat
         /\ Cardinality(L!Counted(time)) \in Nat
<1> DEFINE mine == Fresh(attempts[ip], time)
           all == Fresh(global, time)
<1>1. now \in Nat /\ Window \in Nat
  BY LimitsAssumption DEF LimitInv, TypeOK
<1>2. mine \in SUBSET (1..now) /\ all \in SUBSET (1..now)
  BY DEF LimitInv, TypeOK, Fresh
<1>3. /\ IsFiniteSet(mine) /\ Cardinality(mine) \in Nat
      /\ IsFiniteSet(all) /\ Cardinality(all) \in Nat
  BY <1>1, <1>2, TimesFinite
<1>4. ASSUME NEW g \in L!Counted(time)
      PROVE  /\ g[2] \in 1..now /\ g[1] \in IPs /\ g = <<g[1], g[2]>>
             /\ time - g[2] < Window /\ now - g[2] < Window
  <2>1. g \in IPs \X (1..now) /\ time - g[2] < Window
    BY DEF L!Counted, LimitInv, TypeOK
  <2> QED BY <1>1, <2>1
<1>5. \A g \in L!Counted(time) : g[2] \in all
  <2> SUFFICES ASSUME NEW g \in L!Counted(time) PROVE g[2] \in all
    OBVIOUS
  <2>1. g \in granted
    BY DEF L!Counted
  <2> QED BY <1>4, <2>1 DEF LimitInv, Remembered, Fresh
<1>6. \A g \in L!CountedFor(ip, time) : g[2] \in mine
  <2> SUFFICES ASSUME NEW g \in L!CountedFor(ip, time) PROVE g[2] \in mine
    OBVIOUS
  <2>1. g \in L!Counted(time) /\ g \in granted /\ g[1] = ip
    BY DEF L!CountedFor, L!Counted
  <2> QED BY <1>4, <2>1 DEF LimitInv, Remembered, Fresh
<1>7. ASSUME NEW t \in 1..now, time - t < Window
      PROVE  now - t < Window
  BY <1>1, <1>7
<1>8. \A t \in all : \E g \in L!Counted(time) : g[2] = t
  <2> SUFFICES ASSUME NEW t \in all PROVE \E g \in L!Counted(time) : g[2] = t
    OBVIOUS
  <2>1. t \in 1..now /\ t \in global /\ time - t < Window
    BY <1>2 DEF Fresh
  <2>2. PICK i \in IPs : <<i, t>> \in granted
    BY <1>7, <2>1 DEF LimitInv, Remembered
  <2>3. <<i, t>> \in L!Counted(time)
    BY <2>1, <2>2 DEF L!Counted
  <2> QED BY <2>3
<1>9. \A t \in mine : \E g \in L!CountedFor(ip, time) : g[2] = t
  <2> SUFFICES ASSUME NEW t \in mine PROVE \E g \in L!CountedFor(ip, time) : g[2] = t
    OBVIOUS
  <2>1. t \in 1..now /\ t \in attempts[ip] /\ time - t < Window
    BY <1>2 DEF Fresh
  <2>2. <<ip, t>> \in granted
    BY <1>7, <2>1 DEF LimitInv, Remembered
  <2>3. <<ip, t>> \in L!CountedFor(ip, time)
    BY <2>1, <2>2 DEF L!CountedFor, L!Counted
  <2> QED BY <2>3
<1>10. \A g, h \in L!Counted(time) : g[2] = h[2] => g = h
  BY DEF L!Counted, LimitInv, Remembered
<1>11. L!CountedFor(ip, time) \subseteq L!Counted(time)
  BY DEF L!CountedFor
<1> HIDE DEF mine, all
<1>12. /\ IsFiniteSet(L!Counted(time)) /\ Cardinality(L!Counted(time)) <= Cardinality(all)
       /\ IsFiniteSet(L!CountedFor(ip, time))
       /\ Cardinality(L!CountedFor(ip, time)) <= Cardinality(mine)
  BY <1>3, <1>5, <1>6, <1>10, <1>11, AtMostTimes
<1>13. /\ Cardinality(all) <= Cardinality(L!Counted(time))
       /\ Cardinality(mine) <= Cardinality(L!CountedFor(ip, time))
  BY <1>8, <1>9, <1>12, AtMostGrants
<1>14. Cardinality(L!Counted(time)) \in Nat /\ Cardinality(L!CountedFor(ip, time)) \in Nat
  BY <1>12, FS_CardinalityType
<1>15. /\ Cardinality(all) = Cardinality(L!Counted(time))
       /\ Cardinality(mine) = Cardinality(L!CountedFor(ip, time))
  BY <1>3, <1>12, <1>13, <1>14
<1> QED BY <1>14, <1>15 DEF mine, all

\* Each call of the code is a call of the abstract limiter with the same answer:
\* a refusal by either list is a refusal there, and what is recorded is granted.
LEMMA CallImplements ==
  ASSUME LimitInv, NEW ip \in IPs, NEW time \in 1..MaxTime, RedeemAllowed(ip, time)
  PROVE  L!Call(ip, time)
<1>1. time \in Nat /\ time > now /\ MaxPerIP \in Nat /\ MaxGlobal \in Nat
  BY LimitsAssumption DEF RedeemAllowed
<1>2. /\ Cardinality(Fresh(attempts[ip], time)) = Cardinality(L!CountedFor(ip, time))
      /\ Cardinality(Fresh(global, time)) = Cardinality(L!Counted(time))
      /\ Cardinality(L!CountedFor(ip, time)) \in Nat
      /\ Cardinality(L!Counted(time)) \in Nat
  BY <1>1, CountsAgree
<1>3. CASE RefusedGlobally(ip, time)
  BY <1>2, <1>3, SameCount DEF RedeemAllowed, RefusedGlobally, L!Call, L!Refuse, L!Full
<1>4. CASE RefusedForIP(ip, time)
  BY <1>2, <1>4, SameCount DEF RedeemAllowed, RefusedForIP, L!Call, L!Refuse, L!Full
<1>5. CASE Allowed(ip, time)
  BY <1>1, <1>2, <1>5, SameCount DEF RedeemAllowed, Allowed, L!Call, L!Grant, L!Full
<1> QED BY <1>3, <1>4, <1>5 DEF RedeemAllowed

\* redeem_allowed implements the limiter that never forgets: whatever was
\* filtered or pruned, each call is answered as the full history demands.
THEOREM ImplementsLimiter == Spec => RefinesLimiter
<1>1. Init => L!Init
  BY DEF Init, L!Init
<1>2. LimitInv /\ [Next]_vars => [L!Next]_(L!vars)
  <2> SUFFICES ASSUME LimitInv, [Next]_vars PROVE [L!Next]_(L!vars)
    OBVIOUS
  <2>1. CASE UNCHANGED vars
    BY <2>1 DEF vars, L!vars
  <2>2. ASSUME NEW ip \in IPs, NEW time \in 1..MaxTime, RedeemAllowed(ip, time)
        PROVE  L!Next
    BY <2>2, CallImplements DEF L!Next
  <2> QED BY <2>1, <2>2 DEF Next
<1> QED BY <1>1, <1>2, LimitInvariant, PTL DEF Spec, RefinesLimiter, L!Spec
=============================================================================
