--------------------------- MODULE MediaCacheProofs ---------------------------
(***************************************************************************)
(* Theorems about MediaCache, for every set of requests, keys and faults.  *)
(***************************************************************************)
EXTENDS MediaCache, SequenceTheorems, FiniteSetTheorems, WellFoundedInduction, TLAPS

-----------------------------------------------------------------------------
(* Lemmas about the operators.                                             *)

\* RemoveAt drops one position and keeps the order of the others.
LEMMA RemoveAtLemma ==
  ASSUME NEW S, NEW s \in Seq(S), NEW m \in 1..Len(s)
  PROVE  /\ RemoveAt(s, m) \in Seq(S)
         /\ Len(RemoveAt(s, m)) = Len(s) - 1
         /\ \A i \in 1..(Len(s) - 1) :
              RemoveAt(s, m)[i] = IF i < m THEN s[i] ELSE s[i + 1]
<1> DEFINE a == SubSeq(s, 1, m - 1)
           b == SubSeq(s, m + 1, Len(s))
<1>1. /\ a \in Seq(S) /\ Len(a) = m - 1
      /\ \A i \in 1..(m - 1) : a[i] = s[i]
  <2>1. \A i \in 1..(m - 1) : s[i] \in S
    OBVIOUS
  <2> QED BY <2>1, SubSeqProperties
<1>2. /\ b \in Seq(S) /\ Len(b) = Len(s) - m
      /\ \A i \in 1..(Len(s) - m) : b[i] = s[m + i]
  <2>1. \A i \in (m + 1)..Len(s) : s[i] \in S
    OBVIOUS
  <2>2. Len(s) \in Nat /\ m + 1 \in Int
    OBVIOUS
  <2>3. b \in Seq(S) /\ Len(b) = IF m + 1 <= Len(s) THEN Len(s) - (m + 1) + 1 ELSE 0
    BY <2>1, <2>2, SubSeqProperties
  <2>4. \A i \in 1..(Len(s) - (m + 1) + 1) : b[i] = s[m + 1 + i - 1]
    BY <2>1, <2>2, SubSeqProperties
  <2> QED BY <2>2, <2>3, <2>4
<1>3. RemoveAt(s, m) = a \o b
  BY DEF RemoveAt
<1> HIDE DEF a, b
<1>4. /\ a \o b \in Seq(S) /\ Len(a \o b) = Len(a) + Len(b)
      /\ \A i \in 1..(Len(a) + Len(b)) :
           (a \o b)[i] = IF i <= Len(a) THEN a[i] ELSE b[i - Len(a)]
  BY <1>1, <1>2, ConcatProperties
<1>5. ASSUME NEW i \in 1..(Len(s) - 1)
      PROVE  (a \o b)[i] = IF i < m THEN s[i] ELSE s[i + 1]
  <2>0. i \in 1..(Len(a) + Len(b)) /\ Len(a) = m - 1
    BY <1>1, <1>2
  <2>1. (a \o b)[i] = IF i <= m - 1 THEN a[i] ELSE b[i - (m - 1)]
    BY <2>0, <1>4
  <2>2. CASE i < m
    BY <2>1, <2>2, <1>1
  <2>3. CASE ~(i < m)
    <3>1. i - (m - 1) \in 1..(Len(s) - m) /\ m + (i - (m - 1)) = i + 1
      BY <2>3
    <3> QED BY <3>1, <2>1, <2>3, <1>2
  <2> QED BY <2>2, <2>3
<1> QED BY <1>1, <1>2, <1>3, <1>4, <1>5

\* Without takes one request out of a lock's queue: the result is a queue, the
\* other requests stay in it, and its head changes only if it was the head.
LEMMA WithoutLemma ==
  ASSUME NEW k, NEW r \in Requests, lockQ[k] \in Seq(Requests),
         \E n \in DOMAIN lockQ[k] : lockQ[k][n] = r
  PROVE  /\ Without(k, r) \in Seq(Requests)
         /\ \A q \in Requests \ {r} :
              (\E i \in DOMAIN lockQ[k] : lockQ[k][i] = q)
                => \E i \in DOMAIN Without(k, r) : Without(k, r)[i] = q
         /\ lockQ[k][1] # r => Without(k, r) # << >> /\ Without(k, r)[1] = lockQ[k][1]
<1> DEFINE s == lockQ[k]
           m == CHOOSE i \in DOMAIN s : s[i] = r
           w == Without(k, r)
<1>1. m \in 1..Len(s) /\ s[m] = r
  OBVIOUS
<1>2. w = RemoveAt(s, m)
  BY DEF Without
<1> HIDE DEF m, w
<1>3. /\ w \in Seq(Requests) /\ Len(w) = Len(s) - 1
      /\ \A i \in 1..(Len(s) - 1) : w[i] = IF i < m THEN s[i] ELSE s[i + 1]
  BY <1>1, <1>2, RemoveAtLemma
<1>4. ASSUME NEW q \in Requests \ {r}, NEW i \in DOMAIN s, s[i] = q
      PROVE  \E j \in DOMAIN w : w[j] = q
  <2>1. CASE i < m
    BY <2>1, <1>1, <1>3, <1>4
  <2>2. CASE i > m
    <3>1. i - 1 \in 1..(Len(s) - 1) /\ ~(i - 1 < m) /\ (i - 1) + 1 = i
      BY <2>2, <1>1
    <3>2. w[i - 1] = q
      BY <3>1, <1>3, <1>4
    <3> QED BY <3>1, <3>2, <1>3
  <2> QED BY <2>1, <2>2, <1>1, <1>4
<1>5. ASSUME s[1] # r
      PROVE  w # << >> /\ w[1] = s[1]
  <2>1. 1 < m /\ 1 \in 1..(Len(s) - 1)
    BY <1>1, <1>5
  <2> QED BY <2>1, <1>3
<1> QED BY <1>3, <1>4, <1>5 DEF w

-----------------------------------------------------------------------------
(* The invariant falls into a part about the requests and a part about the *)
(* store, and an action disturbs them through few operators.               *)

RequestTypes ==
  /\ pc \in [Requests -> Pcs]
  /\ key \in [Requests -> Keys \cup {None}]
  /\ done \in [Requests -> Requests \cup {None}]
  /\ got \in [Requests -> 0..NChunks \cup {None}]
  /\ fills \in [Keys -> Requests \cup {None}]
  /\ lockQ \in [Keys -> Seq(Requests)]

RequestPart ==
  RequestTypes /\ RequestInv /\ LeaderInv /\ WaitsForRegistered /\ QueueInv

StorePart ==
  /\ rows \subseteq Keys
  /\ lastAccess \in [Keys -> Nat]
  /\ file \in [Keys -> 0..NChunks \cup {None}]
  /\ litter \subseteq Keys
  /\ NoPartialFile

LEMMA Parts == CacheInv <=> RequestPart /\ StorePart
BY DEF CacheInv, TypeOK, RequestPart, RequestTypes, StorePart

LEMMA PartsPrime == CacheInv' <=> RequestPart' /\ StorePart'
BY DEF CacheInv, TypeOK, RequestPart, RequestTypes, StorePart

\* The order of last_access stays an order of naturals.
LEMMA TouchedType ==
  ASSUME lastAccess \in [Keys -> Nat], NEW k \in Keys
  PROVE  Touched(k) \in [Keys -> Nat]
<1>1. Cardinality(Keys) \in Nat
  BY FiniteAssumption, FS_CardinalityType
<1>2. \A j \in Keys : lastAccess[j] > lastAccess[k] => lastAccess[j] - 1 \in Nat
  OBVIOUS
<1> QED BY <1>1, <1>2 DEF Touched

\* lookup and _commit_file leave a well-formed store; _commit_file does when
\* what it commits is complete.
LEMMA StoreSteps ==
  ASSUME StorePart, NEW k \in Keys,
         \/ LookupHit(k)
         \/ LookupMiss(k)
         \/ \E stuck \in SUBSET rows : Commit(k, NChunks, stuck)
         \/ UNCHANGED store,
         UNCHANGED litter
  PROVE  StorePart'
<1>1. Touched(k) \in [Keys -> Nat]
  BY TouchedType DEF StorePart
<1>2. CASE LookupHit(k)
  BY <1>1, <1>2 DEF LookupHit, StorePart, NoPartialFile
<1>3. CASE LookupMiss(k)
  BY <1>3 DEF LookupMiss, StorePart, NoPartialFile
<1>4. CASE \E stuck \in SUBSET rows : Commit(k, NChunks, stuck)
  BY <1>1, <1>4, NumbersAssumption DEF Commit, StorePart, NoPartialFile
<1>5. CASE UNCHANGED store
  BY <1>5 DEF store, StorePart, NoPartialFile
<1> QED BY <1>2, <1>3, <1>4, <1>5

\* A commit that stops half-way leaves a well-formed store, too.
LEMMA HalfCommitKeeps ==
  ASSUME StorePart, NEW k \in Keys, HalfCommit(k, NChunks), litter' \subseteq Keys
  PROVE  StorePart'
<1>1. Touched(k) \in [Keys -> Nat]
  BY TouchedType DEF StorePart
<1>2. NChunks \in 0..NChunks
  BY NumbersAssumption
<1>3. CASE file' = [file EXCEPT ![k] = NChunks] /\ UNCHANGED <<rows, lastAccess>>
  BY <1>2, <1>3 DEF StorePart, NoPartialFile
<1>4. ASSUME NEW gone,
             rows' = rows \cup {k}, lastAccess' = Touched(k),
             file' = [j \in Keys |-> IF j = k THEN NChunks
                                    ELSE IF j \in gone THEN None ELSE file[j]]
      PROVE  StorePart'
  BY <1>1, <1>2, <1>4 DEF StorePart, NoPartialFile
<1> QED BY <1>3, <1>4 DEF HalfCommit

\* The end of a fill keeps the requests' part: the event is popped, and every
\* follower that waited for it is woken; the lock passes to the next in line.
LEMMA FillEndsKeeps ==
  ASSUME RequestPart, NEW r \in Requests, pc[r] \in Upstream \cup {"lock"},
         pc[r] = "lock" => lockQ[key[r]][1] = r,
         NEW next \in {"idle", "serve"}, next = "serve" => key[r] \in Thumbs,
         FillEnds(r, next)
  PROVE  RequestPart'
<1> DEFINE k == key[r]
<1> USE DEF RequestPart
<1>1. k \in Keys /\ pc[r] \in Pcs \ {"idle"}
  BY DEF RequestInv, RequestTypes, Upstream, Pcs
<1>2. k \in Thumbs => k \notin Originals
  BY SetsAssumption
<1>3. /\ pc' \in [Requests -> Pcs] /\ pc'[r] = next
      /\ \A q \in Requests \ {r} :
           pc'[q] = IF pc[q] = "wait" /\ done[r] # None /\ done[q] = done[r]
                    THEN "woken" ELSE pc[q]
  BY DEF RequestTypes, FillEnds, Released, Pcs
<1>4. /\ key' \in [Requests -> Keys \cup {None}]
      /\ key'[r] = IF next = "idle" THEN None ELSE k
      /\ \A q \in Requests \ {r} : key'[q] = key[q]
  BY DEF RequestTypes, FillEnds
<1>5. /\ done' \in [Requests -> Requests \cup {None}] /\ done'[r] = None
      /\ got' \in [Requests -> 0..NChunks \cup {None}] /\ got'[r] = None
      /\ \A q \in Requests \ {r} : done'[q] = done[q] /\ got'[q] = got[q]
  BY DEF RequestTypes, FillEnds
<1>6. /\ done[r] # None => done[r] = r /\ fills[k] = r /\ k \in Originals
      /\ fills' \in [Keys -> Requests \cup {None}]
      /\ fills'[k] = IF done[r] # None THEN None ELSE fills[k]
      /\ \A j \in Keys \ {k} : fills'[j] = fills[j]
  <2>1. done[r] # None => done[r] = r /\ fills[k] = r
    BY DEF LeaderInv, RequestInv
  <2>2. r # None
    BY SetsAssumption
  <2> QED BY <1>1, <2>1, <2>2 DEF RequestTypes, FillEnds, Unregistered, LeaderInv
<1>7. /\ lockQ' \in [Keys -> Seq(Requests)]
      /\ \A j \in Keys \ {k} : lockQ'[j] = lockQ[j]
      /\ k \in Originals => lockQ' = lockQ
      /\ k \in Thumbs =>
           \A q \in Requests \ {r} :
              (\E i \in DOMAIN lockQ[k] : lockQ[k][i] = q)
                => \E i \in DOMAIN lockQ'[k] : lockQ'[k][i] = q
  <2>1. CASE k \in Originals
    BY <1>1, <1>2, <2>1 DEF FillEnds, RequestTypes
  <2>2. CASE k \in Thumbs
    <3>1. \E n \in DOMAIN lockQ[k] : lockQ[k][n] = r
      BY <2>2 DEF QueueInv
    <3>2. lockQ[k] \in Seq(Requests)
      BY <1>1 DEF RequestTypes
    <3>3. /\ Without(k, r) \in Seq(Requests)
          /\ \A q \in Requests \ {r} :
               (\E i \in DOMAIN lockQ[k] : lockQ[k][i] = q)
                 => \E i \in DOMAIN Without(k, r) : Without(k, r)[i] = q
      <4> HIDE DEF k, RequestPart
      <4> QED BY <3>1, <3>2, WithoutLemma
    <3>4. lockQ' = [lockQ EXCEPT ![k] = Without(k, r)]
      BY <2>2 DEF FillEnds
    <3>5. /\ lockQ' \in [Keys -> Seq(Requests)] /\ lockQ'[k] = Without(k, r)
          /\ \A j \in Keys \ {k} : lockQ'[j] = lockQ[j]
      BY <1>1, <3>3, <3>4 DEF RequestTypes
    <3> QED BY <3>3, <3>5, <2>2, <1>2
  <2> QED BY <1>1, <2>1, <2>2 DEF Keys
<1>8. RequestTypes'
  BY <1>3, <1>4, <1>5, <1>6, <1>7 DEF RequestTypes
<1>9. RequestInv'
  BY <1>1, <1>3, <1>4, <1>5 DEF RequestInv
<1>10. LeaderInv'
  <2>1. ASSUME NEW j \in Keys, fills'[j] # None
        PROVE  /\ j \in Originals
               /\ key'[fills'[j]] = j /\ done'[fills'[j]] = fills'[j]
               /\ pc'[fills'[j]] \in Upstream \cup {"gone"}
    <3>1. fills'[j] = fills[j]
      BY <2>1, <1>6
    <3>2. /\ j \in Originals /\ fills[j] \in Requests
          /\ key[fills[j]] = j /\ done[fills[j]] = fills[j]
          /\ pc[fills[j]] \in Upstream \cup {"gone"}
      BY <2>1, <3>1 DEF LeaderInv, RequestTypes
    <3>3. fills[j] # r
      <4>1. SUFFICES ASSUME fills[j] = r PROVE FALSE
        OBVIOUS
      <4>2. j = k /\ done[r] # None
        BY <2>1, <3>1, <3>2, <4>1
      <4> QED BY <2>1, <4>2, <1>6
    <3>4. pc'[fills[j]] = pc[fills[j]]
      BY <3>2, <3>3, <1>3 DEF Upstream
    <3> QED BY <3>1, <3>2, <3>3, <3>4, <1>4, <1>5
  <2>2. ASSUME NEW q \in Requests, pc'[q] \in Upstream \cup {"gone"}, done'[q] # None
        PROVE  done'[q] = q /\ fills'[key'[q]] = q
    <3>1. q # r
      BY <2>2, <1>5
    <3>2. pc[q] = pc'[q] /\ key'[q] = key[q] /\ done'[q] = done[q]
      BY <2>2, <3>1, <1>3, <1>4, <1>5 DEF Upstream
    <3>3. done[q] = q /\ fills[key[q]] = q
      BY <2>2, <3>2 DEF LeaderInv
    <3>4. key[q] \in Keys
      BY <2>2, <3>2 DEF RequestInv, Upstream
    <3>5. key[q] = k => done[r] = None
      BY <3>1, <3>3, <1>6
    <3> QED BY <3>2, <3>3, <3>4, <3>5, <1>6
  <2> QED BY <2>1, <2>2 DEF LeaderInv
<1>11. WaitsForRegistered'
  <2> SUFFICES ASSUME NEW q \in Requests, pc'[q] = "wait"
               PROVE  /\ key'[q] \in Originals /\ done'[q] # None
                      /\ fills'[key'[q]] = done'[q]
    BY DEF WaitsForRegistered
  <2>1. q # r
    BY <1>3
  <2>2. pc[q] = "wait" /\ ~(done[r] # None /\ done[q] = done[r])
    BY <2>1, <1>3
  <2>3. key'[q] = key[q] /\ done'[q] = done[q] /\ key[q] \in Keys
    BY <2>1, <2>2, <1>4, <1>5 DEF RequestInv
  <2>4. key[q] \in Originals /\ done[q] # None /\ fills[key[q]] = done[q]
    BY <2>2 DEF WaitsForRegistered
  <2>5. key[q] = k => done[r] = None
    BY <2>2, <2>4, <1>6
  <2> QED BY <2>3, <2>4, <2>5, <1>6
<1>12. QueueInv'
  <2> SUFFICES ASSUME NEW q \in Requests, key'[q] \in Thumbs
               PROVE  /\ pc'[q] \in Upstream \cup {"lock"} =>
                           \E i \in DOMAIN lockQ'[key'[q]] : lockQ'[key'[q]][i] = q
                      /\ pc'[q] \in Upstream => lockQ'[key'[q]][1] = q
    BY DEF QueueInv
  <2>1. CASE q = r
    BY <2>1, <1>3 DEF Upstream
  <2>2. CASE q # r
    <3>1. key'[q] = key[q] /\ key[q] \in Keys
      BY <2>2, <1>4 DEF Keys
    <3>2. pc'[q] \in Upstream \cup {"lock"} => pc'[q] = pc[q]
      BY <2>2, <1>3 DEF Upstream
    <3>3. CASE key[q] # k
      BY <3>1, <3>2, <3>3, <1>7 DEF QueueInv
    <3>4. CASE key[q] = k
      <4>1. pc[q] \notin Upstream
        BY <2>2, <3>1, <3>4 DEF QueueInv
      <4> QED BY <2>2, <3>1, <3>2, <3>4, <1>7 DEF QueueInv
    <3> QED BY <3>3, <3>4
  <2> QED BY <2>1, <2>2
<1> QED BY <1>8, <1>9, <1>10, <1>11, <1>12

\* A request that moves on by itself, to a place that holds no more than its
\* old one does, keeps the requests' part.
LEMMA MoveKeeps ==
  ASSUME RequestPart, NEW r \in Requests, NEW next \in Pcs,
         pc' = [pc EXCEPT ![r] = next],
         \/ pc[r] \in Upstream /\ next \in Upstream
         \/ pc[r] = "lock" /\ next = "send" /\ lockQ[key[r]][1] = r,
         next \in {"ready", "yield"} => key[r] \in Originals,
         got' \in [Requests -> 0..NChunks \cup {None}],
         next \in {"body", "yield"} => got'[r] \in 0..NChunks,
         next \notin {"body", "yield", "closeErr"} => got'[r] = None,
         \A q \in Requests \ {r} : got'[q] = got[q],
         UNCHANGED <<key, done, fills, lockQ>>
  PROVE  RequestPart'
<1> USE DEF RequestPart
<1>1. pc' \in [Requests -> Pcs] /\ pc'[r] = next
      /\ \A q \in Requests \ {r} : pc'[q] = pc[q]
  BY DEF RequestTypes
<1>2. RequestTypes'
  BY <1>1 DEF RequestTypes
<1>3. RequestInv'
  BY <1>1 DEF RequestInv, Upstream
<1>4. LeaderInv'
  BY <1>1, SetsAssumption DEF LeaderInv, RequestTypes, RequestInv, Upstream
<1>5. WaitsForRegistered'
  BY <1>1 DEF WaitsForRegistered, Upstream
<1>6. QueueInv'
  BY <1>1 DEF QueueInv, Upstream
<1> QED BY <1>2, <1>3, <1>4, <1>5, <1>6

\* Entering the cache keeps the requests' part.
LEMMA EnterKeeps ==
  ASSUME RequestPart, NEW r \in Requests, Enter(r)
  PROVE  RequestPart'
<1> USE DEF RequestPart
<1>1. PICK k \in Keys : \/ EnterHit(r, k) \/ EnterLeader(r, k)
                        \/ EnterFollower(r, k) \/ EnterLock(r, k)
  BY DEF Enter
<1>2. pc[r] = "idle" /\ key[r] = None /\ done[r] = None
  BY <1>1 DEF EnterHit, EnterLeader, EnterFollower, EnterLock, RequestInv
<1>3. r # None /\ k # None /\ (k \in Originals => k \notin Thumbs)
  BY SetsAssumption
<1>4. \A j \in Keys : fills[j] # None => fills[j] # r
  BY <1>2 DEF LeaderInv, Upstream
<1>5. CASE EnterHit(r, k)
  <2> USE <1>5 DEF EnterHit
  <2>1. RequestTypes'
    BY DEF RequestTypes, Pcs
  <2>2. RequestInv'
    BY <1>2 DEF RequestInv, RequestTypes
  <2>3. LeaderInv'
    BY <1>2, <1>4 DEF LeaderInv, RequestTypes, Upstream
  <2>4. WaitsForRegistered'
    BY DEF WaitsForRegistered, RequestTypes
  <2>5. QueueInv'
    BY DEF QueueInv, RequestTypes, Upstream
  <2> QED BY <2>1, <2>2, <2>3, <2>4, <2>5
<1>6. CASE EnterLeader(r, k)
  <2> USE <1>6 DEF EnterLeader
  <2>1. RequestTypes'
    BY DEF RequestTypes, Pcs
  <2>2. RequestInv'
    BY <1>2 DEF RequestInv, RequestTypes
  <2>3. LeaderInv'
    BY <1>2, <1>3, <1>4 DEF LeaderInv, RequestTypes, Upstream
  <2>4. WaitsForRegistered'
    <3> SUFFICES ASSUME NEW q \in Requests, pc'[q] = "wait"
                 PROVE  /\ key'[q] \in Originals /\ done'[q] # None
                      /\ fills'[key'[q]] = done'[q]
      BY DEF WaitsForRegistered
    <3>1. q # r /\ pc[q] = "wait" /\ key'[q] = key[q] /\ done'[q] = done[q]
      BY DEF RequestTypes
    <3>2. key[q] \in Originals /\ fills[key[q]] = done[q] /\ done[q] # None
      BY <3>1 DEF WaitsForRegistered, RequestInv, RequestTypes
    <3> QED BY <3>1, <3>2 DEF RequestTypes, Keys
  <2>5. QueueInv'
    BY <1>3 DEF QueueInv, RequestTypes, Upstream
  <2> QED BY <2>1, <2>2, <2>3, <2>4, <2>5
<1>7. CASE EnterFollower(r, k)
  <2> USE <1>7 DEF EnterFollower
  <2>1. RequestTypes'
    BY DEF RequestTypes, Pcs
  <2>2. RequestInv'
    BY <1>2 DEF RequestInv, RequestTypes
  <2>3. LeaderInv'
    BY <1>2, <1>4 DEF LeaderInv, RequestTypes, Upstream
  <2>4. WaitsForRegistered'
    BY DEF WaitsForRegistered, RequestTypes
  <2>5. QueueInv'
    BY DEF QueueInv, RequestTypes, Upstream
  <2> QED BY <2>1, <2>2, <2>3, <2>4, <2>5
<1>8. CASE EnterLock(r, k)
  <2> USE <1>8 DEF EnterLock
  <2>1. RequestTypes'
    BY DEF RequestTypes, Pcs
  <2>2. RequestInv'
    BY <1>2 DEF RequestInv, RequestTypes
  <2>3. LeaderInv'
    BY <1>2, <1>4 DEF LeaderInv, RequestTypes, Upstream
  <2>4. WaitsForRegistered'
    BY DEF WaitsForRegistered, RequestTypes
  <2>5. QueueInv'
    <3>1. lockQ[k] \in Seq(Requests) /\ lockQ'[k] = Append(lockQ[k], r)
      BY DEF RequestTypes
    <3>2. /\ Len(lockQ'[k]) = Len(lockQ[k]) + 1 /\ lockQ'[k][Len(lockQ[k]) + 1] = r
          /\ \A i \in DOMAIN lockQ[k] : i \in DOMAIN lockQ'[k] /\ lockQ'[k][i] = lockQ[k][i]
      BY <3>1
    <3>3. \A j \in Keys \ {k} : lockQ'[j] = lockQ[j]
      BY DEF RequestTypes
    <3>4. \E i \in DOMAIN lockQ'[k] : lockQ'[k][i] = r
      BY <3>1, <3>2
    <3>5. ASSUME NEW q \in Requests, q # r, key'[q] \in Thumbs
          PROVE  /\ pc'[q] \in Upstream \cup {"lock"} =>
                      \E i \in DOMAIN lockQ'[key'[q]] : lockQ'[key'[q]][i] = q
                 /\ pc'[q] \in Upstream => lockQ'[key'[q]][1] = q
      <4>1. pc'[q] = pc[q] /\ key'[q] = key[q] /\ key[q] \in Keys
        BY <3>5 DEF RequestTypes, Keys
      <4>2. CASE pc[q] \notin Upstream \cup {"lock"}
        BY <4>1, <4>2
      <4>3. CASE pc[q] \in Upstream \cup {"lock"}
        <5>1. PICK i \in DOMAIN lockQ[key[q]] : lockQ[key[q]][i] = q
          BY <3>5, <4>1, <4>3 DEF QueueInv
        <5>2. lockQ[key[q]] \in Seq(Requests)
          BY <4>1 DEF RequestTypes
        <5>3. 1 \in DOMAIN lockQ[key[q]]
          BY <5>1, <5>2
        <5>4. pc[q] \in Upstream => lockQ[key[q]][1] = q
          BY <3>5, <4>1 DEF QueueInv
        <5> QED BY <3>2, <3>3, <4>1, <5>1, <5>3, <5>4
      <4> QED BY <4>2, <4>3
    <3>6. pc'[r] = "lock" /\ key'[r] = k
      BY DEF RequestTypes
    <3> QED BY <3>4, <3>5, <3>6 DEF QueueInv, Upstream
  <2> QED BY <2>1, <2>2, <2>3, <2>4, <2>5
<1> QED BY <1>1, <1>5, <1>6, <1>7, <1>8

\* A woken follower, a served hit and a cancelled waiter keep it, too.
LEMMA LeaveKeeps ==
  ASSUME RequestPart, NEW r \in Requests, Wake(r) \/ Serve(r) \/ Cancel(r)
  PROVE  RequestPart'
<1> USE DEF RequestPart
<1>1. key[r] \in Keys /\ pc[r] \in {"wait", "woken", "lock", "serve"}
  BY DEF Wake, Serve, Cancel, RequestInv
<1>2. /\ pc' \in [Requests -> Pcs] /\ got' = got /\ fills' = fills
      /\ key' \in [Requests -> Keys \cup {None}]
      /\ done' \in [Requests -> Requests \cup {None}]
      /\ \A q \in Requests \ {r} :
           pc'[q] = pc[q] /\ key'[q] = key[q] /\ done'[q] = done[q]
      /\ done'[r] = None
      /\ \/ pc'[r] = "idle" /\ key'[r] = None
         \/ pc'[r] = "serve" /\ key'[r] = key[r]
         \/ pc'[r] = "send" /\ key'[r] = key[r] /\ key[r] \in Originals
  <2>1. /\ pc[r] = "woken" => key[r] \in Originals
        /\ pc[r] = "serve" => done[r] = None
    BY DEF RequestInv
  <2>2. CASE Wake(r)
    BY <2>1, <2>2 DEF Wake, RequestTypes, Pcs
  <2>3. CASE Serve(r)
    BY <2>1, <2>3 DEF Serve, RequestTypes, Pcs
  <2>4. CASE Cancel(r)
    BY <2>4 DEF Cancel, RequestTypes, Pcs
  <2> QED BY <2>2, <2>3, <2>4
<1>3. \/ lockQ' = lockQ
      \/ /\ key[r] \in Thumbs /\ pc[r] = "lock"
         /\ lockQ' = [lockQ EXCEPT ![key[r]] = Without(key[r], r)]
  <2>1. pc[r] = "lock" => key[r] \in Thumbs
    BY DEF RequestInv
  <2>2. CASE Wake(r)
    BY <2>2 DEF Wake
  <2>3. CASE Serve(r)
    BY <2>3 DEF Serve
  <2>4. CASE Cancel(r)
    BY <2>1, <2>4 DEF Cancel
  <2> QED BY <2>2, <2>3, <2>4
<1>4. /\ lockQ' \in [Keys -> Seq(Requests)]
      /\ \A q \in Requests \ {r} : key[q] \in Thumbs =>
           /\ (\E i \in DOMAIN lockQ[key[q]] : lockQ[key[q]][i] = q)
                => \E i \in DOMAIN lockQ'[key[q]] : lockQ'[key[q]][i] = q
           /\ (pc[q] \in Upstream) => lockQ'[key[q]][1] = q
  <2>1. CASE lockQ' = lockQ
    BY <2>1 DEF RequestTypes, QueueInv
  <2>2. CASE key[r] \in Thumbs /\ pc[r] = "lock"
             /\ lockQ' = [lockQ EXCEPT ![key[r]] = Without(key[r], r)]
    <3> DEFINE k == key[r]
    <3>1. \E n \in DOMAIN lockQ[k] : lockQ[k][n] = r
      BY <2>2 DEF QueueInv
    <3>2. lockQ[k] \in Seq(Requests)
      BY <1>1 DEF RequestTypes
    <3>3. /\ Without(k, r) \in Seq(Requests)
          /\ \A q \in Requests \ {r} :
               (\E i \in DOMAIN lockQ[k] : lockQ[k][i] = q)
                 => \E i \in DOMAIN Without(k, r) : Without(k, r)[i] = q
          /\ lockQ[k][1] # r => Without(k, r) # << >> /\ Without(k, r)[1] = lockQ[k][1]
      <4> HIDE DEF k, RequestPart
      <4> QED BY <3>1, <3>2, WithoutLemma
    <3>4. /\ lockQ' \in [Keys -> Seq(Requests)] /\ lockQ'[k] = Without(k, r)
          /\ \A j \in Keys \ {k} : lockQ'[j] = lockQ[j]
      BY <1>1, <2>2, <3>3 DEF RequestTypes
    <3> HIDE DEF k
    <3>5. ASSUME NEW q \in Requests \ {r}, key[q] \in Thumbs
          PROVE  /\ (\E i \in DOMAIN lockQ[key[q]] : lockQ[key[q]][i] = q)
                      => \E i \in DOMAIN lockQ'[key[q]] : lockQ'[key[q]][i] = q
                 /\ (pc[q] \in Upstream) => lockQ'[key[q]][1] = q
      <4>1. key[q] \in Keys
        BY <3>5 DEF Keys
      <4>2. CASE key[q] # k
        BY <3>4, <3>5, <4>1, <4>2 DEF QueueInv
      <4>3. CASE key[q] = k
        <5>1. pc[q] \in Upstream => lockQ[k][1] = q
          BY <3>5, <4>3 DEF QueueInv
        <5> QED BY <3>3, <3>4, <3>5, <4>3, <5>1
      <4> QED BY <4>2, <4>3
    <3> QED BY <3>4, <3>5
  <2> QED BY <1>3, <2>1, <2>2
<1>5. RequestTypes'
  BY <1>2, <1>4 DEF RequestTypes
<1>6. RequestInv'
  BY <1>1, <1>2 DEF RequestInv
<1>7. LeaderInv'
  <2>1. ASSUME NEW j \in Keys, fills'[j] # None
        PROVE  /\ j \in Originals
               /\ key'[fills'[j]] = j /\ done'[fills'[j]] = fills'[j]
               /\ pc'[fills'[j]] \in Upstream \cup {"gone"}
    <3>1. /\ j \in Originals /\ fills'[j] = fills[j] /\ fills[j] \in Requests
          /\ key[fills[j]] = j /\ done[fills[j]] = fills[j]
          /\ pc[fills[j]] \in Upstream \cup {"gone"}
      BY <1>2, <2>1 DEF LeaderInv, RequestTypes
    <3>2. fills[j] # r
      BY <1>1, <3>1 DEF Upstream
    <3> QED BY <1>2, <3>1, <3>2
  <2>2. ASSUME NEW q \in Requests, pc'[q] \in Upstream \cup {"gone"}, done'[q] # None
        PROVE  done'[q] = q /\ fills'[key'[q]] = q
    <3>1. q # r
      BY <1>2, <2>2
    <3> QED BY <1>2, <2>2, <3>1 DEF LeaderInv
  <2> QED BY <2>1, <2>2 DEF LeaderInv
<1>8. WaitsForRegistered'
  BY <1>2 DEF WaitsForRegistered
<1>9. QueueInv'
  <2>1. ASSUME NEW q \in Requests, key'[q] \in Thumbs
        PROVE  /\ pc'[q] \in Upstream \cup {"lock"} =>
                    \E i \in DOMAIN lockQ'[key'[q]] : lockQ'[key'[q]][i] = q
               /\ pc'[q] \in Upstream => lockQ'[key'[q]][1] = q
    <3>1. CASE q = r
      BY <1>2, <2>1, <3>1, SetsAssumption DEF Upstream
    <3>2. CASE q # r
      <4>1. pc'[q] = pc[q] /\ key'[q] = key[q]
        BY <1>2, <3>2
      <4> QED BY <1>4, <2>1, <3>2, <4>1 DEF QueueInv
    <3> QED BY <3>1, <3>2
  <2> QED BY <2>1 DEF QueueInv
<1> QED BY <1>5, <1>6, <1>7, <1>8, <1>9

\* A request that leaves its fill behind is gone with its event, if it has one.
LEMMA LeavesBehindKeeps ==
  ASSUME RequestPart, NEW r \in Requests, pc[r] \in Upstream, key[r] \in Originals,
         LeavesBehind(r)
  PROVE  RequestPart'
<1> USE DEF RequestPart
<1>1. /\ pc \in [Requests -> Pcs] /\ key \in [Requests -> Keys \cup {None}]
      /\ got \in [Requests -> 0..NChunks \cup {None}]
      /\ key[r] \in Keys /\ key[r] \notin Thumbs
  BY SetsAssumption DEF RequestTypes, Keys
<1>2. /\ pc'[r] = (IF done[r] = None THEN "idle" ELSE "gone")
      /\ key'[r] = IF done[r] = None THEN None ELSE key[r]
      /\ got'[r] = None
      /\ \A q \in Requests \ {r} : pc'[q] = pc[q] /\ key'[q] = key[q] /\ got'[q] = got[q]
      /\ done' = done /\ fills' = fills /\ lockQ' = lockQ
  BY <1>1 DEF LeavesBehind
<1>3. RequestTypes'
  BY <1>1, <1>2 DEF RequestTypes, LeavesBehind, Pcs
<1>4. RequestInv'
  BY <1>1, <1>2 DEF RequestInv
<1>5. LeaderInv'
  <2>1. ASSUME NEW j \in Keys, fills[j] # None
        PROVE  /\ j \in Originals
               /\ key'[fills[j]] = j /\ done[fills[j]] = fills[j]
               /\ pc'[fills[j]] \in Upstream \cup {"gone"}
    <3>1. /\ j \in Originals /\ fills[j] \in Requests
          /\ key[fills[j]] = j /\ done[fills[j]] = fills[j]
          /\ pc[fills[j]] \in Upstream \cup {"gone"}
      BY <2>1 DEF LeaderInv, RequestTypes
    <3>2. CASE fills[j] = r
      BY <1>2, <2>1, <3>1, <3>2
    <3>3. CASE fills[j] # r
      BY <1>2, <3>1, <3>3
    <3> QED BY <3>2, <3>3
  <2>2. ASSUME NEW q \in Requests, pc'[q] \in Upstream \cup {"gone"}, done[q] # None
        PROVE  done[q] = q /\ fills[key'[q]] = q
    BY <1>2, <2>2 DEF LeaderInv
  <2> QED BY <1>2, <2>1, <2>2 DEF LeaderInv
<1>6. WaitsForRegistered'
  BY <1>2 DEF WaitsForRegistered
<1>7. QueueInv'
  <2> SUFFICES ASSUME NEW q \in Requests, key'[q] \in Thumbs
               PROVE  /\ pc'[q] \in Upstream \cup {"lock"} =>
                           \E i \in DOMAIN lockQ[key'[q]] : lockQ[key'[q]][i] = q
                      /\ pc'[q] \in Upstream => lockQ[key'[q]][1] = q
    BY <1>2 DEF QueueInv
  <2>1. q # r
    BY <1>1, <1>2, SetsAssumption DEF Keys
  <2> QED BY <1>2, <2>1 DEF QueueInv
<1> QED BY <1>3, <1>4, <1>5, <1>6, <1>7

\* A restart begins with empty memory.
LEMMA RestartKeeps == ASSUME Restart PROVE RequestPart'
<1> USE DEF Restart
<1>1. RequestTypes'
  <2>1. << >> \in Seq(Requests)
    OBVIOUS
  <2> QED BY <2>1 DEF RequestTypes, Pcs
<1>2. /\ \A r \in Requests : pc'[r] = "idle" /\ key'[r] = None /\ done'[r] = None
      /\ \A k \in Keys : fills'[k] = None
  OBVIOUS
<1>3. RequestInv'
  BY <1>2 DEF RequestInv
<1>4. LeaderInv'
  BY <1>2 DEF LeaderInv, Upstream
<1>5. WaitsForRegistered'
  BY <1>2 DEF WaitsForRegistered
<1>6. QueueInv'
  BY <1>2 DEF QueueInv, Upstream
<1> QED BY <1>1, <1>3, <1>4, <1>5, <1>6 DEF RequestPart

-----------------------------------------------------------------------------
(* The invariant is inductive.                                             *)

LEMMA InitInv == Init => CacheInv
<1> SUFFICES ASSUME Init PROVE CacheInv
  OBVIOUS
<1> USE DEF Init
<1>1. TypeOK
  <2>1. << >> \in Seq(Requests)
    OBVIOUS
  <2>2. lastAccess \in [Keys -> Nat]
    BY DEF Injection
  <2> QED BY <2>1, <2>2 DEF TypeOK, Pcs
<1>2. \A r \in Requests : pc[r] = "idle" /\ key[r] = None /\ done[r] = None
  OBVIOUS
<1>3. NoPartialFile
  BY DEF NoPartialFile
<1>4. RequestInv /\ WaitsForRegistered
  BY <1>2 DEF RequestInv, WaitsForRegistered
<1>5. LeaderInv
  BY <1>2 DEF LeaderInv, Upstream
<1>6. QueueInv
  BY <1>2 DEF QueueInv, Upstream
<1> QED BY <1>1, <1>3, <1>4, <1>5, <1>6 DEF CacheInv

LEMMA ProgressKeeps ==
  ASSUME RequestPart, StorePart, NEW r \in Requests, Progress(r)
  PROVE  RequestPart' /\ StorePart'
<1>1. CASE Wake(r) \/ Serve(r)
  <2>1. key[r] \in Keys
    BY <1>1 DEF Wake, Serve, RequestPart, RequestInv
  <2>2. \/ LookupHit(key[r]) \/ LookupMiss(key[r]) \/ UNCHANGED store
    BY <1>1 DEF Wake, Serve
  <2>3. UNCHANGED litter
    BY <1>1 DEF Wake, Serve
  <2>4. StorePart'
    BY <2>1, <2>2, <2>3, StoreSteps
  <2> QED BY <1>1, <2>4, LeaveKeeps
<1>2. CASE Locked(r)
  <2>1. key[r] \in Keys /\ key[r] \in Thumbs /\ got[r] = None
    BY <1>2 DEF Locked, RequestPart, RequestInv
  <2>2. lockQ[key[r]][1] = r
    <3>1. lockQ[key[r]] \in Seq(Requests) /\ lockQ[key[r]] # << >>
      BY <1>2, <2>1 DEF Locked, RequestPart, RequestTypes, QueueInv
    <3> QED BY <1>2, <3>1 DEF Locked
  <2>3. CASE LookupHit(key[r]) /\ FillEnds(r, "serve")
    <3>1. StorePart'
      BY <1>2, <2>1, <2>3, StoreSteps DEF Locked
    <3>2. RequestPart'
      BY <1>2, <2>1, <2>2, <2>3, FillEndsKeeps DEF Locked
    <3> QED BY <3>1, <3>2
  <2>4. CASE /\ LookupMiss(key[r])
             /\ pc' = [pc EXCEPT ![r] = "send"]
             /\ UNCHANGED <<key, done, got, fills, lockQ>>
    <3>1. StorePart'
      BY <1>2, <2>1, <2>4, StoreSteps DEF Locked
    <3>2. RequestPart'
      BY <1>2, <2>1, <2>2, <2>4, MoveKeeps DEF Locked, Pcs, RequestPart, RequestTypes
    <3> QED BY <3>1, <3>2
  <2> QED BY <1>2, <2>3, <2>4 DEF Locked
<1>3. CASE SendVideo(r) \/ SendRaises(r) \/ CloseErr(r)
  <2>1. /\ pc[r] \in Upstream /\ FillEnds(r, "idle") /\ UNCHANGED <<store, litter>>
    BY <1>3 DEF SendVideo, SendRaises, CloseErr, Upstream
  <2>2. key[r] \in Keys /\ pc[r] # "lock"
    BY <2>1 DEF RequestPart, RequestInv, Upstream
  <2> QED BY <2>1, <2>2, FillEndsKeeps, StoreSteps
<1>4. CASE CloseOk(r)
  <2>1. key[r] \in Keys /\ pc[r] \in Upstream /\ pc[r] # "lock"
    BY <1>4 DEF CloseOk, RequestPart, RequestInv, Upstream
  <2>2. StorePart'
    BY <1>4, <2>1, StoreSteps DEF CloseOk
  <2>3. CASE key[r] \in Thumbs
    BY <1>4, <2>1, <2>2, <2>3, FillEndsKeeps DEF CloseOk
  <2>4. CASE key[r] \notin Thumbs
    BY <1>4, <2>1, <2>2, <2>4, FillEndsKeeps DEF CloseOk
  <2> QED BY <2>3, <2>4
<1>5. CASE SendOk(r) \/ SendStatus(r) \/ Chunk(r) \/ BodyRaises(r)
  <2>1. /\ key[r] \in Keys /\ UNCHANGED <<store, litter, key, done, fills, lockQ>>
        /\ pc[r] \in Upstream
        /\ pc[r] = "body" => got[r] \in 0..NChunks
        /\ pc[r] = "send" => got[r] = None
    BY <1>5 DEF SendOk, SendStatus, Chunk, BodyRaises, RequestPart,
                RequestInv, Upstream
  <2>2. StorePart'
    BY <2>1, StoreSteps
  <2>3. 0 \in 0..NChunks /\ (got[r] \in 0..NChunks /\ got[r] < NChunks => got[r] + 1 \in 0..NChunks)
    BY NumbersAssumption
  <2> USE DEF RequestPart, RequestTypes
  <2>4. CASE SendOk(r)
    <3>1. \/ /\ pc' = [pc EXCEPT ![r] = "ready"] /\ key[r] \in Originals
             /\ got' = got /\ got[r] = None
          \/ pc' = [pc EXCEPT ![r] = "body"] /\ got' = [got EXCEPT ![r] = 0]
      BY <2>1, <2>4 DEF SendOk
    <3>2. pc[r] = "send"
      BY <2>4 DEF SendOk
    <3>3. CASE /\ pc' = [pc EXCEPT ![r] = "ready"] /\ key[r] \in Originals
               /\ got' = got /\ got[r] = None
      BY <2>1, <2>2, <3>2, <3>3, MoveKeeps DEF Upstream, Pcs
    <3>4. CASE pc' = [pc EXCEPT ![r] = "body"] /\ got' = [got EXCEPT ![r] = 0]
      BY <2>1, <2>2, <2>3, <3>2, <3>4, MoveKeeps DEF Upstream, Pcs
    <3> QED BY <3>1, <3>3, <3>4
  <2>5. CASE SendStatus(r)
    BY <2>1, <2>2, <2>5, MoveKeeps DEF SendStatus, Upstream, Pcs
  <2>7. CASE Chunk(r)
    <3>1. got' = [got EXCEPT ![r] = got[r] + 1] /\ got[r] + 1 \in 0..NChunks
      BY <2>1, <2>3, <2>7 DEF Chunk
    <3>2. CASE pc' = [pc EXCEPT ![r] = "yield"] /\ key[r] \in Originals
      BY <2>1, <2>2, <3>1, <3>2, MoveKeeps DEF Upstream, Pcs
    <3>3. CASE pc' = [pc EXCEPT ![r] = "body"]
      BY <2>1, <2>2, <3>1, <3>3, MoveKeeps DEF Upstream, Pcs
    <3>4. pc[r] = "body" => pc = [pc EXCEPT ![r] = "body"]
      OBVIOUS
    <3> QED BY <2>7, <3>2, <3>3, <3>4 DEF Chunk
  <2>8. CASE BodyRaises(r)
    <3>1. got' = got \/ got' = [got EXCEPT ![r] = None]
      BY <2>8 DEF BodyRaises
    <3> QED BY <2>1, <2>2, <2>8, <3>1, MoveKeeps DEF BodyRaises, Upstream, Pcs
  <2> QED BY <1>5, <2>4, <2>5, <2>7, <2>8
<1>6. CASE Complete(r)
  <2>1. key[r] \in Keys /\ pc[r] \in Upstream /\ got[r] = NChunks
    BY <1>6 DEF Complete, RequestPart, RequestInv, Upstream
  <2>2. StorePart'
    BY <1>6, <2>1, StoreSteps DEF Complete
  <2>3. RequestPart'
    BY <1>6, <2>1, MoveKeeps DEF Complete, RequestPart, RequestTypes, Upstream, Pcs
  <2> QED BY <2>2, <2>3
<1> QED BY <1>1, <1>2, <1>3, <1>4, <1>5, <1>6 DEF Progress

LEMMA ClientKeeps ==
  ASSUME RequestPart, StorePart, NEW r \in Requests, Client(r)
  PROVE  RequestPart' /\ StorePart'
<1>1. /\ key[r] \in Originals /\ key[r] \in Keys /\ pc[r] \in {"ready", "yield"}
      /\ pc[r] = "yield" => got[r] \in 0..NChunks
      /\ UNCHANGED <<key, done, fills, lockQ, store, litter>>
  BY DEF Client, StartBody, ClientReads, ClientLeaves, RequestPart, RequestInv, Keys
<1>2. StorePart'
  BY <1>1, StoreSteps
<1>3. 0 \in 0..NChunks
  BY NumbersAssumption
<1>4. pc[r] \in Upstream /\ got \in [Requests -> 0..NChunks \cup {None}]
  BY <1>1 DEF RequestPart, RequestTypes, Upstream
<1>5. CASE StartBody(r)
  <2>1. pc' = [pc EXCEPT ![r] = "body"] /\ got' = [got EXCEPT ![r] = 0]
    BY <1>5 DEF StartBody
  <2>2. /\ got' \in [Requests -> 0..NChunks \cup {None}] /\ got'[r] = 0
        /\ \A q \in Requests \ {r} : got'[q] = got[q]
    BY <1>3, <1>4, <2>1
  <2>3. RequestPart'
    BY <1>1, <1>3, <1>4, <2>1, <2>2, MoveKeeps DEF Upstream, Pcs
  <2> QED BY <1>2, <2>3
<1>6. CASE ClientReads(r) \/ ClientLeaves(r)
  <2>1. /\ pc[r] = "yield" /\ got' = got
        /\ pc' = [pc EXCEPT ![r] = "body"] \/ pc' = [pc EXCEPT ![r] = "closeErr"]
    BY <1>6 DEF ClientReads, ClientLeaves
  <2>2. RequestPart'
    BY <1>1, <1>4, <2>1, MoveKeeps DEF Upstream, Pcs
  <2> QED BY <1>2, <2>2
<1> QED BY <1>5, <1>6 DEF Client

LEMMA FaultKeeps ==
  ASSUME RequestPart, StorePart, NEW r \in Requests, Fault(r)
  PROVE  RequestPart' /\ StorePart'
<1>1. pc[r] # "idle" /\ key[r] \in Keys
  BY DEF Fault, Drop, CommitRaises, BodyCancelled, CloseFails, Cancel, CrashInCommit,
         RequestPart, RequestInv
<1>2. ASSUME key[r] \in Originals, pc[r] \in Upstream, LeavesBehind(r), UNCHANGED store
      PROVE  RequestPart' /\ StorePart'
  <2>1. RequestPart'
    BY <1>2, LeavesBehindKeeps
  <2>2. litter' \subseteq Keys
    BY <1>1, <1>2 DEF LeavesBehind, Litterers, StorePart
  <2>3. StorePart'
    BY <1>2, <2>2 DEF StorePart, NoPartialFile, store
  <2> QED BY <2>1, <2>3
<1>3. CASE Drop(r)
  <2>1. key[r] \in Originals /\ pc[r] \in Upstream
    BY <1>3 DEF Drop, RequestPart, RequestInv, Upstream
  <2> QED BY <1>2, <1>3, <2>1 DEF Drop
<1>4. CASE CloseFails(r)
  <2>1. pc[r] \in Upstream /\ pc[r] # "lock"
    BY <1>4 DEF CloseFails, Upstream
  <2>2. CASE FillEnds(r, "idle") /\ UNCHANGED <<store, litter>>
    BY <1>1, <2>1, <2>2, FillEndsKeeps, StoreSteps
  <2> QED BY <1>2, <1>4, <2>1, <2>2 DEF CloseFails
<1>5. CASE CommitRaises(r)
  <2>1. StorePart'
    BY <1>1, <1>5, HalfCommitKeeps DEF CommitRaises, StorePart
  <2>2. RequestPart'
    BY <1>5, MoveKeeps DEF CommitRaises, RequestPart, RequestTypes, Upstream, Pcs
  <2> QED BY <2>1, <2>2
<1>6. CASE BodyCancelled(r)
  <2>1. StorePart'
    BY <1>1, <1>6 DEF BodyCancelled, StorePart, NoPartialFile, store
  <2>2. RequestPart'
    BY <1>6, MoveKeeps DEF BodyCancelled, RequestPart, RequestTypes, Upstream, Pcs
  <2> QED BY <2>1, <2>2
<1>7. CASE Cancel(r)
  <2>1. StorePart'
    BY <1>1, <1>7, StoreSteps DEF Cancel
  <2> QED BY <1>7, <2>1, LeaveKeeps
<1>8. CASE CrashInCommit(r)
  <2>1. RequestPart'
    BY <1>8, RestartKeeps DEF CrashInCommit
  <2>2. litter' \subseteq Keys
    <3>1. \A q \in Requests : got[q] # None => key[q] \in Keys
      BY DEF RequestPart, RequestInv
    <3> QED BY <1>8, <3>1 DEF CrashInCommit, Litterers, StorePart
  <2>3. StorePart'
    BY <1>1, <1>8, <2>2, HalfCommitKeeps DEF CrashInCommit
  <2> QED BY <2>1, <2>3
<1> QED BY <1>3, <1>4, <1>5, <1>6, <1>7, <1>8 DEF Fault

LEMMA StepInv == CacheInv /\ [Next]_vars => CacheInv'
<1> SUFFICES ASSUME CacheInv, [Next]_vars PROVE CacheInv'
  OBVIOUS
<1>1. RequestPart /\ StorePart
  BY Parts
<1>2. RequestPart' /\ StorePart'
  <2>1. ASSUME NEW r \in Requests, Enter(r)
        PROVE  RequestPart' /\ StorePart'
    <3>1. StorePart'
      BY <1>1, <2>1, StoreSteps
         DEF Enter, EnterHit, EnterLeader, EnterFollower, EnterLock
    <3> QED BY <1>1, <2>1, <3>1, EnterKeeps
  <2>2. ASSUME NEW r \in Requests, Progress(r)
        PROVE  RequestPart' /\ StorePart'
    BY <1>1, <2>2, ProgressKeeps
  <2>3. ASSUME NEW r \in Requests, Fault(r)
        PROVE  RequestPart' /\ StorePart'
    BY <1>1, <2>3, FaultKeeps
  <2>6. ASSUME NEW r \in Requests, Client(r)
        PROVE  RequestPart' /\ StorePart'
    BY <1>1, <2>6, ClientKeeps
  <2>4. CASE Crash
    <3>1. RequestPart'
      BY <2>4, RestartKeeps DEF Crash
    <3>2. \A q \in Requests : got[q] # None => key[q] \in Keys
      BY <1>1 DEF RequestPart, RequestInv
    <3>3. StorePart'
      BY <1>1, <2>4, <3>2 DEF Crash, Litterers, StorePart, NoPartialFile, store
    <3> QED BY <3>1, <3>3
  <2>5. CASE UNCHANGED vars
    BY <1>1, <2>5 DEF vars, RequestPart, RequestTypes, RequestInv, LeaderInv,
         WaitsForRegistered, QueueInv, StorePart, NoPartialFile
  <2> QED BY <2>1, <2>2, <2>3, <2>4, <2>5, <2>6 DEF Next
<1> QED BY <1>2, PartsPrime

\* Whatever fails, crashes or is cancelled, the cache keeps its invariant.
THEOREM CacheInvariant == Spec => []CacheInv
BY InitInv, StepInv, PTL DEF Spec

\* Type correctness: every variable keeps its type.
THEOREM TypeCorrect == Spec => []TypeOK
<1>1. CacheInv => TypeOK
  BY DEF CacheInv
<1> QED BY <1>1, CacheInvariant, PTL

\* No partial body ever gets to a path that lookup serves from: the temporary
\* file is renamed only after the last chunk, whatever faults occur.
THEOREM PartialFilesStayTemporary == Spec => []NoPartialFile
<1>1. CacheInv => NoPartialFile
  BY DEF CacheInv
<1> QED BY <1>1, CacheInvariant, PTL

\* A follower always waits for the event registered now, so the wake-up that
\* ends this fill reaches it.
THEOREM NoLostWakeup == Spec => []WaitsForRegistered
<1>1. CacheInv => WaitsForRegistered
  BY DEF CacheInv
<1> QED BY <1>1, CacheInvariant, PTL

\* single_flight admits one fetch of a thumbnail at a time.
THEOREM ThumbsFetchedOnce == Spec => []ThumbSingleFlight
<1>1. CacheInv => ThumbSingleFlight
  BY DEF CacheInv, QueueInv, ThumbSingleFlight
<1> QED BY <1>1, CacheInvariant, PTL

\* Under every fault, each registered fill belongs to the request that made its
\* event, and that request is at work on it or gone.
THEOREM FillsHaveOwners == Spec => []FillHasOwner
<1>1. CacheInv => FillHasOwner
  BY DEF CacheInv, LeaderInv, FillHasOwner
<1> QED BY <1>1, CacheInvariant, PTL

\* A request is gone, its fill left behind, only if a response is dropped before
\* its generator starts or an aclose() fails: where neither happens every
\* registered fill has a request at work on it, whatever else fails or crashes.
THEOREM NoFillLeftBehind ==
  ASSUME "drop" \notin Faults, "close" \notin Faults
  PROVE  Spec => [](FillHasOwner /\ \A k \in Keys : fills[k] # None => pc[fills[k]] \in Upstream)
<1> DEFINE NoneGone == \A r \in Requests : pc[r] # "gone"
           AtWork == \A k \in Keys : fills[k] # None => pc[fills[k]] \in Upstream
<1>1. Init => NoneGone
  BY DEF Init
<1>2. CacheInv /\ NoneGone /\ [Next]_vars => NoneGone'
  <2> SUFFICES ASSUME CacheInv, NoneGone, [Next]_vars PROVE NoneGone'
    OBVIOUS
  <2>1. pc \in [Requests -> Pcs]
    BY DEF CacheInv, TypeOK
  <2>2. ASSUME NEW r \in Requests, Enter(r) \/ Progress(r) \/ Client(r) \/ Fault(r)
        PROVE  NoneGone'
    <3>1. CASE Enter(r)
      BY <2>1, <3>1 DEF Enter, EnterHit, EnterLeader, EnterFollower, EnterLock
    <3>2. CASE Progress(r)
      BY <2>1, <3>2 DEF Progress, Wake, Locked, SendOk, SendVideo, SendStatus,
           SendRaises, Chunk, Complete, BodyRaises, CloseOk, CloseErr,
           Serve, FillEnds, Released
    <3>3. CASE Client(r)
      BY <2>1, <3>3 DEF Client, StartBody, ClientReads, ClientLeaves
    <3>4. CASE Fault(r)
      BY <2>1, <3>4 DEF Fault, Drop, CommitRaises, BodyCancelled, CloseFails, Cancel,
           CrashInCommit, Restart
    <3> QED BY <2>2, <3>1, <3>2, <3>3, <3>4
  <2>3. CASE Crash
    BY <2>3 DEF Crash, Restart
  <2>4. CASE UNCHANGED vars
    BY <2>4 DEF vars
  <2> QED BY <2>2, <2>3, <2>4 DEF Next
<1>3. CacheInv /\ NoneGone => AtWork
  BY DEF CacheInv, LeaderInv, TypeOK
<1> HIDE DEF NoneGone, AtWork
<1>4. Spec => [](FillHasOwner /\ AtWork)
  BY <1>1, <1>2, <1>3, CacheInvariant, FillsHaveOwners, PTL DEF Spec
<1> QED BY <1>4 DEF AtWork

-----------------------------------------------------------------------------
(* Nobody waits for a request that has left.                               *)

\* Of a queue without repetitions, Without leaves the others and no repetition.
LEMMA WithoutLeavesOthers ==
  ASSUME NEW k, NEW r \in Requests, lockQ[k] \in Seq(Requests),
         \E n \in DOMAIN lockQ[k] : lockQ[k][n] = r,
         \A i, j \in DOMAIN lockQ[k] : lockQ[k][j] = lockQ[k][i] => j = i
  PROVE  /\ \A i \in DOMAIN Without(k, r) :
              /\ Without(k, r)[i] # r
              /\ \E n \in DOMAIN lockQ[k] : lockQ[k][n] = Without(k, r)[i]
         /\ \A i, j \in DOMAIN Without(k, r) :
              Without(k, r)[j] = Without(k, r)[i] => j = i
<1> DEFINE s == lockQ[k]
           m == CHOOSE i \in DOMAIN s : s[i] = r
           w == Without(k, r)
           old(i) == IF i < m THEN i ELSE i + 1
<1>1. m \in 1..Len(s) /\ s[m] = r
  OBVIOUS
<1>2. w = RemoveAt(s, m)
  BY DEF Without
<1> HIDE DEF m, w
<1>3. /\ w \in Seq(Requests) /\ Len(w) = Len(s) - 1
      /\ \A i \in 1..(Len(s) - 1) : w[i] = IF i < m THEN s[i] ELSE s[i + 1]
  BY <1>1, <1>2, RemoveAtLemma
<1>4. Len(s) \in Nat /\ DOMAIN w = 1..(Len(s) - 1) /\ DOMAIN s = 1..Len(s)
  BY <1>3
<1>5. ASSUME NEW i \in DOMAIN w
      PROVE  old(i) \in DOMAIN s /\ old(i) # m /\ w[i] = s[old(i)]
  BY <1>1, <1>3, <1>4
<1>6. ASSUME NEW i \in DOMAIN w, NEW j \in DOMAIN w, w[j] = w[i]
      PROVE  j = i
  <2>1. old(j) = old(i)
    BY <1>5, <1>6
  <2> QED BY <1>1, <1>4, <2>1
<1>7. ASSUME NEW i \in DOMAIN w
      PROVE  w[i] # r /\ \E n \in DOMAIN s : s[n] = w[i]
  BY <1>1, <1>4, <1>5
<1> QED BY <1>6, <1>7 DEF w

Queued(r) == pc[r] \in Upstream \cup {"lock"}

\* Nobody who is queued for a thumbnail leaves.
QuietStep ==
  /\ lockQ' = lockQ
  /\ \A q \in Requests : Queued(q) /\ key[q] \in Thumbs => Queued(q)' /\ key'[q] = key[q]

\* One request leaves, and its queue.
LeavesQueue(r) ==
  /\ key[r] \in Thumbs /\ Queued(r)
  /\ lockQ' = [lockQ EXCEPT ![key[r]] = Without(key[r], r)]
  /\ \A q \in Requests \ {r} :
       Queued(q) /\ key[q] \in Thumbs => Queued(q)' /\ key'[q] = key[q]

JoinsQueue(r, k) ==
  /\ k \in Thumbs /\ ~Queued(r)
  /\ lockQ' = [lockQ EXCEPT ![k] = Append(@, r)]
  /\ Queued(r)' /\ key'[r] = k
  /\ \A q \in Requests \ {r} : pc'[q] = pc[q] /\ key'[q] = key[q]

LEMMA FillEndsLeaves ==
  ASSUME CacheInv, NEW r \in Requests, Queued(r), NEW next \in Pcs, FillEnds(r, next)
  PROVE  QuietStep \/ LeavesQueue(r)
<1>1. /\ key[r] \in Keys /\ pc \in [Requests -> Pcs]
      /\ key \in [Requests -> Keys \cup {None}]
  BY DEF CacheInv, TypeOK, RequestInv, Queued, Upstream
<1>2. \A q \in Requests \ {r} : key'[q] = key[q]
  BY <1>1 DEF FillEnds
<1>3. \A q \in Requests \ {r} : Queued(q) => pc'[q] = pc[q]
  BY DEF FillEnds, Released, Queued, Upstream
<1>4. CASE key[r] \in Thumbs
  BY <1>2, <1>3, <1>4 DEF LeavesQueue, FillEnds, Queued
<1>5. CASE key[r] \notin Thumbs
  BY <1>2, <1>3, <1>5 DEF QuietStep, FillEnds, Queued
<1> QED BY <1>4, <1>5

\* A step changes the queues in one of these ways, or the process restarts.
LEMMA StepsOfQueues ==
  ASSUME CacheInv, [Next]_vars
  PROVE  \/ QuietStep \/ Restart
         \/ \E r \in Requests : LeavesQueue(r) \/ \E k \in Thumbs : JoinsQueue(r, k)
<1>1. /\ pc \in [Requests -> Pcs] /\ key \in [Requests -> Keys \cup {None}]
      /\ \A r \in Requests : pc[r] \in {"ready", "yield"} => key[r] \in Originals
      /\ Originals \cap Thumbs = {}
  BY SetsAssumption DEF CacheInv, TypeOK, RequestInv
<1>2. ASSUME NEW r \in Requests, Enter(r)
      PROVE  QuietStep \/ \E k \in Thumbs : JoinsQueue(r, k)
  <2>1. PICK k \in Keys : EnterHit(r, k) \/ EnterLeader(r, k) \/ EnterFollower(r, k)
                          \/ EnterLock(r, k)
    BY <1>2 DEF Enter
  <2>2. pc[r] = "idle"
    BY <2>1 DEF EnterHit, EnterLeader, EnterFollower, EnterLock
  <2>3. CASE EnterLock(r, k)
    <3>1. JoinsQueue(r, k)
      BY <1>1, <2>2, <2>3 DEF JoinsQueue, EnterLock, Queued, Upstream
    <3> QED BY <2>3, <3>1 DEF EnterLock
  <2>4. CASE EnterHit(r, k) \/ EnterLeader(r, k) \/ EnterFollower(r, k)
    BY <1>1, <2>2, <2>4 DEF QuietStep, EnterHit, EnterLeader, EnterFollower, Queued, Upstream
  <2> QED BY <2>1, <2>3, <2>4
<1>3. ASSUME NEW r \in Requests, Progress(r)
      PROVE  QuietStep \/ LeavesQueue(r)
  <2>1. CASE Wake(r) \/ Serve(r)
    BY <1>1, <2>1 DEF QuietStep, Wake, Serve, Queued, Upstream
  <2>2. CASE \E next \in Pcs : Queued(r) /\ FillEnds(r, next)
    BY <2>2, FillEndsLeaves
  <2>3. CASE \E next \in Upstream : /\ Queued(r) /\ pc' = [pc EXCEPT ![r] = next]
                                    /\ UNCHANGED <<key, lockQ>>
    BY <1>1, <2>3 DEF QuietStep, Queued, Upstream
  <2>4. CASE Locked(r) \/ SendOk(r) \/ SendStatus(r) \/ Complete(r) \/ BodyRaises(r)
    BY <2>2, <2>3, <2>4 DEF Locked, SendOk, SendStatus, Complete, BodyRaises,
       Queued, Upstream, Pcs
  <2>5. CASE Chunk(r)
    BY <1>1, <2>5 DEF Chunk, QuietStep, Queued, Upstream
  <2>6. CASE SendVideo(r) \/ SendRaises(r) \/ CloseErr(r) \/ CloseOk(r)
    BY <2>2, <2>6 DEF SendVideo, SendRaises, CloseErr, CloseOk, Queued, Upstream, Pcs
  <2> QED BY <1>3, <2>1, <2>4, <2>5, <2>6 DEF Progress
<1>4. ASSUME NEW r \in Requests, Fault(r)
      PROVE  QuietStep \/ LeavesQueue(r) \/ Restart
  <2>1. CASE LeavesBehind(r) /\ key[r] \in Originals
    BY <1>1, <2>1 DEF QuietStep, LeavesBehind, Queued, Upstream
  <2>5. CASE CloseFails(r) /\ FillEnds(r, "idle")
    BY <2>5, FillEndsLeaves DEF CloseFails, Queued, Upstream, Pcs
  <2>2. CASE CommitRaises(r) \/ BodyCancelled(r)
    BY <1>1, <2>2 DEF QuietStep, CommitRaises, BodyCancelled, Queued, Upstream
  <2>3. CASE Cancel(r)
    <3>1. pc[r] = "lock" => key[r] \in Thumbs
      BY DEF CacheInv, RequestInv
    <3>2. CASE pc[r] = "lock"
      BY <1>1, <2>3, <3>1, <3>2 DEF LeavesQueue, Cancel, Queued, Upstream
    <3>3. CASE pc[r] # "lock"
      BY <1>1, <2>3, <3>3 DEF QuietStep, Cancel, Queued, Upstream
    <3> QED BY <3>2, <3>3
  <2>4. CASE CrashInCommit(r)
    BY <2>4 DEF CrashInCommit
  <2>6. CASE Drop(r)
    BY <1>1, <2>1, <2>6 DEF Drop
  <2>7. CASE CloseFails(r)
    BY <2>1, <2>5, <2>7 DEF CloseFails
  <2> QED BY <1>4, <2>2, <2>3, <2>4, <2>6, <2>7 DEF Fault
<1>5. ASSUME NEW r \in Requests, Client(r)
      PROVE  QuietStep
  BY <1>1, <1>5 DEF QuietStep, Client, StartBody, ClientReads, ClientLeaves, Queued, Upstream
<1>6. UNCHANGED vars => QuietStep
  BY DEF vars, QuietStep, Queued
<1> QED BY <1>2, <1>3, <1>4, <1>5, <1>6 DEF Next, Crash

LEMMA QueueLiveKept ==
  ASSUME CacheInv, QueueLive, [Next]_vars
  PROVE  QueueLive'
<1>1. lockQ \in [Keys -> Seq(Requests)]
  BY DEF CacheInv, TypeOK
<1>2. ASSUME NEW k \in Keys, NEW i \in DOMAIN lockQ[k]
      PROVE  /\ k \in Thumbs /\ lockQ[k][i] \in Requests
             /\ key[lockQ[k][i]] = k /\ Queued(lockQ[k][i])
             /\ \A j \in DOMAIN lockQ[k] : lockQ[k][j] = lockQ[k][i] => j = i
  BY <1>1 DEF QueueLive, Queued
<1>3. CASE QuietStep
  BY <1>2, <1>3 DEF QuietStep, QueueLive, Queued
<1>4. CASE Restart
  BY <1>4 DEF Restart, QueueLive
<1>5. ASSUME NEW r \in Requests, LeavesQueue(r)
      PROVE  QueueLive'
  <2> DEFINE t == key[r]
  <2>1. t \in Keys /\ \E n \in DOMAIN lockQ[t] : lockQ[t][n] = r
    BY <1>5 DEF LeavesQueue, CacheInv, QueueInv, Queued, Keys
  <2>2. /\ lockQ'[t] = Without(t, r)
        /\ \A k \in Keys \ {t} : lockQ'[k] = lockQ[k]
    BY <1>1, <1>5, <2>1 DEF LeavesQueue
  <2>3. /\ \A i \in DOMAIN Without(t, r) :
             /\ Without(t, r)[i] # r
             /\ \E n \in DOMAIN lockQ[t] : lockQ[t][n] = Without(t, r)[i]
        /\ \A i, j \in DOMAIN Without(t, r) :
             Without(t, r)[j] = Without(t, r)[i] => j = i
    <3>1. lockQ[t] \in Seq(Requests)
      BY <1>1, <2>1
    <3>2. \A i, j \in DOMAIN lockQ[t] : lockQ[t][j] = lockQ[t][i] => j = i
      BY <1>2, <2>1
    <3> HIDE DEF t
    <3> QED BY <2>1, <3>1, <3>2, WithoutLeavesOthers
  <2>4. \A q \in Requests \ {r} : Queued(q) /\ key[q] \in Thumbs => Queued(q)' /\ key'[q] = key[q]
    BY <1>5 DEF LeavesQueue
  <2>5. ASSUME NEW k \in Keys, NEW i \in DOMAIN lockQ'[k]
        PROVE  /\ k \in Thumbs /\ key'[lockQ'[k][i]] = k
               /\ pc'[lockQ'[k][i]] \in Upstream \cup {"lock"}
               /\ \A j \in DOMAIN lockQ'[k] : lockQ'[k][j] = lockQ'[k][i] => j = i
    <3>1. CASE k = t
      <4>1. PICK n \in DOMAIN lockQ[t] : lockQ[t][n] = lockQ'[k][i]
        BY <2>2, <2>3, <2>5, <3>1
      <4>2. lockQ'[k][i] \in Requests \ {r} /\ key[lockQ'[k][i]] = t
            /\ Queued(lockQ'[k][i]) /\ t \in Thumbs
        BY <1>2, <2>1, <2>2, <2>3, <2>5, <3>1, <4>1
      <4>3. key'[lockQ'[k][i]] = k /\ pc'[lockQ'[k][i]] \in Upstream \cup {"lock"}
        BY <2>4, <3>1, <4>2 DEF Queued
      <4> QED BY <2>2, <2>3, <3>1, <4>2, <4>3
    <3>2. CASE k # t
      <4>1. lockQ'[k] = lockQ[k]
        BY <2>2, <3>2
      <4>2. i \in DOMAIN lockQ[k]
        BY <2>5, <4>1
      <4>3. /\ k \in Thumbs /\ lockQ[k][i] \in Requests \ {r}
            /\ key[lockQ[k][i]] = k /\ Queued(lockQ[k][i])
        BY <1>2, <3>2, <4>2
      <4>4. key'[lockQ[k][i]] = k /\ pc'[lockQ[k][i]] \in Upstream \cup {"lock"}
        BY <2>4, <4>3 DEF Queued
      <4> QED BY <1>2, <4>1, <4>2, <4>3, <4>4
    <3> QED BY <3>1, <3>2
  <2> QED BY <2>5 DEF QueueLive
<1>6. ASSUME NEW r \in Requests, NEW t \in Thumbs, JoinsQueue(r, t)
      PROVE  QueueLive'
  <2>1. t \in Keys /\ lockQ[t] \in Seq(Requests)
    BY <1>1 DEF Keys
  <2>2. /\ lockQ'[t] = Append(lockQ[t], r)
        /\ \A k \in Keys \ {t} : lockQ'[k] = lockQ[k]
        /\ key'[r] = t /\ pc'[r] \in Upstream \cup {"lock"}
    BY <1>1, <1>6, <2>1 DEF JoinsQueue, Queued
  <2>3. \A k \in Keys : \A i \in DOMAIN lockQ[k] :
          /\ lockQ[k][i] \in Requests \ {r}
          /\ key'[lockQ[k][i]] = k /\ pc'[lockQ[k][i]] \in Upstream \cup {"lock"}
    BY <1>2, <1>6 DEF JoinsQueue, Queued
  <2>4. ASSUME NEW k \in Keys, NEW i \in DOMAIN lockQ'[k]
        PROVE  /\ k \in Thumbs /\ key'[lockQ'[k][i]] = k
               /\ pc'[lockQ'[k][i]] \in Upstream \cup {"lock"}
               /\ \A j \in DOMAIN lockQ'[k] : lockQ'[k][j] = lockQ'[k][i] => j = i
    <3>1. CASE k # t
      BY <1>2, <2>2, <2>3, <2>4, <3>1
    <3>2. CASE k = t
      <4> DEFINE n == Len(lockQ[t])
      <4>1. /\ n \in Nat /\ DOMAIN lockQ'[k] = 1..(n + 1) /\ DOMAIN lockQ[t] = 1..n
            /\ lockQ'[k][n + 1] = r /\ \A j \in 1..n : lockQ'[k][j] = lockQ[t][j]
        BY <2>1, <2>2, <3>2
      <4>2. CASE i = n + 1
        <5>1. \A j \in 1..n : lockQ'[k][j] # r
          BY <2>1, <2>3, <4>1
        <5> QED BY <2>2, <3>2, <4>1, <4>2, <5>1
      <4>3. CASE i # n + 1
        <5>1. i \in DOMAIN lockQ[t] /\ lockQ'[k][i] = lockQ[t][i] /\ lockQ[t][i] # r
          BY <2>1, <2>3, <2>4, <4>1, <4>3
        <5>2. \A j \in DOMAIN lockQ'[k] : lockQ'[k][j] = lockQ'[k][i] => j = i
          BY <1>2, <2>1, <4>1, <5>1
        <5> QED BY <2>1, <2>3, <3>2, <5>1, <5>2
      <4> QED BY <4>2, <4>3
    <3> QED BY <3>1, <3>2
  <2> QED BY <2>4 DEF QueueLive
<1> QED BY <1>3, <1>4, <1>5, <1>6, StepsOfQueues

\* Whatever fails, is cancelled or crashes, the queue of a thumbnail's lock holds
\* the live requests that wait for it or fetch it, each once.
THEOREM QueuesHoldLiveRequests == Spec => []QueueLive
<1>1. Init => QueueLive
  BY DEF Init, QueueLive
<1>2. CacheInv /\ QueueLive /\ [Next]_vars => QueueLive'
  BY QueueLiveKept
<1> QED BY <1>1, <1>2, CacheInvariant, PTL DEF Spec

\* Under every fault, whoever waits for an event waits for a request that is at
\* work on its key or gone, and whoever waits for a lock waits for a request that
\* is at work or can begin to.
THEOREM NobodyWaitsInVain == Spec => []WaitersAreServed
<1>1. CacheInv /\ FillHasOwner /\ QueueLive => WaitersAreServed
  <2> SUFFICES ASSUME CacheInv, FillHasOwner, QueueLive, NEW r \in Requests
               PROVE  /\ pc[r] = "wait" => /\ pc[done[r]] \in Upstream \cup {"gone"}
                                          /\ key[done[r]] = key[r]
                      /\ pc[r] = "lock" =>
                           /\ key[Head(lockQ[key[r]])] = key[r]
                           /\ pc[Head(lockQ[key[r]])] \in Upstream \cup {"lock"}
    BY DEF WaitersAreServed
  <2>1. CASE pc[r] = "wait"
    <3>1. key[r] \in Keys /\ done[r] # None /\ fills[key[r]] = done[r]
      BY <2>1 DEF CacheInv, WaitsForRegistered, Keys
    <3> QED BY <2>1, <3>1 DEF FillHasOwner
  <2>2. CASE pc[r] = "lock"
    <3>1. key[r] \in Thumbs /\ key[r] \in Keys /\ lockQ[key[r]] \in Seq(Requests)
      BY <2>2 DEF CacheInv, RequestInv, TypeOK, Keys
    <3>2. \E i \in DOMAIN lockQ[key[r]] : lockQ[key[r]][i] = r
      BY <2>2, <3>1 DEF CacheInv, QueueInv
    <3>3. 1 \in DOMAIN lockQ[key[r]] /\ Head(lockQ[key[r]]) = lockQ[key[r]][1]
      BY <3>1, <3>2
    <3> QED BY <2>2, <3>1, <3>3 DEF QueueLive
  <2> QED BY <2>1, <2>2
<1> QED BY <1>1, CacheInvariant, FillsHaveOwners, QueuesHoldLiveRequests, PTL

-----------------------------------------------------------------------------
(* The refinement of SingleFlight.                                         *)

\* Nobody begins or ceases to follow, and no fill is registered or popped.
SameFlights ==
  /\ fills' = fills
  /\ \A q \in Requests : pc'[q] = "wait" <=> pc[q] = "wait"
  /\ \A q \in Requests : pc[q] = "wait" => key'[q] = key[q]

LEMMA SameFlightsStutters == ASSUME SameFlights PROVE UNCHANGED F!vars
<1>1. \A k \in Keys : {r \in Requests : pc'[r] = "wait" /\ key'[r] = k}
                        = {r \in Requests : pc[r] = "wait" /\ key[r] = k}
  BY DEF SameFlights
<1>2. Following' = Following
  BY <1>1 DEF Following
<1> QED BY <1>2 DEF SameFlights, F!vars

\* The end of a leader's fill lands its flight for everybody that follows it; the
\* end of any other fill concerns nobody.
LEMMA FillEndsLands ==
  ASSUME CacheInv, NEW r \in Requests, pc[r] \in Upstream \cup {"lock"},
         NEW next \in Pcs \ {"wait"}, FillEnds(r, next)
  PROVE  SameFlights \/ \E k \in Keys : F!Land(k)
<1> DEFINE k == key[r]
<1>1. /\ k \in Keys /\ pc \in [Requests -> Pcs] /\ fills \in [Keys -> Requests \cup {None}]
      /\ key \in [Requests -> Keys \cup {None}] /\ r # None
  BY SetsAssumption DEF CacheInv, TypeOK, RequestInv, Upstream
<1>2. /\ pc'[r] = next /\ \A q \in Requests \ {r} : key'[q] = key[q]
      /\ \A q \in Requests \ {r} :
           pc'[q] = IF pc[q] = "wait" /\ done[r] # None /\ done[q] = done[r]
                    THEN "woken" ELSE pc[q]
  BY <1>1 DEF FillEnds, Released
<1>3. pc[r] # "wait"
  BY DEF Upstream
<1>4. CASE done[r] = None
  <2>1. fills' = fills
    BY <1>4 DEF FillEnds, Unregistered
  <2> QED BY <1>2, <1>3, <1>4, <2>1 DEF SameFlights
<1>5. CASE done[r] # None
  <2>1. done[r] = r /\ fills[k] = r
    BY <1>5 DEF CacheInv, RequestInv, LeaderInv
  <2>2. fills' = [fills EXCEPT ![k] = None] /\ fills[k] # None
    BY <1>1, <2>1 DEF FillEnds, Unregistered
  <2>3. \A q \in Requests : pc[q] = "wait" =>
          key[q] \in Keys /\ (done[q] = r <=> key[q] = k)
    <3>1. \A q \in Requests : pc[q] = "wait" => key[q] \in Keys /\ fills[key[q]] = done[q]
      BY DEF CacheInv, WaitsForRegistered, Keys
    <3>2. \A j \in Keys : fills[j] = r => j = k
      BY <1>1 DEF CacheInv, LeaderInv
    <3> QED BY <2>1, <3>1, <3>2
  <2>4. \A q \in Requests : pc'[q] = "wait" <=> pc[q] = "wait" /\ key[q] # k
    BY <1>2, <1>3, <2>1, <2>3, <1>5
  <2>5. Following' = [Following EXCEPT ![k] = {}]
    <3>1. \A j \in Keys : {q \in Requests : pc'[q] = "wait" /\ key'[q] = j}
                            = IF j = k THEN {} ELSE {q \in Requests : pc[q] = "wait" /\ key[q] = j}
      BY <1>2, <1>3, <2>4
    <3> HIDE DEF k
    <3> QED BY <3>1 DEF Following
  <2> QED BY <1>1, <2>2, <2>5 DEF F!Land
<1> QED BY <1>4, <1>5

LEMMA EnterFlies ==
  ASSUME CacheInv, NEW r \in Requests, Enter(r)
  PROVE  SameFlights \/ \E k \in Keys : F!Lead(r, k) \/ F!Join(r, k)
<1>1. PICK k \in Keys : EnterHit(r, k) \/ EnterLeader(r, k) \/ EnterFollower(r, k)
                        \/ EnterLock(r, k)
  BY DEF Enter
<1>2. pc[r] = "idle" /\ pc \in [Requests -> Pcs] /\ key \in [Requests -> Keys \cup {None}]
  BY <1>1 DEF EnterHit, EnterLeader, EnterFollower, EnterLock, CacheInv, TypeOK
<1>3. CASE EnterHit(r, k) \/ EnterLock(r, k)
  BY <1>2, <1>3 DEF EnterHit, EnterLock, SameFlights
<1>4. CASE EnterLeader(r, k)
  <2>1. Following' = Following
    <3>1. /\ \A q \in Requests : pc'[q] = "wait" <=> pc[q] = "wait"
          /\ \A q \in Requests : pc[q] = "wait" => key'[q] = key[q]
      BY <1>2, <1>4 DEF EnterLeader
    <3>2. \A j \in Keys : {q \in Requests : pc'[q] = "wait" /\ key'[q] = j}
                            = {q \in Requests : pc[q] = "wait" /\ key[q] = j}
      BY <3>1
    <3> QED BY <3>2 DEF Following
  <2> QED BY <1>4, <2>1 DEF EnterLeader, F!Lead
<1>5. CASE EnterFollower(r, k)
  <2>1. \A q \in Requests : /\ pc'[q] = "wait" <=> pc[q] = "wait" \/ q = r
                            /\ key'[q] = IF q = r THEN k ELSE key[q]
    BY <1>2, <1>5 DEF EnterFollower
  <2>2. \A j \in Keys : {q \in Requests : pc'[q] = "wait" /\ key'[q] = j}
          = IF j = k THEN {q \in Requests : pc[q] = "wait" /\ key[q] = j} \cup {r}
                     ELSE {q \in Requests : pc[q] = "wait" /\ key[q] = j}
    BY <1>2, <2>1
  <2>3. Following' = [Following EXCEPT ![k] = @ \cup {r}]
    BY <2>2 DEF Following
  <2> QED BY <1>5, <2>3 DEF EnterFollower, F!Join
<1> QED BY <1>1, <1>3, <1>4, <1>5

LEMMA CancelFlies ==
  ASSUME CacheInv, NEW r \in Requests, Cancel(r)
  PROVE  SameFlights \/ \E k \in Keys : F!Leave(r, k)
<1>1. pc \in [Requests -> Pcs] /\ key \in [Requests -> Keys \cup {None}]
  BY DEF CacheInv, TypeOK
<1>2. CASE pc[r] # "wait"
  BY <1>1, <1>2 DEF Cancel, SameFlights
<1>3. CASE pc[r] = "wait"
  <2> DEFINE k == key[r]
  <2>1. k \in Keys
    BY <1>3 DEF CacheInv, RequestInv
  <2>2. \A q \in Requests : /\ pc'[q] = "wait" <=> pc[q] = "wait" /\ q # r
                            /\ q # r => key'[q] = key[q]
    BY <1>1, <1>3 DEF Cancel
  <2>3. \A j \in Keys : {q \in Requests : pc'[q] = "wait" /\ key'[q] = j}
          = IF j = k THEN {q \in Requests : pc[q] = "wait" /\ key[q] = j} \ {r}
                     ELSE {q \in Requests : pc[q] = "wait" /\ key[q] = j}
    BY <2>2
  <2>4. r \in Following[k]
    BY <1>3, <2>1 DEF Following
  <2>5. Following' = [Following EXCEPT ![k] = @ \ {r}]
    <3>1. \A j \in Keys : Following'[j] = IF j = k THEN Following[j] \ {r} ELSE Following[j]
      BY <2>3 DEF Following
    <3>2. DOMAIN Following = Keys /\ DOMAIN Following' = Keys
      BY DEF Following
    <3>3. /\ Following = [j \in Keys |-> Following[j]]
          /\ Following' = [j \in Keys |-> Following'[j]]
      BY DEF Following
    <3> HIDE DEF k
    <3> QED BY <2>1, <3>1, <3>2, <3>3
  <2> QED BY <2>1, <2>4, <2>5 DEF Cancel, F!Leave
<1> QED BY <1>2, <1>3

LEMMA RestartFlies == ASSUME Restart PROVE F!Restart
<1>1. \A k \in Keys : {q \in Requests : pc'[q] = "wait" /\ key'[q] = k} = {}
  BY DEF Restart
<1>2. Following' = [k \in Keys |-> {}]
  BY <1>1 DEF Following
<1> QED BY <1>2 DEF Restart, F!Restart

LEMMA ProgressFlies ==
  ASSUME CacheInv, NEW r \in Requests, Progress(r)
  PROVE  SameFlights \/ \E k \in Keys : F!Land(k)
<1>1. pc \in [Requests -> Pcs] /\ key \in [Requests -> Keys \cup {None}]
  BY DEF CacheInv, TypeOK
<1>2. CASE /\ pc[r] # "wait" /\ fills' = fills
           /\ \E next \in Pcs \ {"wait"} : pc' = [pc EXCEPT ![r] = next]
           /\ \A q \in Requests \ {r} : key'[q] = key[q]
  BY <1>1, <1>2 DEF SameFlights
<1>3. CASE /\ pc[r] \in Upstream \cup {"lock"}
           /\ \E next \in Pcs \ {"wait"} : FillEnds(r, next)
  BY <1>3, FillEndsLands
<1>4. CASE Wake(r) \/ Serve(r)
  BY <1>1, <1>2, <1>4 DEF Wake, Serve, Pcs
<1>5. CASE Locked(r)
  BY <1>2, <1>3, <1>5 DEF Locked, Pcs
<1>6. CASE SendOk(r) \/ SendStatus(r) \/ Complete(r) \/ BodyRaises(r)
  BY <1>2, <1>6 DEF SendOk, SendStatus, Complete, BodyRaises, Pcs
<1>7. CASE Chunk(r)
  BY <1>1, <1>7 DEF Chunk, SameFlights
<1>8. CASE SendVideo(r) \/ SendRaises(r) \/ CloseErr(r) \/ CloseOk(r)
  BY <1>3, <1>8 DEF SendVideo, SendRaises, CloseErr, CloseOk, Upstream, Pcs
<1> QED BY <1>4, <1>5, <1>6, <1>7, <1>8 DEF Progress

\* Whatever fails, is cancelled or crashes, the fills of originals coalesce as
\* SingleFlight says: one leader at a time, and nobody is left waiting when its
\* flight lands.
THEOREM ImplementsSingleFlight == Spec => RefinesSingleFlight
<1>1. Init => F!Init
  BY DEF Init, F!Init, Following
<1>2. CacheInv /\ [Next]_vars => [F!Next]_(F!vars)
  <2> SUFFICES ASSUME CacheInv, [Next]_vars PROVE F!Next \/ SameFlights
    BY SameFlightsStutters
  <2>1. ASSUME NEW r \in Requests, Enter(r) PROVE F!Next \/ SameFlights
    BY <2>1, EnterFlies DEF F!Next
  <2>2. ASSUME NEW r \in Requests, Progress(r) PROVE F!Next \/ SameFlights
    BY <2>2, ProgressFlies DEF F!Next
  <2>3. ASSUME NEW r \in Requests, Fault(r) PROVE F!Next \/ SameFlights
    <3>1. pc \in [Requests -> Pcs]
      BY DEF CacheInv, TypeOK
    <3>2. CASE CommitRaises(r) \/ BodyCancelled(r)
      BY <3>1, <3>2 DEF CommitRaises, BodyCancelled, SameFlights
    <3>5. CASE (Drop(r) \/ CloseFails(r)) /\ LeavesBehind(r)
      <4>1. pc[r] # "wait" /\ key \in [Requests -> Keys \cup {None}]
        BY <3>5 DEF Drop, CloseFails, CacheInv, TypeOK
      <4> QED BY <3>1, <3>5, <4>1 DEF LeavesBehind, SameFlights
    <3>6. CASE CloseFails(r) /\ FillEnds(r, "idle")
      BY <3>6, FillEndsLands DEF CloseFails, Upstream, Pcs, F!Next
    <3>3. CASE Cancel(r)
      BY <3>3, CancelFlies DEF F!Next
    <3>4. CASE CrashInCommit(r)
      BY <3>4, RestartFlies DEF CrashInCommit, F!Next
    <3> QED BY <2>3, <3>2, <3>3, <3>4, <3>5, <3>6 DEF Fault, Drop, CloseFails
  <2>4. CASE Crash
    BY <2>4, RestartFlies DEF Crash, F!Next
  <2>5. CASE UNCHANGED vars
    BY <2>5 DEF vars, SameFlights
  <2>6. ASSUME NEW r \in Requests, Client(r) PROVE F!Next \/ SameFlights
    <3>1. pc \in [Requests -> Pcs]
      BY DEF CacheInv, TypeOK
    <3> QED BY <2>6, <3>1 DEF Client, StartBody, ClientReads, ClientLeaves, SameFlights
  <2> QED BY <2>1, <2>2, <2>3, <2>4, <2>5, <2>6 DEF Next
<1> QED BY <1>1, <1>2, CacheInvariant, PTL DEF Spec, RefinesSingleFlight, F!Spec

-----------------------------------------------------------------------------
(* Eviction, for every cap and every set of file sizes (through            *)
(* BytesAssumption).                                                       *)

\* A non-empty set of keys has a least recently used member.
LEMMA OldestExists ==
  ASSUME lastAccess \in [Keys -> Nat], NEW T \in SUBSET Keys, T # {}
  PROVE  \E v \in T : \A w \in T : ~(lastAccess[w] < lastAccess[v])
<1> DEFINE R == OpToRel(<, Nat)
           A == {lastAccess[w] : w \in T}
<1>1. A \subseteq Nat /\ A # {}
  OBVIOUS
<1>2. PICK n \in A : \A m \in A : ~(<<m, n>> \in R)
  <2> HIDE DEF A, R
  <2>1. IsWellFoundedOn(R, Nat)
    BY NatLessThanWellFounded DEF R
  <2> QED BY <1>1, <2>1, WFMin
<1>3. \A m \in A : ~(m < n)
  BY <1>1, <1>2 DEF OpToRel
<1> QED BY <1>3

\* After _evict the index is within the cap, or only the kept row is left.
LEMMA EvictedEnough ==
  ASSUME lastAccess \in [Keys -> Nat], NEW R \in SUBSET Keys, NEW k \in R
  PROVE  \/ Bytes(R \ Evicted(R, k)) <= MaxBytes
         \/ R \ Evicted(R, k) = {k}
<1> DEFINE left == R \ Evicted(R, k)
           others == R \ {k}
<1>1. CASE Bytes(R) <= MaxBytes
  BY <1>1 DEF Evicted
<1>2. CASE ~(Bytes(R) <= MaxBytes) /\ left # {k}
  <2>1. k \in left /\ left \subseteq R
    BY <1>2 DEF Evicted
  <2>2. PICK v \in left \ {k} : \A w \in left \ {k} : ~(lastAccess[w] < lastAccess[v])
    <3>1. left \ {k} # {} /\ left \ {k} \in SUBSET Keys
      BY <1>2, <2>1
    <3> HIDE DEF left
    <3> QED BY <3>1, OldestExists
  <2>3. Bytes(R \ Older(others, v)) <= Target
    <3>1. ~(Bytes(R \ Older(others, v)) > Target)
      BY <1>2, <2>2 DEF Evicted
    <3>2. Bytes(R \ Older(others, v)) \in Nat
      BY BytesAssumption
    <3>3. Target \in Nat
      BY NumbersAssumption DEF Target
    <3> QED BY <3>1, <3>2, <3>3
  <2>4. left \subseteq R \ Older(others, v)
    BY <2>1, <2>2 DEF Older
  <2>5. Bytes(left) <= Bytes(R \ Older(others, v))
    <3>1. left \in SUBSET Keys /\ R \ Older(others, v) \in SUBSET Keys
      BY <2>1
    <3> QED BY <2>4, <3>1, BytesAssumption
  <2>6. Target <= MaxBytes /\ Target \in Nat
    BY NumbersAssumption DEF Target
  <2>7. Bytes(left) \in Nat /\ Bytes(R \ Older(others, v)) \in Nat
    <3>1. left \in SUBSET Keys /\ R \ Older(others, v) \in SUBSET Keys
      BY <2>1
    <3> QED BY <3>1, BytesAssumption
  <2>8. Bytes(left) <= MaxBytes
    <3> HIDE DEF left, others
    <3> QED BY <2>3, <2>5, <2>6, <2>7, NumbersAssumption
  <2> QED BY <2>8
<1> QED BY <1>1, <1>2

\* What is evicted was used before everything else that stays.
LEMMA EvictedAreOlder ==
  ASSUME lastAccess \in [Keys -> Nat], NEW R \in SUBSET Keys, NEW k \in R,
         NEW v \in Evicted(R, k), NEW w \in R \ Evicted(R, k), w # k,
         lastAccess[w] # lastAccess[v]
  PROVE  lastAccess[v] < lastAccess[w]
<1> DEFINE others == R \ {k}
<1>1. /\ v \in others /\ w \in others /\ v \in Keys /\ w \in Keys
      /\ Bytes(R \ Older(others, v)) > Target
      /\ ~(Bytes(R \ Older(others, w)) > Target)
  BY DEF Evicted
<1>2. SUFFICES ASSUME lastAccess[w] < lastAccess[v] PROVE FALSE
  BY <1>1
<1>3. R \ Older(others, v) \subseteq R \ Older(others, w)
  BY <1>1, <1>2 DEF Older
<1>4. Bytes(R \ Older(others, v)) <= Bytes(R \ Older(others, w))
  BY <1>3, BytesAssumption
<1>5. /\ Bytes(R \ Older(others, v)) \in Nat /\ Bytes(R \ Older(others, w)) \in Nat
      /\ Target \in Nat
  BY BytesAssumption, NumbersAssumption DEF Target
<1> QED BY <1>1, <1>4, <1>5

\* Touching k makes it the newest and keeps the order of the others.
LEMMA TouchedOrder ==
  ASSUME lastAccess \in [Keys -> Nat], AccessOrder, NEW k \in Keys
  PROVE  /\ Touched(k) \in [Keys -> Nat]
         /\ \A j \in Keys : Touched(k)[j] \in 1..Cardinality(Keys)
         /\ \A j \in Keys \ {k} : Touched(k)[j] < Touched(k)[k]
         /\ \A i, j \in Keys \ {k} :
              lastAccess[i] < lastAccess[j] => Touched(k)[i] < Touched(k)[j]
         /\ \A i, j \in Keys : Touched(k)[i] = Touched(k)[j] => i = j
<1> DEFINE n == Cardinality(Keys)
<1>1. n \in Nat
  BY FiniteAssumption, FS_CardinalityType
<1> HIDE DEF n
<1>2. /\ \A j \in Keys : lastAccess[j] \in 1..n
      /\ \A i, j \in Keys : lastAccess[i] = lastAccess[j] => i = j
  BY DEF AccessOrder, n
<1>3. Touched(k)[k] = n /\ Touched(k) \in [Keys -> Nat]
  BY TouchedType DEF Touched, n
<1>4. \A j \in Keys \ {k} :
        Touched(k)[j] = IF lastAccess[j] > lastAccess[k] THEN lastAccess[j] - 1
                        ELSE lastAccess[j]
  BY DEF Touched
<1>5. ASSUME NEW j \in Keys \ {k}
      PROVE  Touched(k)[j] \in 1..n /\ Touched(k)[j] < n
  <2>1. lastAccess[j] # lastAccess[k] /\ lastAccess[j] \in 1..n /\ lastAccess[k] \in 1..n
    BY <1>2
  <2>2. CASE lastAccess[j] > lastAccess[k]
    <3>1. Touched(k)[j] = lastAccess[j] - 1
      BY <1>4, <2>2
    <3> QED BY <1>1, <2>1, <2>2, <3>1
  <2>3. CASE ~(lastAccess[j] > lastAccess[k])
    <3>1. Touched(k)[j] = lastAccess[j]
      BY <1>4, <2>3
    <3> QED BY <1>1, <2>1, <2>3, <3>1
  <2> QED BY <2>2, <2>3
<1>6. n \in 1..n
  BY <1>1, <1>2
<1>7. ASSUME NEW i \in Keys \ {k}, NEW j \in Keys \ {k}, lastAccess[i] < lastAccess[j]
      PROVE  Touched(k)[i] < Touched(k)[j]
  <2>1. lastAccess[i] # lastAccess[k] /\ lastAccess[j] # lastAccess[k]
    BY <1>2
  <2>2. lastAccess[i] \in Nat /\ lastAccess[j] \in Nat /\ lastAccess[k] \in Nat
    OBVIOUS
  <2> QED BY <1>4, <1>7, <2>1, <2>2
<1>8. ASSUME NEW i \in Keys, NEW j \in Keys, Touched(k)[i] = Touched(k)[j], i # j
      PROVE  FALSE
  <2>1. CASE i = k \/ j = k
    BY <1>1, <1>3, <1>5, <1>8, <2>1
  <2>2. CASE i # k /\ j # k
    <3>1. lastAccess[i] < lastAccess[j] \/ lastAccess[j] < lastAccess[i]
      <4>1. lastAccess[i] # lastAccess[j] /\ lastAccess[i] \in Nat /\ lastAccess[j] \in Nat
        BY <1>2, <1>8
      <4> QED BY <4>1
    <3>2. Touched(k)[i] < Touched(k)[j] \/ Touched(k)[j] < Touched(k)[i]
      BY <1>7, <2>2, <3>1
    <3> QED BY <1>3, <1>8, <3>2
  <2> QED BY <2>1, <2>2
<1> QED BY <1>3, <1>5, <1>6, <1>7, <1>8 DEF n

-----------------------------------------------------------------------------
(* The store where every commit comes to its end.                          *)

StoreInv == CacheInv /\ EvictInv /\ WithinCap

\* A step changes the index by one lookup or one commit, or not at all, ...
StoreStep ==
  \/ \E k \in Keys : LookupHit(k) \/ LookupMiss(k)
  \/ \E k \in Keys : \E stuck \in SUBSET rows : Commit(k, NChunks, stuck)
  \/ UNCHANGED store

\* ... or a commit raises or the process dies in it.
HalfStep ==
  /\ "commit" \in Faults \/ "crash" \in Faults
  /\ \E k \in Keys : HalfCommit(k, NChunks)

LEMMA StepsOfStore ==
  ASSUME CacheInv, [Next]_vars
  PROVE  StoreStep \/ HalfStep
<1>1. /\ \A r \in Requests : pc[r] # "idle" => key[r] \in Keys
      /\ \A r \in Requests : pc[r] \in Pcs
  BY DEF CacheInv, RequestInv, TypeOK
<1>2. ASSUME NEW r \in Requests, Enter(r) PROVE StoreStep
  BY <1>2 DEF StoreStep, Enter, EnterHit, EnterLeader, EnterFollower, EnterLock
<1>3. ASSUME NEW r \in Requests, Progress(r) PROVE StoreStep
  <2>1. CASE Wake(r) \/ Locked(r)
    <3>1. key[r] \in Keys
      BY <1>1, <2>1 DEF Wake, Locked
    <3> QED BY <2>1, <3>1 DEF StoreStep, Wake, Locked
  <2>2. CASE Complete(r)
    <3>1. key[r] \in Keys
      BY <1>1, <2>2 DEF Complete
    <3>2. \E stuck \in SUBSET rows : Commit(key[r], NChunks, stuck)
      BY <2>2 DEF Complete
    <3> QED BY <3>1, <3>2 DEF StoreStep
  <2>3. CASE UNCHANGED store
    BY <2>3 DEF StoreStep
  <2> QED BY <1>3, <2>1, <2>2, <2>3
          DEF Progress, SendOk, SendVideo, SendStatus, SendRaises, Chunk,
              BodyRaises, CloseOk, CloseErr, Serve
<1>4. ASSUME NEW r \in Requests, Fault(r) PROVE StoreStep \/ HalfStep
  <2>1. CASE CommitRaises(r)
    <3>1. key[r] \in Keys
      BY <1>1, <2>1 DEF CommitRaises
    <3> QED BY <2>1, <3>1 DEF HalfStep, CommitRaises
  <2>2. CASE UNCHANGED store
    BY <2>2 DEF StoreStep
  <2>3. CASE CrashInCommit(r)
    <3>1. key[r] \in Keys
      BY <1>1, <2>3 DEF CrashInCommit
    <3> QED BY <2>3, <3>1 DEF HalfStep, CrashInCommit
  <2> QED BY <1>4, <2>1, <2>2, <2>3 DEF Fault, Drop, BodyCancelled, CloseFails, Cancel
<1>5. ASSUME NEW r \in Requests, Client(r) PROVE StoreStep
  BY <1>5 DEF Client, StartBody, ClientReads, ClientLeaves, StoreStep
<1> QED BY <1>2, <1>3, <1>4, <1>5 DEF Next, Crash, vars, store, StoreStep

\* Who a commit takes out of the index: only when it is above the cap, in the
\* order of last_access, and no more than the target asks for.
LEMMA CommitVictims ==
  ASSUME CacheInv, AccessOrder, NEW k \in Keys, NEW stuck, Commit(k, NChunks, stuck),
         NEW v \in rows \ rows'
  PROVE  /\ Bytes(rows \cup rows') > MaxBytes
         /\ \A w \in rows' : lastAccess'[v] < lastAccess'[w]
         /\ Bytes(rows' \cup {w \in rows \ rows' : lastAccess[w] >= lastAccess[v]})
              > Target
<1> DEFINE R == rows \cup {k}
           others == R \ {k}
<1>1. /\ R \in SUBSET Keys /\ k \in R /\ lastAccess \in [Keys -> Nat]
  BY DEF CacheInv, TypeOK
<1>2. /\ rows' = R \ Evicted(R, k) /\ k \in rows' /\ rows' \subseteq R
      /\ lastAccess' = Touched(k)
  BY <1>1 DEF Commit, Evicted
<1>3. v \in Evicted(R, k) /\ v \in others /\ v \in Keys /\ rows \cup rows' = R
  BY <1>1, <1>2
<1>4. Bytes(R) > MaxBytes /\ Bytes(R \ Older(others, v)) > Target
  <2>1. Bytes(R) \in Nat /\ MaxBytes \in Nat
    BY <1>1, BytesAssumption, NumbersAssumption
  <2> QED BY <1>3, <2>1 DEF Evicted
<1>5. /\ \A j \in Keys \ {k} : lastAccess'[j] < lastAccess'[k]
      /\ \A i, j \in Keys \ {k} :
           lastAccess[i] < lastAccess[j] => lastAccess'[i] < lastAccess'[j]
  BY <1>1, <1>2, TouchedOrder
<1>6. ASSUME NEW w \in rows', w # k
      PROVE  lastAccess[v] < lastAccess[w]
  <2>1. w \in R \ Evicted(R, k) /\ w \in Keys /\ w # v
    BY <1>1, <1>2, <1>3, <1>6
  <2>2. lastAccess[w] # lastAccess[v]
    BY <1>3, <2>1 DEF AccessOrder
  <2> QED BY <1>1, <1>3, <1>6, <2>1, <2>2, EvictedAreOlder
<1>7. ASSUME NEW w \in rows'
      PROVE  lastAccess'[v] < lastAccess'[w]
  <2>1. w \in Keys /\ v \in Keys \ {k}
    BY <1>1, <1>2, <1>3
  <2>2. CASE w = k
    BY <1>5, <2>1, <2>2
  <2>3. CASE w # k
    BY <1>5, <1>6, <2>1, <2>3
  <2> QED BY <2>2, <2>3
<1>8. R \ Older(others, v) = rows' \cup {w \in rows \ rows' : lastAccess[w] >= lastAccess[v]}
  <2>1. ASSUME NEW w \in R
        PROVE  w \notin Older(others, v) <=>
                 \/ w \in rows'
                 \/ w \in rows \ rows' /\ lastAccess[w] >= lastAccess[v]
    <3>1. lastAccess[w] \in Nat /\ lastAccess[v] \in Nat
      BY <1>1, <1>3
    <3>2. CASE w = k
      BY <1>2, <3>2 DEF Older
    <3>3. CASE w # k /\ w \in rows'
      <4>1. ~(lastAccess[w] < lastAccess[v])
        BY <1>6, <3>1, <3>3
      <4> QED BY <3>3, <4>1 DEF Older
    <3>4. CASE w # k /\ w \notin rows'
      BY <3>1, <3>4 DEF Older
    <3> QED BY <3>2, <3>3, <3>4
  <2> HIDE DEF others
  <2> QED BY <1>2, <2>1
<1> QED BY <1>3, <1>4, <1>7, <1>8

\* The facts about one commit: who goes, who stays, and what it leaves.
LEMMA CommitEvicts ==
  ASSUME StoreInv, NEW k \in Keys, NEW stuck, Commit(k, NChunks, stuck)
  PROVE  /\ WithinCap' /\ EvictInv'
         /\ \A v \in rows \ rows', w \in rows' : lastAccess'[v] < lastAccess'[w]
<1> DEFINE R == rows \cup {k}
<1>1. /\ R \in SUBSET Keys /\ k \in R /\ lastAccess \in [Keys -> Nat]
      /\ file \in [Keys -> 0..NChunks \cup {None}] /\ EvictInv
  BY DEF StoreInv, CacheInv, TypeOK
<1>2. /\ rows' = R \ Evicted(R, k) /\ k \in rows' /\ rows' \subseteq R
      /\ lastAccess' = Touched(k)
      /\ \A j \in Keys : j \notin Evicted(R, k) /\ j # k => file'[j] = file[j]
      /\ file'[k] = NChunks
  BY <1>1 DEF Commit, Evicted
<1>3. /\ \A j \in Keys : lastAccess'[j] \in 1..Cardinality(Keys)
      /\ \A j \in Keys \ {k} : lastAccess'[j] < lastAccess'[k]
      /\ \A i, j \in Keys \ {k} :
           lastAccess[i] < lastAccess[j] => lastAccess'[i] < lastAccess'[j]
      /\ \A i, j \in Keys : lastAccess'[i] = lastAccess'[j] => i = j
  BY <1>1, <1>2, TouchedOrder DEF EvictInv
<1>4. WithinCap'
  BY <1>1, <1>2, EvictedEnough DEF WithinCap
<1>5. EvictInv'
  <2>1. NChunks # None
    BY NumbersAssumption, SetsAssumption
  <2>2. \A j \in rows' : file'[j] # None
    BY <1>1, <1>2, <1>3, <2>1 DEF EvictInv, AccessOrder
  <2> QED BY <1>3, <2>2 DEF EvictInv, AccessOrder
<1>6. ASSUME NEW v \in rows \ rows', NEW w \in rows'
      PROVE  lastAccess'[v] < lastAccess'[w]
  BY CommitVictims DEF StoreInv, EvictInv
<1> QED BY <1>4, <1>5, <1>6

LEMMA StoreStepKeeps ==
  ASSUME StoreInv, StoreStep
  PROVE  /\ WithinCap' /\ EvictInv'
         /\ \A v \in rows \ rows', w \in rows' : lastAccess'[v] < lastAccess'[w]
<1> USE DEF StoreInv
<1>1. /\ rows \in SUBSET Keys /\ lastAccess \in [Keys -> Nat]
      /\ file \in [Keys -> 0..NChunks \cup {None}]
  BY DEF CacheInv, TypeOK
<1>2. CASE \E k \in Keys : \E stuck \in SUBSET rows : Commit(k, NChunks, stuck)
  BY <1>2, CommitEvicts
<1>3. ASSUME NEW k \in Keys, LookupHit(k)
      PROVE  WithinCap' /\ EvictInv' /\ rows' = rows
  <2>1. rows' = rows /\ file' = file /\ lastAccess' = Touched(k)
    BY <1>3 DEF LookupHit
  <2>2. WithinCap'
    BY <2>1 DEF WithinCap
  <2>3. EvictInv'
    BY <1>1, <2>1, TouchedOrder DEF EvictInv, AccessOrder
  <2> QED BY <2>1, <2>2, <2>3
<1>4. ASSUME NEW k \in Keys, LookupMiss(k)
      PROVE  UNCHANGED store
  BY <1>4 DEF LookupMiss, Hit, EvictInv, AccessOrder, store
<1>6. UNCHANGED store => WithinCap' /\ EvictInv' /\ rows' = rows
  BY DEF store, WithinCap, EvictInv, AccessOrder
<1> QED BY <1>2, <1>3, <1>4, <1>6 DEF StoreStep

\* Where every commit comes to its end, the index is within the cap after every
\* step, or holds only the file just stored, which is too large on its own.
THEOREM CapHolds ==
  ASSUME "crash" \notin Faults, "commit" \notin Faults
  PROVE  Spec => [](WithinCap /\ EvictInv)
<1>1. Init => WithinCap /\ EvictInv
  <2>1. Init => EvictInv
    BY DEF Init, EvictInv, AccessOrder, Injection, IsInjective
  <2>2. Init => WithinCap
    BY NumbersAssumption, BytesAssumption DEF Init, WithinCap
  <2> QED BY <2>1, <2>2
<1>2. CacheInv /\ WithinCap /\ EvictInv /\ [Next]_vars => (WithinCap /\ EvictInv)'
  BY StepsOfStore, StoreStepKeeps DEF StoreInv, HalfStep
<1> QED BY <1>1, <1>2, CacheInvariant, PTL DEF Spec

\* Where every commit comes to its end, eviction is LRU: whatever a step takes out of the index was used before
\* everything it leaves there.
THEOREM EvictionIsLRU ==
  ASSUME "crash" \notin Faults, "commit" \notin Faults
  PROVE  Spec => EvictsOldest
<1>1. CacheInv /\ WithinCap /\ EvictInv /\ [Next]_vars =>
        [\A v \in rows \ rows', w \in rows' : lastAccess'[v] < lastAccess'[w]]_vars
  BY StepsOfStore, StoreStepKeeps DEF StoreInv, HalfStep
<1> QED BY <1>1, CapHolds, CacheInvariant, PTL DEF Spec, EvictsOldest

\* last_access stays an order whatever happens, half a commit included.
LEMMA AccessOrderKept ==
  ASSUME CacheInv, AccessOrder, [Next]_vars
  PROVE  AccessOrder'
<1>1. lastAccess \in [Keys -> Nat]
  BY DEF CacheInv, TypeOK
<1>2. ASSUME NEW k \in Keys, lastAccess' = Touched(k)
      PROVE  AccessOrder'
  BY <1>1, <1>2, TouchedOrder DEF AccessOrder
<1>3. lastAccess' = lastAccess \/ \E k \in Keys : lastAccess' = Touched(k)
  BY StepsOfStore DEF StoreStep, HalfStep, HalfCommit, LookupHit, LookupMiss, Commit, store
<1>4. lastAccess' = lastAccess => AccessOrder'
  BY DEF AccessOrder
<1> QED BY <1>2, <1>3, <1>4

LEMMA AccessOrderInvariant == Spec => []AccessOrder
<1>1. Init => AccessOrder
  BY DEF Init, AccessOrder, Injection, IsInjective
<1>2. CacheInv /\ AccessOrder /\ [Next]_vars => AccessOrder'
  BY AccessOrderKept
<1> QED BY <1>1, <1>2, CacheInvariant, PTL DEF Spec

\* Under every fault, eviction begins only above the cap, goes by last_access and
\* stops at the target: no row is lost that did not have to go, except one whose
\* file is gone.
THEOREM EvictionIsMinimal == Spec => EvictsNoMore
<1> DEFINE A == \A v \in rows \ rows' : file[v] # None =>
                  /\ Bytes(rows \cup rows') > MaxBytes
                  /\ \A w \in rows' : lastAccess'[v] < lastAccess'[w]
                  /\ Bytes(rows' \cup {w \in rows \ rows' : lastAccess[w] >= lastAccess[v]})
                       > Target
<1>1. CacheInv /\ AccessOrder /\ [Next]_vars => [A]_vars
  <2> SUFFICES ASSUME CacheInv, AccessOrder, [Next]_vars PROVE A
    OBVIOUS
  <2>1. CASE \E k \in Keys : \E stuck \in SUBSET rows : Commit(k, NChunks, stuck)
    BY <2>1, CommitVictims
  <2>2. ASSUME NEW k \in Keys, LookupMiss(k)
        PROVE  A
    BY <2>2 DEF LookupMiss, Hit
  <2>3. CASE rows \subseteq rows'
    BY <2>3
  <2>4. CASE HalfStep
    BY <2>3, <2>4 DEF HalfStep, HalfCommit
  <2> QED BY <2>1, <2>2, <2>3, <2>4, StepsOfStore DEF StoreStep, LookupHit, store
<1> QED BY <1>1, CacheInvariant, AccessOrderInvariant, PTL DEF Spec, EvictsNoMore

\* An _evict that raises, or a crash in it, can leave the index above the cap;
\* under every fault,
\* the next commit that completes brings it back within the cap.
THEOREM CommitsRestoreCap ==
  Spec => [][\A r \in Requests : Complete(r) => WithinCap']_vars
<1>1. CacheInv => \A r \in Requests : Complete(r) => WithinCap'
  <2> SUFFICES ASSUME CacheInv, NEW r \in Requests, Complete(r)
               PROVE  WithinCap'
    OBVIOUS
  <2>1. key[r] \in Keys /\ rows \cup {key[r]} \in SUBSET Keys /\ lastAccess \in [Keys -> Nat]
    BY DEF Complete, CacheInv, RequestInv, TypeOK
  <2>2. rows' = (rows \cup {key[r]}) \ Evicted(rows \cup {key[r]}, key[r])
    BY DEF Complete, Commit
  <2> QED BY <2>1, <2>2, EvictedEnough DEF WithinCap
<1> QED BY <1>1, CacheInvariant, PTL DEF Spec

\* Without failing index writes, failing unlinks and crashes, the index and the
\* disk agree after every step.
THEOREM IndexMatchesDisk ==
  ASSUME "crash" \notin Faults, "commit" \notin Faults, "unlink" \notin Faults
  PROVE  Spec => []RowsMatchFiles
<1>1. Init => RowsMatchFiles
  BY DEF Init, RowsMatchFiles
<1>2. CacheInv /\ RowsMatchFiles /\ [Next]_vars => RowsMatchFiles'
  <2> SUFFICES ASSUME CacheInv, RowsMatchFiles, [Next]_vars PROVE RowsMatchFiles'
    OBVIOUS
  <2>1. /\ file \in [Keys -> 0..NChunks \cup {None}] /\ NChunks # None
        /\ rows \subseteq Keys
    BY NumbersAssumption, SetsAssumption DEF CacheInv, TypeOK
  <2>2. ASSUME NEW k \in Keys, LookupHit(k) \/ LookupMiss(k)
        PROVE  RowsMatchFiles'
    BY <2>2 DEF LookupHit, LookupMiss, Hit, RowsMatchFiles
  <2>3. ASSUME NEW k \in Keys, NEW stuck \in SUBSET rows, Commit(k, NChunks, stuck)
        PROVE  RowsMatchFiles'
    <3>1. Evicted(rows \cup {k}, k) \subseteq rows /\ k \notin Evicted(rows \cup {k}, k)
      BY DEF Evicted
    <3>2. stuck = {}
      BY <2>3 DEF Commit
    <3> QED BY <2>1, <2>3, <3>1, <3>2 DEF Commit, RowsMatchFiles
  <2>4. CASE UNCHANGED store
    BY <2>4 DEF store, RowsMatchFiles
  <2> QED BY <2>2, <2>3, <2>4, StepsOfStore DEF StoreStep, HalfStep
<1> QED BY <1>1, <1>2, CacheInvariant, PTL DEF Spec
=============================================================================
