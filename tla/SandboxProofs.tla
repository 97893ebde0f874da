------------------------- MODULE SandboxProofs -------------------------
(***************************************************************************)
(* Proofs about the sandboxes of the Python API: SandboxPool, for every    *)
(* number of requests, images and acquires and for every size of the pool, *)
(* and Preview, for every set of tasks and ports and any limits.           *)
(***************************************************************************)
EXTENDS SandboxPool, Preview, FiniteSetTheorems, TLAPS

-----------------------------------------------------------------------------
(* SandboxPool.                                                            *)


\* What an await inside the lock relies on.
Critical(u) == pc[u] \in {"evict", "init"}

\* Who is inside the lock holds it: no two are.
Lock == /\ \A u \in Users : Critical(u) => Holds(u)
        /\ stopPc = "stop" => Holds(Stopper)

\* in_use is set exactly for the leased instances.
Leases == /\ \A u \in Users : pc[u] = "use" <=> lease[u] # 0
          /\ \A i \in busy : \E u \in Users : lease[u] = i
          /\ \A u \in Users : lease[u] # 0 => lease[u] \in busy
          /\ ExclusiveLease

\* The instance being evicted is in the pool and nobody's.
Victims == \A u \in Users : pc[u] = "evict" => evicting \in Spare

\* A request that starts a provider leaves room for it.
Spot == \A u \in Users : pc[u] = "init" =>
            Cardinality(listed) < MaxSize \/ Cardinality(listed) < Cardinality(Users)

\* The pool's providers run, except those that stop_all is stopping.
Working == /\ NoOrphan
           /\ stopPc = "stop" => living \subseteq toStop
           /\ stopPc # "stop" => listed \subseteq living \cup torn

PoolIInv == PoolTypeOK /\ Lock /\ Leases /\ Victims /\ Spot /\ Bounded /\ Working

-----------------------------------------------------------------------------
(* Sequences and sets.                                                     *)

LEMMA LeaveTyped ==
    ASSUME NEW S, queue \in Seq(S), queue # <<>>, Leave
    PROVE  queue' \in Seq(S)
  BY DEF Leave

LEMMA EnterHead ==
    ASSUME NEW S, queue \in Seq(S), NEW p \in S, Enter(p)
    PROVE  /\ queue' \in Seq(S)
           /\ \A q : Holds(q) => Holds(q)'
  BY DEF Enter, Holds

LEMMA WithoutHead ==
    ASSUME NEW S, queue \in Seq(S), NEW n \in DOMAIN queue, Without(n)
    PROVE  /\ queue' \in Seq(S)
           /\ \A q : Holds(q) /\ q # queue[n] => Holds(q)'
<1>1. /\ DOMAIN queue' = 1 .. Len(queue) - 1
      /\ \A k \in 1 .. Len(queue) - 1 : queue'[k] \in S
      /\ Len(queue) - 1 \in Nat
  BY DEF Without
<1>2. queue' \in Seq(S)
  BY <1>1 DEF Without
<1>3. ASSUME NEW q, Holds(q), q # queue[n] PROVE Holds(q)'
  <2>1. queue[1] = q /\ n # 1 /\ Len(queue) > 1
    BY <1>3 DEF Holds
  <2>2. queue'[1] = queue[1] /\ Len(queue') = Len(queue) - 1
    BY <2>1, <1>1 DEF Without
  <2> QED
    BY <2>1, <2>2, <1>2 DEF Holds
<1> QED
  BY <1>2, <1>3

\* A function over the instances, extended to the next one.
LEMMA Extend ==
    ASSUME made \in Nat, NEW S, NEW f \in [1 .. made -> S], NEW x \in S
    PROVE  Append(f, x) \in [1 .. made + 1 -> S]
<1>1. f \in Seq(S) /\ Len(f) = made
  OBVIOUS
<1>2. Append(f, x) \in Seq(S) /\ Len(Append(f, x)) = made + 1
  BY <1>1
<1>3. \A s \in Seq(S) : s \in [1 .. Len(s) -> S]
  OBVIOUS
<1> QED
  BY <1>2, <1>3

LEMMA TouchTyped ==
    ASSUME NEW i, older \in [1 .. made -> SUBSET (1 .. made)], Touch(i)
    PROVE  older' \in [1 .. made -> SUBSET (1 .. made)]
<1> DEFINE S == 1 .. made
<1> HIDE DEF S
<1>1. older' = [j \in S |-> IF j = i THEN S \ {i} ELSE older[j] \ {i}]
  BY DEF Touch, Ids, S
<1>2. older \in [S -> SUBSET S]
  BY DEF S
<1>3. older' \in [S -> SUBSET S]
  BY <1>1, <1>2
<1> QED
  BY <1>3 DEF S

LEMMA ListedFinite ==
    ASSUME PoolTypeOK
    PROVE  IsFiniteSet(listed) /\ Cardinality(listed) \in Nat
<1>1. IsFiniteSet(1 .. made)
  BY FS_Interval DEF PoolTypeOK
<1>2. IsFiniteSet(listed)
  BY <1>1, FS_Subset DEF PoolTypeOK, Ids
<1> QED
  BY <1>2, FS_CardinalityType

\* When every instance is leased, and not to u, there are fewer of them than
\* there are requests.
LEMMA FewerThanUsers ==
    ASSUME PoolTypeOK, Leases, listed \subseteq busy, NEW u \in Users, lease[u] = 0
    PROVE  Cardinality(listed) < Cardinality(Users)
<1> DEFINE H == {v \in Users : lease[v] \in listed}
           f == [v \in H |-> lease[v]]
<1>1. IsFiniteSet(H) /\ Cardinality(H) < Cardinality(Users)
  <2>1. H \in SUBSET (Users \ {u})
    BY DEF PoolTypeOK, Ids
  <2>2. /\ IsFiniteSet(Users \ {u})
        /\ Cardinality(Users \ {u}) = Cardinality(Users) - 1
    BY FS_RemoveElement, PoolAssumption
  <2>3. IsFiniteSet(H) /\ Cardinality(H) <= Cardinality(Users \ {u})
    BY <2>1, <2>2, FS_Subset
  <2>4. Cardinality(H) \in Nat /\ Cardinality(Users) \in Nat
    BY <2>3, FS_CardinalityType, PoolAssumption
  <2> QED
    BY <2>2, <2>3, <2>4
<1>2. f \in Surjection(H, listed)
  <2>1. f \in [H -> listed]
    OBVIOUS
  <2>2. \A i \in listed : \E v \in H : f[v] = i
    BY DEF Leases
  <2> QED
    BY <2>1, <2>2 DEF Surjection
<1>3. Cardinality(listed) <= Cardinality(H)
  BY <1>1, <1>2, FS_Surjection
<1> QED
  BY <1>1, <1>3, ListedFinite, FS_CardinalityType, PoolAssumption
-----------------------------------------------------------------------------
(* Types.                                                                  *)

LEMMA TypedInit == PoolInit => PoolTypeOK
<1> SUFFICES ASSUME PoolInit PROVE PoolTypeOK
  OBVIOUS
<1>1. 1 .. made = {}
  BY DEF PoolInit
<1>2. imageOf \in [1 .. made -> Images] /\ older \in [1 .. made -> SUBSET (1 .. made)]
  <2>1. DOMAIN <<>> = {} /\ <<>> = [i \in {} |-> 0]
    OBVIOUS
  <2> QED
    BY <1>1, <2>1 DEF PoolInit
<1> QED
  BY <1>2, PoolAssumption DEF PoolInit, PoolTypeOK, Ids

LEMMA TypedStep == PoolTypeOK /\ Lock /\ Victims /\ [PoolNext]_sandboxVars => PoolTypeOK'
<1> SUFFICES ASSUME PoolTypeOK, Lock, Victims, [PoolNext]_sandboxVars PROVE PoolTypeOK'
  OBVIOUS
<1> USE DEF PoolTypeOK, Ids, poolVars, reqVars, stopVars
<1>1. ASSUME NEW u \in Users, Request(u) PROVE PoolTypeOK'
  <2>1. queue' \in Seq(Users \cup {Stopper})
    BY <1>1, EnterHead DEF Request
  <2>2. begun' \in 0 .. MaxAcquires
    BY <1>1, PoolAssumption DEF Request
  <2> QED
    BY <1>1, <2>1, <2>2 DEF Request
<1>2. ASSUME NEW u \in Users, Reuse(u) PROVE PoolTypeOK'
  <2>1. queue' \in Seq(Users \cup {Stopper})
    BY <1>2, LeaveTyped DEF Reuse, Holds
  <2>2. PICK i \in Fit(u) : /\ busy' = busy \cup {i} /\ Touch(i)
                            /\ lease' = [lease EXCEPT ![u] = i]
    BY <1>2 DEF Reuse
  <2>3. i \in 1 .. made
    BY <2>2 DEF Fit, Spare
  <2>4. older' \in [1 .. made -> SUBSET (1 .. made)]
    BY <2>2, TouchTyped
  <2> QED
    BY <1>2, <2>1, <2>2, <2>3, <2>4 DEF Reuse
<1>3. ASSUME NEW u \in Users, Evict(u) PROVE PoolTypeOK'
  BY <1>3 DEF Evict, Spare
<1>4. ASSUME NEW u \in Users, StartNew(u) PROVE PoolTypeOK'
  BY <1>4 DEF StartNew
<1>5. ASSUME NEW u \in Users, Evicted(u) PROVE PoolTypeOK'
  BY <1>5 DEF Evicted
<1>6. ASSUME NEW u \in Users, Started(u) PROVE PoolTypeOK'
  <2>1. queue' \in Seq(Users \cup {Stopper})
    BY <1>6, LeaveTyped DEF Started, Lock, Critical, Holds
  <2>2. imageOf' \in [1 .. made + 1 -> Images]
    BY <1>6, Extend DEF Started
  <2>3. /\ older \in [1 .. made -> SUBSET (1 .. made + 1)]
        /\ 1 .. made \in SUBSET (1 .. made + 1)
    OBVIOUS
  <2>4. older' \in [1 .. made + 1 -> SUBSET (1 .. made + 1)]
    BY <1>6, <2>3, Extend DEF Started
  <2>5. 1 .. made \subseteq 1 .. made + 1 /\ made + 1 \in 1 .. made + 1
    OBVIOUS
  <2> QED
    BY <1>6, <2>1, <2>2, <2>4, <2>5 DEF Started
<1>7. ASSUME NEW u \in Users, NotStarted(u) PROVE PoolTypeOK'
  <2>1. queue' \in Seq(Users \cup {Stopper})
    BY <1>7, LeaveTyped DEF NotStarted, Lock, Critical, Holds
  <2> QED
    BY <1>7, <2>1 DEF NotStarted
<1>8. ASSUME NEW u \in Users, CancelWait(u) PROVE PoolTypeOK'
  <2>1. queue' \in Seq(Users \cup {Stopper})
    BY <1>8, WithoutHead DEF CancelWait
  <2> QED
    BY <1>8, <2>1 DEF CancelWait
<1>9. ASSUME NEW u \in Users, CancelEvict(u) PROVE PoolTypeOK'
  <2>1. queue' \in Seq(Users \cup {Stopper})
    BY <1>9, LeaveTyped DEF CancelEvict, Lock, Critical, Holds
  <2>2. torn' \subseteq 1 .. made
    <3>1. evicting \in 1 .. made
      BY <1>9 DEF CancelEvict, Victims, Spare
    <3> QED
      BY <1>9, <3>1 DEF CancelEvict
  <2>3. living' \subseteq 1 .. made
    BY <1>9 DEF CancelEvict
  <2> QED
    BY <1>9, <2>1, <2>2, <2>3 DEF CancelEvict
<1>10. ASSUME NEW u \in Users, Release(u) PROVE PoolTypeOK'
  <2>1. older' \in [1 .. made -> SUBSET (1 .. made)]
    BY <1>10, TouchTyped DEF Release
  <2>2. lease' \in [Users -> 1 .. made \cup {0}] /\ busy' \subseteq 1 .. made
    BY <1>10 DEF Release
  <2> QED
    BY <1>10, <2>1, <2>2 DEF Release
<1>11. CASE StopRequest
  <2>1. queue' \in Seq(Users \cup {Stopper})
    BY <1>11, EnterHead DEF StopRequest
  <2> QED
    BY <1>11, <2>1 DEF StopRequest
<1>12. CASE StopBegins
  BY <1>12 DEF StopBegins
<1>13. CASE StopOne
  BY <1>13 DEF StopOne
<1>14. CASE StopEnds
  <2>1. queue' \in Seq(Users \cup {Stopper})
    BY <1>14, LeaveTyped DEF StopEnds, Lock, Holds
  <2> QED
    BY <1>14, <2>1 DEF StopEnds
<1>15. CASE UNCHANGED sandboxVars
  BY <1>15 DEF sandboxVars
<1> QED
  BY <1>1, <1>2, <1>3, <1>4, <1>5, <1>6, <1>7, <1>8, <1>9, <1>10, <1>11, <1>12, <1>13,
     <1>14, <1>15 DEF PoolNext, Progress

-----------------------------------------------------------------------------
(* The lock.                                                               *)

\* The lock has one holder.
LEMMA OneHolder ==
    ASSUME NEW p, NEW q, Holds(p), Holds(q)
    PROVE  p = q
  BY DEF Holds

\* Whoever takes or leaves the lock was its holder, so nobody else is inside.
LEMMA Alone ==
    ASSUME Lock, NEW u \in Users, Holds(u)
    PROVE  /\ \A v \in Users : v # u => ~Critical(v)
           /\ stopPc # "stop"
<1>1. u # Stopper
  BY PoolAssumption DEF Stopper
<1> QED
  BY <1>1, OneHolder DEF Lock

\* A step by which the holder leaves the lock.
LEMMA LockLeft ==
    ASSUME Lock, NEW u \in Users, Holds(u), ~Critical(u)', UNCHANGED stopPc,
           \A v \in Users : v # u => pc'[v] = pc[v]
    PROVE  Lock'
  BY Alone DEF Lock, Critical

LEMMA LockStep == PoolTypeOK /\ Lock /\ [PoolNext]_sandboxVars => Lock'
<1> SUFFICES ASSUME PoolTypeOK, Lock, [PoolNext]_sandboxVars PROVE Lock'
  OBVIOUS
<1>t. /\ queue \in Seq(Users \cup {Stopper})
      /\ pc \in [Users -> {"idle", "wait", "evict", "init", "use"}]
  BY DEF PoolTypeOK
<1>1. ASSUME NEW u \in Users, Request(u) PROVE Lock'
  <2>1. \A q : Holds(q) => Holds(q)'
    BY <1>1, <1>t, EnterHead DEF Request
  <2>2. \A v \in Users : Critical(v)' => Critical(v)
    BY <1>1, <1>t DEF Request, Critical
  <2> QED
    BY <1>1, <2>1, <2>2 DEF Request, Lock, stopVars
<1>2. ASSUME NEW u \in Users, Reuse(u) PROVE Lock'
  <2>1. ~Critical(u)'
    BY <1>2, <1>t DEF Reuse, Critical
  <2> QED
    BY <1>2, <1>t, <2>1, LockLeft DEF Reuse, stopVars
<1>3. ASSUME NEW u \in Users, Evict(u) \/ StartNew(u) PROVE Lock'
  <2>1. \A v \in Users : Critical(v)' => Critical(v) \/ v = u
    BY <1>3, <1>t DEF Evict, StartNew, Critical
  <2>2. Holds(u) /\ UNCHANGED <<queue, stopPc>>
    BY <1>3 DEF Evict, StartNew, stopVars
  <2> QED
    BY <2>1, <2>2 DEF Lock, Holds
<1>4. ASSUME NEW u \in Users, Evicted(u) PROVE Lock'
  <2>1. \A v \in Users : Critical(v)' => Critical(v)
    BY <1>4, <1>t DEF Evicted, Critical
  <2> QED
    BY <1>4, <2>1 DEF Evicted, Lock, Holds, stopVars
<1>5. ASSUME NEW u \in Users, Started(u) \/ NotStarted(u) \/ CancelEvict(u) PROVE Lock'
  <2>1. ~Critical(u)' /\ Holds(u)
    BY <1>5, <1>t DEF Started, NotStarted, CancelEvict, Critical, Lock
  <2>2. UNCHANGED stopPc /\ \A v \in Users : v # u => pc'[v] = pc[v]
    BY <1>5, <1>t DEF Started, NotStarted, CancelEvict, stopVars
  <2> QED
    BY <2>1, <2>2, LockLeft
<1>6. ASSUME NEW u \in Users, CancelWait(u) PROVE Lock'
  <2>1. \A v \in Users : Critical(v)' => Critical(v) /\ v # u
    BY <1>6, <1>t DEF CancelWait, Critical
  <2>2. \A q : Holds(q) /\ q # u => Holds(q)'
    BY <1>6, <1>t, WithoutHead DEF CancelWait
  <2>3. Stopper # u
    BY PoolAssumption DEF Stopper
  <2> QED
    BY <1>6, <2>1, <2>2, <2>3 DEF CancelWait, Lock, stopVars
<1>7. ASSUME NEW u \in Users, Release(u) PROVE Lock'
  <2>1. \A v \in Users : Critical(v)' => Critical(v)
    BY <1>7, <1>t DEF Release, Critical
  <2> QED
    BY <1>7, <2>1 DEF Release, Lock, Holds, stopVars
<1>8. CASE StopRequest
  <2>1. \A q : Holds(q) => Holds(q)'
    BY <1>8, <1>t, EnterHead DEF StopRequest
  <2> QED
    BY <1>8, <2>1 DEF StopRequest, Lock, Critical, reqVars
<1>9. CASE StopBegins \/ StopOne \/ UNCHANGED sandboxVars
  BY <1>9 DEF StopBegins, StopOne, sandboxVars, Lock, Holds, Critical, reqVars, stopVars
<1>10. CASE StopEnds
  <2>1. \A v \in Users : ~Critical(v)
    BY <1>10, OneHolder, PoolAssumption DEF StopEnds, Lock, Stopper
  <2> QED
    BY <1>10, <2>1 DEF StopEnds, Lock, Critical, reqVars
<1> QED
  BY <1>1, <1>2, <1>3, <1>4, <1>5, <1>6, <1>7, <1>8, <1>9, <1>10 DEF PoolNext, Progress

-----------------------------------------------------------------------------
(* Leases.                                                                 *)

LEMMA LeasesStep == PoolTypeOK /\ Leases /\ [PoolNext]_sandboxVars => Leases'
<1> SUFFICES ASSUME PoolTypeOK, Leases, [PoolNext]_sandboxVars PROVE Leases'
  OBVIOUS
<1>t. /\ lease \in [Users -> 1 .. made \cup {0}] /\ made \in Nat
      /\ pc \in [Users -> {"idle", "wait", "evict", "init", "use"}]
      /\ busy \subseteq 1 .. made /\ listed \subseteq 1 .. made
  BY DEF PoolTypeOK, Ids
<1> USE DEF Leases, ExclusiveLease
\* A free instance is leased to a request that has none.
<1>1. ASSUME NEW u \in Users, NEW i, i \notin busy, i # 0, pc[u] # "use",
             busy' = busy \cup {i}, lease' = [lease EXCEPT ![u] = i],
             pc' = [pc EXCEPT ![u] = "use"]
      PROVE  Leases'
  <2>1. \A v \in Users : lease'[v] = IF v = u THEN i ELSE lease[v]
    BY <1>1, <1>t
  <2>2. \A v \in Users : pc'[v] = IF v = u THEN "use" ELSE pc[v]
    BY <1>1, <1>t
  <2>3. \A v \in Users : lease[v] # i
    BY <1>1
  <2>4. \A j \in busy' : \E v \in Users : lease'[v] = j
    <3>1. lease'[u] = i
      BY <2>1
    <3>2. ASSUME NEW j \in busy PROVE \E v \in Users : lease'[v] = j
      <4>1. PICK v \in Users : lease[v] = j
        OBVIOUS
      <4>2. v # u
        BY <1>1, <1>t, <4>1
      <4> QED
        BY <2>1, <4>1, <4>2
    <3> QED
      BY <1>1, <3>1, <3>2
  <2> QED
    BY <1>1, <2>1, <2>2, <2>3, <2>4
<1>2. ASSUME NEW u \in Users, Reuse(u) PROVE Leases'
  <2>1. PICK i \in Fit(u) : busy' = busy \cup {i} /\ lease' = [lease EXCEPT ![u] = i]
    BY <1>2 DEF Reuse
  <2>2. i \notin busy /\ i # 0
    BY <1>t, <2>1 DEF Fit, Spare
  <2> QED
    BY <1>1, <1>2, <2>1, <2>2 DEF Reuse
<1>3. ASSUME NEW u \in Users, Started(u) PROVE Leases'
  <2>1. made + 1 \notin busy /\ made + 1 # 0
    BY <1>t
  <2>2. /\ busy' = busy \cup {made + 1} /\ lease' = [lease EXCEPT ![u] = made + 1]
        /\ pc' = [pc EXCEPT ![u] = "use"] /\ pc[u] # "use"
    BY <1>3 DEF Started
  <2> QED
    BY <1>1, <2>1, <2>2
<1>4. ASSUME NEW u \in Users, Release(u) PROVE Leases'
  <2>1. \A v \in Users : lease'[v] = IF v = u THEN 0 ELSE lease[v]
    BY <1>4, <1>t DEF Release
  <2>2. \A v \in Users : pc'[v] = IF v = u THEN "idle" ELSE pc[v]
    BY <1>4, <1>t DEF Release
  <2>3. busy' = busy \ {lease[u]} /\ lease[u] # 0
    BY <1>4 DEF Release
  <2>4. \A i \in busy' : \E v \in Users : lease'[v] = i
    BY <2>1, <2>3
  <2>5. \A v \in Users : lease'[v] # 0 => lease'[v] \in busy'
    BY <2>1, <2>3
  <2> QED
    BY <2>1, <2>2, <2>4, <2>5
\* Every other step leaves leases alone and moves nobody to or from "use".
<1>5. ASSUME UNCHANGED <<lease, busy>>,
             \A v \in Users : pc'[v] = "use" <=> pc[v] = "use"
      PROVE  Leases'
  BY <1>5
<1>6. ASSUME NEW u \in Users,
             Request(u) \/ Evict(u) \/ StartNew(u) \/ Evicted(u) \/ NotStarted(u)
               \/ CancelWait(u) \/ CancelEvict(u)
      PROVE  Leases'
  <2>1. UNCHANGED <<lease, busy>>
    BY <1>6 DEF Request, Evict, StartNew, Evicted, NotStarted, CancelWait, CancelEvict, poolVars
  <2>2. \A v \in Users : pc'[v] = "use" <=> pc[v] = "use"
    BY <1>6, <1>t DEF Request, Evict, StartNew, Evicted, NotStarted, CancelWait, CancelEvict
  <2> QED
    BY <1>5, <2>1, <2>2
<1>7. CASE StopRequest \/ StopBegins \/ StopOne \/ StopEnds \/ UNCHANGED sandboxVars
  <2>1. UNCHANGED <<lease, busy, pc>>
    BY <1>7 DEF StopRequest, StopBegins, StopOne, StopEnds, sandboxVars, reqVars, poolVars
  <2> QED
    BY <1>5, <2>1
<1> QED
  BY <1>2, <1>3, <1>4, <1>6, <1>7 DEF PoolNext, Progress

LEMMA VictimsStep == PoolTypeOK /\ Lock /\ Victims /\ [PoolNext]_sandboxVars => Victims'
<1> SUFFICES ASSUME PoolTypeOK, Lock, Victims, [PoolNext]_sandboxVars PROVE Victims'
  OBVIOUS
<1>t. pc \in [Users -> {"idle", "wait", "evict", "init", "use"}]
  BY DEF PoolTypeOK
\* The holder of the lock changes what it likes if it is not evicting.
<1>1. ASSUME NEW u \in Users, Holds(u), pc'[u] = "evict" => evicting' \in Spare',
             \A v \in Users : v # u => pc'[v] = pc[v]
      PROVE  Victims'
  BY <1>1, Alone DEF Victims, Critical
\* The others keep the evicting and take nothing.
<1>2. ASSUME \A v \in Users : pc'[v] = "evict" => pc[v] = "evict",
             UNCHANGED <<evicting, listed>>, busy' \subseteq busy
      PROVE  Victims'
  BY <1>2 DEF Victims, Spare
<1>3. ASSUME NEW u \in Users,
             Reuse(u) \/ Evict(u) \/ StartNew(u) \/ Evicted(u) \/ Started(u) \/ NotStarted(u)
               \/ CancelEvict(u)
      PROVE  Victims'
  <2>1. Holds(u)
    BY <1>3 DEF Reuse, Evict, StartNew, Evicted, Started, NotStarted, CancelEvict, Lock, Critical
  <2>2. \A v \in Users : v # u => pc'[v] = pc[v]
    BY <1>3, <1>t DEF Reuse, Evict, StartNew, Evicted, Started, NotStarted, CancelEvict
  <2>3. pc'[u] = "evict" => Evict(u)
    BY <1>3, <1>t DEF Reuse, Evict, StartNew, Evicted, Started, NotStarted, CancelEvict
  <2>4. Evict(u) => evicting' \in Spare'
    BY DEF Evict, Spare, poolVars
  <2> QED
    BY <1>1, <2>1, <2>2, <2>3, <2>4
<1>4. ASSUME NEW u \in Users, Request(u) \/ CancelWait(u) \/ Release(u) PROVE Victims'
  <2>1. \A v \in Users : pc'[v] = "evict" => pc[v] = "evict"
    BY <1>4, <1>t DEF Request, CancelWait, Release
  <2>2. UNCHANGED <<evicting, listed>> /\ busy' \subseteq busy
    BY <1>4 DEF Request, CancelWait, Release, poolVars
  <2> QED
    BY <1>2, <2>1, <2>2
<1>5. CASE StopRequest \/ StopBegins \/ StopOne \/ UNCHANGED sandboxVars
  BY <1>2, <1>5 DEF StopRequest, StopBegins, StopOne, sandboxVars, reqVars, poolVars
<1>6. CASE StopEnds
  <2>1. \A v \in Users : ~Critical(v)
    BY <1>6, OneHolder, PoolAssumption DEF StopEnds, Lock, Stopper
  <2> QED
    BY <1>6, <2>1 DEF StopEnds, Victims, Critical, reqVars
<1> QED
  BY <1>3, <1>4, <1>5, <1>6 DEF PoolNext, Progress

-----------------------------------------------------------------------------
(* What runs, and how much.                                                *)

LEMMA RunningStep == PoolTypeOK /\ Lock /\ Victims /\ Working /\ [PoolNext]_sandboxVars => Working'
<1> SUFFICES ASSUME PoolTypeOK, Lock, Victims, Working, [PoolNext]_sandboxVars PROVE Working'
  OBVIOUS
<1> USE DEF Working, NoOrphan
<1>1. ASSUME UNCHANGED <<listed, living, torn, stopPc, toStop>> PROVE Working'
  BY <1>1
<1>2. ASSUME NEW u \in Users, Evicted(u) PROVE Working'
  <2>1. stopPc # "stop"
    BY <1>2, Alone DEF Evicted, Lock, Critical
  <2> QED
    BY <1>2, <2>1 DEF Evicted, stopVars
<1>3. ASSUME NEW u \in Users, Started(u) PROVE Working'
  <2>1. stopPc # "stop"
    BY <1>3, Alone DEF Started, Lock, Critical
  <2> QED
    BY <1>3, <2>1 DEF Started, stopVars
<1>4. ASSUME NEW u \in Users, CancelEvict(u) PROVE Working'
  <2>1. stopPc # "stop"
    BY <1>4, Alone DEF CancelEvict, Lock, Critical
  <2>2. /\ torn' = torn \cup {evicting} /\ UNCHANGED <<listed, stopPc>>
        /\ living' = living \/ living' = living \ {evicting}
    BY <1>4 DEF CancelEvict, stopVars
  <2> QED
    BY <2>1, <2>2
<1>5. ASSUME NEW u \in Users,
             Request(u) \/ Reuse(u) \/ Evict(u) \/ StartNew(u) \/ NotStarted(u) \/ CancelWait(u)
               \/ Release(u)
      PROVE  Working'
  BY <1>1, <1>5 DEF Request, Reuse, Evict, StartNew, NotStarted, CancelWait, Release, poolVars,
                    stopVars
<1>6. CASE StopRequest
  BY <1>6 DEF StopRequest, poolVars
<1>7. CASE StopBegins
  BY <1>7 DEF StopBegins, poolVars
<1>8. CASE StopOne
  BY <1>8 DEF StopOne
<1>9. CASE StopEnds
  BY <1>9 DEF StopEnds
<1>10. CASE UNCHANGED sandboxVars
  BY <1>1, <1>10 DEF sandboxVars, poolVars, stopVars
<1> QED
  BY <1>2, <1>3, <1>4, <1>5, <1>6, <1>7, <1>8, <1>9, <1>10 DEF PoolNext, Progress

LEMMA SizeStep == PoolIInv /\ [PoolNext]_sandboxVars => Spot' /\ Bounded'
<1> SUFFICES ASSUME PoolIInv, [PoolNext]_sandboxVars PROVE Spot' /\ Bounded'
  OBVIOUS
<1>t. /\ pc \in [Users -> {"idle", "wait", "evict", "init", "use"}]
      /\ IsFiniteSet(listed) /\ Cardinality(listed) \in Nat
      /\ Cardinality(Users) \in Nat /\ MaxSize \in Nat
  BY ListedFinite, FS_CardinalityType, PoolAssumption DEF PoolIInv, PoolTypeOK
<1>1. ASSUME UNCHANGED listed, \A v \in Users : pc'[v] = "init" => pc[v] = "init"
      PROVE  Spot' /\ Bounded'
  BY <1>1 DEF PoolIInv, Spot, Bounded
<1>2. ASSUME NEW u \in Users, StartNew(u) PROVE Spot' /\ Bounded'
  <2>1. UNCHANGED listed /\ \A v \in Users : pc'[v] = "init" => pc[v] = "init" \/ v = u
    BY <1>2, <1>t DEF StartNew, poolVars
  <2>2. CASE Full
    <3>1. Spare = {} /\ lease[u] = 0
      BY <1>2, <2>2 DEF StartNew, PoolIInv, Leases
    <3>2. listed \subseteq busy
      BY <3>1 DEF Spare
    <3>3. Cardinality(listed) < Cardinality(Users)
      BY <3>1, <3>2, FewerThanUsers DEF PoolIInv
    <3> QED
      BY <2>1, <3>3 DEF PoolIInv, Spot, Bounded
  <2>3. CASE ~Full
    <3>1. Cardinality(listed) < MaxSize
      BY <2>3, <1>t DEF Full
    <3> QED
      BY <2>1, <3>1 DEF PoolIInv, Spot, Bounded
  <2> QED
    BY <2>2, <2>3
<1>3. ASSUME NEW u \in Users, Evicted(u) PROVE Spot' /\ Bounded'
  <2>1. listed' = listed \ {evicting} /\ evicting \in listed
    BY <1>3 DEF Evicted, PoolIInv, Victims, Spare
  <2>2. Cardinality(listed') = Cardinality(listed) - 1
    BY <2>1, <1>t, FS_RemoveElement
  <2>3. \/ Cardinality(listed') < MaxSize
        \/ Cardinality(listed') < Cardinality(Users)
    BY <2>2, <1>t DEF PoolIInv, Bounded
  <2> QED
    BY <2>3, <2>2, <1>t DEF Spot, Bounded
<1>4. ASSUME NEW u \in Users, Started(u) PROVE Spot' /\ Bounded'
  <2>1. Cardinality(listed') <= Cardinality(listed) + 1
    <3>1. listed' = listed \cup {made + 1}
      BY <1>4 DEF Started
    <3>2. Cardinality(listed \cup {made + 1}) =
            IF made + 1 \in listed THEN Cardinality(listed) ELSE Cardinality(listed) + 1
      BY <1>t, FS_AddElement
    <3> QED
      BY <3>1, <3>2, <1>t
  <2>2. \/ Cardinality(listed) < MaxSize
        \/ Cardinality(listed) < Cardinality(Users)
    BY <1>4 DEF Started, PoolIInv, Spot
  <2>3. Cardinality(listed') \in Nat
    BY <1>4, <1>t, FS_AddElement, FS_CardinalityType DEF Started
  <2>4. Bounded'
    BY <2>1, <2>2, <2>3, <1>t DEF Bounded
  <2>5. \A v \in Users : pc'[v] # "init"
    <3>1. \A v \in Users : v # u => pc[v] # "init"
      BY <1>4, Alone DEF Started, PoolIInv, Lock, Critical
    <3> QED
      BY <1>4, <1>t, <3>1 DEF Started
  <2> QED
    BY <2>4, <2>5 DEF Spot
<1>5. ASSUME NEW u \in Users,
             Request(u) \/ Reuse(u) \/ Evict(u) \/ NotStarted(u) \/ CancelWait(u)
               \/ CancelEvict(u) \/ Release(u)
      PROVE  Spot' /\ Bounded'
  <2>1. UNCHANGED listed
    BY <1>5 DEF Request, Reuse, Evict, NotStarted, CancelWait, CancelEvict, Release, poolVars
  <2>2. \A v \in Users : pc'[v] = "init" => pc[v] = "init"
    BY <1>5, <1>t DEF Request, Reuse, Evict, NotStarted, CancelWait, CancelEvict, Release
  <2> QED
    BY <1>1, <2>1, <2>2
<1>6. CASE StopRequest \/ StopBegins \/ StopOne \/ UNCHANGED sandboxVars
  BY <1>1, <1>6 DEF StopRequest, StopBegins, StopOne, sandboxVars, reqVars, poolVars
<1>7. CASE StopEnds
  <2>1. \A v \in Users : ~Critical(v)
    BY <1>7, OneHolder, PoolAssumption DEF StopEnds, PoolIInv, Lock, Stopper
  <2>2. Cardinality(listed') = 0
    BY <1>7, FS_EmptySet DEF StopEnds
  <2> QED
    BY <1>7, <1>t, <2>1, <2>2 DEF StopEnds, Spot, Bounded, Critical, reqVars
<1> QED
  BY <1>2, <1>3, <1>4, <1>5, <1>6, <1>7 DEF PoolNext, Progress

-----------------------------------------------------------------------------
(* The inductive invariant, and what it gives.                             *)

LEMMA IInvInit == PoolInit => PoolIInv
<1> SUFFICES ASSUME PoolInit PROVE PoolIInv
  OBVIOUS
<1>1. Cardinality(listed) = 0
  BY FS_EmptySet DEF PoolInit
<1> QED
  BY <1>1, TypedInit, PoolAssumption
  DEF PoolInit, PoolIInv, Lock, Critical, Leases, ExclusiveLease, Victims, Spot, Bounded, Working,
      NoOrphan

LEMMA PoolInductive == PoolIInv /\ [PoolNext]_sandboxVars => PoolIInv'
  BY TypedStep, LockStep, LeasesStep, VictimsStep, RunningStep, SizeStep DEF PoolIInv

LEMMA Invariant == PoolSpec => []PoolIInv
  BY IInvInit, PoolInductive, PTL DEF PoolSpec

\* Type correctness of the pool.
THEOREM PoolTyping == PoolSpec => []PoolTypeOK
  BY Invariant, PTL DEF PoolIInv

\* No sandbox instance is ever leased to two requests (pool.py:51-92).
THEOREM LeaseSafety == PoolSpec => []ExclusiveLease
<1>1. PoolIInv => ExclusiveLease
  BY DEF PoolIInv, Leases
<1> QED
  BY <1>1, Invariant, PTL

\* The pool never holds more than its maximum or one instance per request
\* (pool.py:59-60, 94-109).
THEOREM PoolBound == PoolSpec => []Bounded
  BY Invariant, PTL DEF PoolIInv

\* No running provider is lost to stop_all (pool.py:86, 111-132).
THEOREM NothingOrphaned == PoolSpec => []NoOrphan
  BY Invariant, PTL DEF PoolIInv, Working

\* A lease is of a running provider, unless its eviction was cancelled
\* (pool.py:54-58, 111-119).
THEOREM LeasesRun == PoolSpec => HandedOutAlive
<1> DEFINE Step == \A u \in Users :
                     lease[u] = 0 /\ lease'[u] # 0 => lease'[u] \in living' \cup torn'
<1>1. ASSUME PoolIInv, [PoolNext]_sandboxVars PROVE [Step]_sandboxVars
  <2>t. lease \in [Users -> 1 .. made \cup {0}]
    BY <1>1 DEF PoolIInv, PoolTypeOK, Ids
  <2>1. ASSUME NEW u \in Users, Reuse(u) PROVE Step
    <3>1. stopPc # "stop"
      BY <1>1, <2>1, Alone DEF Reuse, PoolIInv
    <3>2. PICK i \in Fit(u) : lease' = [lease EXCEPT ![u] = i]
      BY <2>1 DEF Reuse
    <3>3. i \in living \cup torn
      BY <1>1, <3>1, <3>2 DEF Fit, Spare, PoolIInv, Working
    <3>4. UNCHANGED <<living, torn>>
      BY <2>1 DEF Reuse
    <3> QED
      BY <2>t, <3>2, <3>3, <3>4
  <2>2. ASSUME NEW u \in Users, Started(u) PROVE Step
    BY <2>t, <2>2 DEF Started
  <2>3. ASSUME \A u \in Users : lease'[u] # 0 => lease'[u] = lease[u] PROVE Step
    BY <2>3
  <2>4. ASSUME NEW u \in Users, Release(u) PROVE Step
    BY <2>t, <2>3, <2>4 DEF Release
  <2>5. ASSUME NEW u \in Users,
               Request(u) \/ Evict(u) \/ StartNew(u) \/ Evicted(u) \/ NotStarted(u)
                 \/ CancelWait(u) \/ CancelEvict(u)
        PROVE  Step
    BY <2>3, <2>5 DEF Request, Evict, StartNew, Evicted, NotStarted, CancelWait, CancelEvict
  <2>6. CASE StopRequest \/ StopBegins \/ StopOne \/ StopEnds \/ UNCHANGED sandboxVars
    BY <2>3, <2>6 DEF StopRequest, StopBegins, StopOne, StopEnds, sandboxVars, reqVars
  <2> QED
    BY <1>1, <2>1, <2>2, <2>4, <2>5, <2>6 DEF PoolNext, Progress
<1>2. HandedOutAlive <=> [][Step]_sandboxVars
  BY DEF HandedOutAlive
<1> QED
  BY <1>1, <1>2, Invariant, PTL DEF PoolSpec

-----------------------------------------------------------------------------
(* Preview.                                                                *)

\* An instance that was not created yet.
Fresh == \A i \in Instances : i > count =>
            /\ startup[i] = "none" /\ cleaning[i] = {} /\ ends[i] = 0
            /\ i \notin alive /\ i \notin health

\* A startup under way belongs to an instance that nobody has cleaned up.
Startups == \A i \in Instances : startup[i] # "none" =>
               /\ status[i] = "starting" /\ cleaning[i] = {} /\ ends[i] = 0
               /\ i \in alive => startup[i] = "ready"

\* A running process that nobody is stopping is one of an active instance.
Living == \A i \in alive : /\ ends[i] = 0
                           /\ cleaning[i] = {} => status[i] \in Active

\* A task is registered with its last instance, which was not cleaned up.
Registered == \A t \in Tasks : reg[t] # 0 =>
                 /\ task[reg[t]] = t /\ ends[reg[t]] = 0
                 /\ \A j \in Instances : j > reg[t] /\ j <= count => task[j] # t

\* What OrphanOnlyByRestart says, of startups too.
Orphans == \A i \in Instances :
              (i \in alive \/ startup[i] # "none") /\ reg[task[i]] # i /\ cleaning[i] = {} =>
                 \E j \in 1 .. i - 1 : task[j] = task[i] /\ ends[j] > 0

\* A start that holds the lock has or awaits room for its instance.
Space == /\ \A i \in Instances : "evict" \in cleaning[i] => victim = i
         /\ lock # None => lock \notin Running
         /\ lock # None /\ victim = 0 => Room
         /\ victim # 0 => /\ lock # None
                          /\ Cardinality(Running \ {task[victim]}) < MaxPreviews

\* Until an instance is cleaned up twice, one not cleaned up has a port of its own.
OwnPorts == (\A i \in Instances : ends[i] < 2) =>
               \A i \in 1 .. count : ends[i] = 0 =>
                  /\ port[i] \in used
                  /\ \A j \in 1 .. count : j # i /\ ends[j] = 0 => port[j] # port[i]

Created == \A i \in 1 .. count : task[i] \in Tasks

\* The bound is checked when the lock is taken.
Budget == lock # None => count < MaxInstances

IInv == /\ TypeOK /\ Created /\ Fresh /\ Startups /\ Living /\ Registered /\ Orphans
        /\ Space /\ AtMostMax /\ OwnPorts /\ Budget

-----------------------------------------------------------------------------
(* What every step but Create does, where F are the instances whose        *)
(* cleanup comes to its end.                                               *)

Finishes(F) ==
    /\ F \subseteq 1 .. count
    /\ used' = used \ {port[i] : i \in F}
    /\ reg' = [t \in Tasks |-> IF \E i \in F : task[i] = t THEN 0 ELSE reg[t]]
    /\ ends' = [i \in Instances |-> IF i \in F /\ ends[i] < 2 THEN ends[i] + 1 ELSE ends[i]]

Tidy(F) ==
    /\ UNCHANGED instVars
    /\ Finishes(F)
    /\ \A i \in F : i \notin alive' /\ startup'[i] = "none"
    /\ \A i \in alive' : i \in alive \/ (i \in Instances /\ startup[i] = "install")
    /\ \A i \in Instances : startup'[i] # "none" =>
          /\ startup[i] # "none" /\ status'[i] = "starting" /\ cleaning'[i] = {}
          /\ i \in alive' => startup'[i] = "ready"
    /\ \A i \in alive' : cleaning'[i] = {} => status'[i] \in Active /\ cleaning[i] = {}
    /\ \A i \in Instances : status'[i] \in Active => status[i] \in Active
    /\ \A i \in Instances : i > count => cleaning'[i] = {} /\ i \notin health'

LEMMA Ranges ==
    ASSUME TypeOK
    PROVE  /\ count \in Nat /\ MaxInstances \in Nat /\ 1 .. count \subseteq Instances
           /\ \A i \in Instances : i \in Nat /\ i # 0 /\ (i > count <=> i \notin 1 .. count)
           /\ \A t \in Tasks : reg[t] # 0 => reg[t] \in 1 .. count
  BY PreviewAssumption DEF TypeOK, Instances

\* A cleanup's own end.
LEMMA FinishOne ==
    ASSUME TypeOK, NEW i \in 1 .. count, Finish(i)
    PROVE  Finishes({i})
<1>1. reg' = [t \in Tasks |-> IF \E j \in {i} : task[j] = t THEN 0 ELSE reg[t]]
  BY DEF TypeOK, Finish
<1>2. ends' = [j \in Instances |-> IF j \in {i} /\ ends[j] < 2 THEN ends[j] + 1 ELSE ends[j]]
  BY DEF TypeOK, Finish
<1>3. used' = used \ {port[j] : j \in {i}}
  BY DEF Finish
<1> QED
  BY <1>1, <1>2, <1>3 DEF Finishes

LEMMA FinishNone ==
    ASSUME TypeOK, UNCHANGED regVars
    PROVE  Finishes({})
<1>1. reg = [t \in Tasks |-> IF \E j \in {} : task[j] = t THEN 0 ELSE reg[t]]
  BY DEF TypeOK
<1>2. ends = [j \in Instances |-> IF j \in {} /\ ends[j] < 2 THEN ends[j] + 1 ELSE ends[j]]
  BY DEF TypeOK
<1>3. used = used \ {port[j] : j \in {}}
  OBVIOUS
<1> QED
  BY <1>1, <1>2, <1>3 DEF Finishes, regVars

\* A cleanup up to its await, or to its end.
LEMMA CleanupTidy ==
    ASSUME IInv, NEW i \in 1 .. count, NEW k, NEW st,
           UNCHANGED <<instVars, alive>>, health' \subseteq health,
           startup' = [startup EXCEPT ![i] = "none"],
           status' = [status EXCEPT ![i] = st], st \in Active => st = status[i],
           IF i \in alive
           THEN cleaning' = [cleaning EXCEPT ![i] = @ \cup {k}] /\ UNCHANGED regVars
           ELSE Finish(i) /\ UNCHANGED cleaning
    PROVE  \E F \in SUBSET Instances : Tidy(F)
<1>t. /\ startup \in [Instances -> {"none", "install", "ready"}]
      /\ cleaning \in [Instances -> SUBSET Cleaners]
      /\ DOMAIN status = Instances /\ alive \subseteq Instances
      /\ i \in Instances /\ TypeOK
  BY Ranges DEF IInv, TypeOK
<1>1. \A j \in Instances : j > count => cleaning'[j] = {} /\ j \notin health'
  BY <1>t, Ranges DEF IInv, Fresh
<1>2. \A j \in Instances : status'[j] \in Active => status[j] \in Active
  BY <1>t
<1>3. \A j \in Instances : startup'[j] # "none" =>
        /\ startup[j] # "none" /\ status'[j] = "starting" /\ cleaning'[j] = {}
        /\ j \in alive' => startup'[j] = "ready"
  BY <1>t DEF IInv, Startups
<1>4. \A j \in alive' : cleaning'[j] = {} => status'[j] \in Active /\ cleaning[j] = {}
  BY <1>t DEF IInv, Living
<1>5. CASE i \in alive
  <2>1. Finishes({})
    BY <1>5, <1>t, FinishNone
  <2>2. Tidy({})
    BY <1>1, <1>2, <1>3, <1>4, <2>1 DEF Tidy
  <2> QED
    BY <2>2
<1>6. CASE i \notin alive
  <2>1. Finishes({i})
    BY <1>6, <1>t, FinishOne
  <2>2. Tidy({i})
    BY <1>1, <1>2, <1>3, <1>4, <1>6, <1>t, <2>1 DEF Tidy
  <2> QED
    BY <2>2, <1>t
<1> QED
  BY <1>5, <1>6

-----------------------------------------------------------------------------
(* The actions.                                                            *)

LEMMA ActiveInstance ==
    ASSUME IInv, NEW i \in Instances,
           startup[i] # "none" \/ i \in alive \/ i \in health \/ cleaning[i] # {}
    PROVE  i \in 1 .. count
  BY Ranges DEF IInv, Fresh

LEMMA StopTidy ==
    ASSUME IInv, NEW i \in 1 .. count, NEW k, StopInternal(i, k),
           UNCHANGED <<instVars, alive>>
    PROVE  \E F \in SUBSET Instances : Tidy(F)
<1>1. health' \subseteq health /\ startup' = [startup EXCEPT ![i] = "none"]
  BY DEF StopInternal, Cleanup, CancelTasks
<1>2. CASE i \in alive
  BY <1>1, <1>2, CleanupTidy DEF StopInternal, Cleanup
<1>3. CASE i \notin alive
  <2>1. "stopped" \notin Active
    BY DEF Active
  <2>2. status' = [status EXCEPT ![i] = "stopped"] /\ Finish(i) /\ UNCHANGED cleaning
    BY <1>3 DEF StopInternal, Cleanup
  <2> QED
    BY <1>1, <1>3, <2>1, <2>2, CleanupTidy
<1> QED
  BY <1>2, <1>3

LEMMA FailTidy ==
    ASSUME IInv, NEW i \in Instances, InstallFails(i) \/ NeverReady(i)
    PROVE  \E F \in SUBSET Instances : Tidy(F)
<1>1. Cleanup(i, "startup", "error") /\ UNCHANGED <<instVars, alive>> /\ startup[i] # "none"
  BY DEF InstallFails, NeverReady
<1>2. i \in 1 .. count
  BY <1>1, ActiveInstance
<1>3. "error" \notin Active
  BY DEF Active
<1> QED
  BY <1>1, <1>2, <1>3, CleanupTidy DEF Cleanup, CancelTasks

LEMMA StopActions ==
    ASSUME IInv, NEW t \in Tasks, Idle(t) \/ Stop(t)
    PROVE  \E F \in SUBSET Instances : Tidy(F)
<1>1. reg[t] \in 1 .. count
  BY Ranges DEF IInv, Idle, Stop
<1> QED
  BY <1>1, StopTidy DEF Idle, Stop

\* A step that ends no cleanup and touches nothing that Tidy speaks of.
LEMMA QuietTidy ==
    ASSUME IInv, UNCHANGED <<instVars, runVars, cleaning, regVars>>
    PROVE  \E F \in SUBSET Instances : Tidy(F)
<1>1. Finishes({})
  BY FinishNone DEF IInv
<1>2. Tidy({})
  BY <1>1 DEF Tidy, runVars, IInv, TypeOK, Fresh, Startups, Living
<1> QED
  BY <1>2

LEMMA StartTidy ==
    ASSUME IInv, NEW t \in Tasks, Start(t)
    PROVE  \E F \in SUBSET Instances : Tidy(F)
<1>1. CASE UNCHANGED <<runVars, cleaning, regVars>>
  BY <1>1, QuietTidy DEF Start
<1>2. CASE /\ UNCHANGED alive
           /\ \E v \in Running : StopInternal(reg[v], "evict")
  <2>1. PICK v \in Running : StopInternal(reg[v], "evict")
    BY <1>2
  <2>2. reg[v] \in 1 .. count
    BY Ranges DEF IInv, Running
  <2> QED
    BY <1>2, <2>1, <2>2, StopTidy DEF Start
<1> QED
  BY <1>1, <1>2 DEF Start

LEMMA CleanupEndsTidy ==
    ASSUME IInv, NEW i \in Instances, NEW k, CleanupEnds(i, k)
    PROVE  \E F \in SUBSET Instances : Tidy(F)
<1>1. i \in 1 .. count /\ cleaning[i] # {}
  BY ActiveInstance DEF CleanupEnds
<1>2. Finishes({i})
  BY <1>1, FinishOne DEF CleanupEnds, IInv
<1>3. /\ alive' = alive \ {i} /\ UNCHANGED <<instVars, startup, health>>
      /\ cleaning' = [cleaning EXCEPT ![i] = @ \ {k}]
      /\ status' = status \/ status' = [status EXCEPT ![i] = "stopped"]
  BY DEF CleanupEnds, Terminate
<1>4. startup[i] = "none"
  BY <1>1 DEF IInv, Startups
<1>t. /\ cleaning \in [Instances -> SUBSET Cleaners]
      /\ DOMAIN status = Instances /\ "stopped" \notin Active
  BY DEF IInv, TypeOK, Active
<1>5. \A j \in Instances : startup'[j] # "none" =>
        /\ startup[j] # "none" /\ status'[j] = "starting" /\ cleaning'[j] = {}
        /\ j \in alive' => startup'[j] = "ready"
  BY <1>3, <1>4, <1>t DEF IInv, Startups
<1>6. \A j \in alive' : cleaning'[j] = {} => status'[j] \in Active /\ cleaning[j] = {}
  BY <1>3, <1>t DEF IInv, Living, TypeOK
<1>7. \A j \in Instances : status'[j] \in Active => status[j] \in Active
  BY <1>3, <1>t
<1>8. \A j \in Instances : j > count => cleaning'[j] = {} /\ j \notin health'
  BY <1>3, <1>t, <1>1, Ranges DEF IInv, Fresh
<1>9. Tidy({i})
  BY <1>2, <1>3, <1>4, <1>5, <1>6, <1>7, <1>8 DEF Tidy
<1> QED
  BY <1>9

LEMMA SpawnTidy ==
    ASSUME IInv, NEW i \in Instances, Spawn(i)
    PROVE  \E F \in SUBSET Instances : Tidy(F)
<1>1. Finishes({})
  BY FinishNone DEF IInv, Spawn
<1>2. /\ startup[i] = "install" /\ status[i] = "starting" /\ cleaning[i] = {}
      /\ alive' = alive \cup {i} /\ startup' = [startup EXCEPT ![i] = "ready"]
      /\ UNCHANGED <<instVars, status, health, cleaning>>
  BY DEF Spawn, IInv, Startups
<1>t. DOMAIN startup = Instances /\ "starting" \in Active
  BY DEF IInv, TypeOK, Active
<1>3. \A j \in Instances : startup'[j] # "none" =>
        /\ startup[j] # "none" /\ status'[j] = "starting" /\ cleaning'[j] = {}
        /\ j \in alive' => startup'[j] = "ready"
  BY <1>2, <1>t DEF IInv, Startups
<1>4. \A j \in alive' : cleaning'[j] = {} => status'[j] \in Active /\ cleaning[j] = {}
  BY <1>2, <1>t DEF IInv, Living
<1>5. Tidy({})
  BY <1>1, <1>2, <1>3, <1>4 DEF Tidy, IInv, Fresh
<1> QED
  BY <1>5

LEMMA ReadyTidy ==
    ASSUME IInv, NEW i \in Instances, Ready(i)
    PROVE  \E F \in SUBSET Instances : Tidy(F)
<1>1. Finishes({})
  BY FinishNone DEF IInv, Ready
<1>2. /\ startup[i] = "ready" /\ status[i] = "starting" /\ cleaning[i] = {}
      /\ startup' = [startup EXCEPT ![i] = "none"]
      /\ status' = [status EXCEPT ![i] = "running"] \/ status' = status
      /\ health' \subseteq health \cup {i}
      /\ UNCHANGED <<instVars, alive, cleaning>>
  BY DEF Ready, IInv, Startups
<1>t. /\ DOMAIN startup = Instances /\ DOMAIN status = Instances
      /\ "starting" \in Active /\ "running" \in Active /\ i \in 1 .. count
  BY <1>2, ActiveInstance DEF IInv, TypeOK, Active
<1>3. \A j \in Instances : startup'[j] # "none" =>
        /\ startup[j] # "none" /\ status'[j] = "starting" /\ cleaning'[j] = {}
        /\ j \in alive' => startup'[j] = "ready"
  BY <1>2, <1>t DEF IInv, Startups
<1>4. \A j \in alive' : cleaning'[j] = {} => status'[j] \in Active /\ cleaning[j] = {}
  BY <1>2, <1>t DEF IInv, Living, TypeOK
<1>5. \A j \in Instances : status'[j] \in Active => status[j] \in Active
  BY <1>2, <1>t
<1>6. \A j \in Instances : j > count => cleaning'[j] = {} /\ j \notin health'
  BY <1>2, <1>t, Ranges DEF IInv, Fresh
<1>7. Tidy({})
  BY <1>1, <1>2, <1>3, <1>4, <1>5, <1>6 DEF Tidy
<1> QED
  BY <1>7

LEMMA ExitTidy ==
    ASSUME IInv, NEW i \in Instances, Exit(i)
    PROVE  \E F \in SUBSET Instances : Tidy(F)
<1>t. /\ DOMAIN startup = Instances /\ DOMAIN status = Instances
      /\ "stopped" \notin Active /\ i \in 1 .. count
      /\ alive' = alive \ {i} /\ UNCHANGED <<instVars, cleaning>>
  BY ActiveInstance DEF IInv, TypeOK, Active, Exit
<1>1. CASE UNCHANGED <<status, startup, health, regVars>>
  <2>1. Finishes({})
    BY <1>1, FinishNone DEF IInv
  <2>2. Tidy({})
    BY <1>t, <1>1, <2>1 DEF Tidy, IInv, Fresh, Startups, Living
  <2> QED
    BY <2>2
<1>2. CASE /\ CancelTasks(i) /\ Finish(i)
           /\ status' = [status EXCEPT ![i] = "stopped"]
  <2>1. Finishes({i})
    BY <1>t, <1>2, FinishOne DEF IInv
  <2>2. startup' = [startup EXCEPT ![i] = "none"] /\ health' = health \ {i}
    BY <1>2 DEF CancelTasks
  <2>3. \A j \in Instances : startup'[j] # "none" =>
        /\ startup[j] # "none" /\ status'[j] = "starting" /\ cleaning'[j] = {}
        /\ j \in alive' => startup'[j] = "ready"
    BY <1>t, <1>2, <2>2 DEF IInv, Startups
  <2>4. \A j \in alive' : cleaning'[j] = {} => status'[j] \in Active /\ cleaning[j] = {}
    BY <1>t, <1>2, <2>2 DEF IInv, Living, TypeOK
  <2>5. \A j \in Instances : status'[j] \in Active => status[j] \in Active
    BY <1>t, <1>2
  <2>6. \A j \in Instances : j > count => cleaning'[j] = {} /\ j \notin health'
    BY <1>t, <2>2 DEF IInv, Fresh
  <2>7. Tidy({i})
    BY <1>t, <2>1, <2>2, <2>3, <2>4, <2>5, <2>6 DEF Tidy
  <2> QED
    BY <2>7
<1> QED
  BY <1>1, <1>2 DEF Exit

LEMMA HealthTidy ==
    ASSUME IInv, NEW i \in Instances, HealthFails(i)
    PROVE  \E F \in SUBSET Instances : Tidy(F)
<1> DEFINE j == reg[task[i]]
<1>1. CASE /\ health' = health \ {i}
           /\ UNCHANGED <<status, startup, cleaning, regVars>>
  <2>1. Finishes({})
    BY <1>1, FinishNone DEF IInv
  <2>2. Tidy({})
    BY <1>1, <2>1 DEF HealthFails, Tidy, IInv, Fresh, Startups, Living
  <2> QED
    BY <2>2
<1>2. CASE /\ j # 0
           /\ startup' = [startup EXCEPT ![j] = "none"]
           /\ health' = health \ {i, j}
           /\ IF j \in alive
              THEN cleaning' = [cleaning EXCEPT ![j] = @ \cup {"health"}] /\ UNCHANGED regVars
              ELSE Finish(j) /\ UNCHANGED cleaning
           /\ status' = [status EXCEPT ![j] = "error"]
  <2>1. i \in 1 .. count /\ UNCHANGED <<instVars, alive>>
    BY ActiveInstance DEF HealthFails
  <2>2. j \in 1 .. count
    BY <1>2, <2>1, Ranges DEF IInv, Created
  <2>3. "error" \notin Active
    BY DEF Active
  <2> HIDE DEF j
  <2> QED
    BY <1>2, <2>1, <2>2, <2>3, CleanupTidy
<1> QED
  BY <1>1, <1>2 DEF HealthFails

\* The first step of stop_all, for the instances now, where ends0 have no process.
LEMMA AllBeginsTidy ==
    ASSUME IInv, AllBegins
    PROVE  \E F \in SUBSET Instances : Tidy(F)
<1> DEFINE now   == {reg[t] : t \in Tasks} \ {0}
           ends0 == now \ alive
<1>1. /\ startup' = [i \in Instances |-> IF i \in now THEN "none" ELSE startup[i]]
      /\ health' = health \ now
      /\ cleaning' = [i \in Instances |->
                        IF i \in now \cap alive THEN cleaning[i] \cup {"all"} ELSE cleaning[i]]
      /\ status' = [i \in Instances |-> IF i \in ends0 THEN "stopped" ELSE status[i]]
      /\ ends' = [i \in Instances |-> IF i \in ends0 /\ ends[i] < 2 THEN ends[i] + 1 ELSE ends[i]]
      /\ used' = used \ {port[i] : i \in ends0}
      /\ reg' = [t \in Tasks |-> IF reg[t] \in ends0 THEN 0 ELSE reg[t]]
      /\ UNCHANGED <<instVars, alive>>
  BY DEF AllBegins
<1>2. ends0 \subseteq now /\ now \subseteq 1 .. count /\ ends0 \cap alive = {}
  BY Ranges DEF IInv
<1>3. \A t \in Tasks : reg[t] # 0 => (reg[t] \in ends0 <=> \E i \in ends0 : task[i] = t)
  <2> SUFFICES ASSUME NEW t \in Tasks, reg[t] # 0
               PROVE  reg[t] \in ends0 <=> \E i \in ends0 : task[i] = t
    OBVIOUS
  <2>1. \A i \in ends0 : \E s \in Tasks : reg[s] # 0 /\ i = reg[s]
    OBVIOUS
  <2>2. \A i \in ends0 : reg[task[i]] = i
    BY <2>1 DEF IInv, Registered
  <2>3. task[reg[t]] = t
    BY DEF IInv, Registered
  <2> HIDE DEF ends0
  <2> QED
    BY <2>2, <2>3
<1>4. \A t \in Tasks : (\E i \in ends0 : task[i] = t) => reg[t] # 0
  <2>1. \A i \in ends0 : \E s \in Tasks : reg[s] # 0 /\ i = reg[s]
    OBVIOUS
  <2> QED
    BY <2>1 DEF IInv, Registered
<1>t. "stopped" \notin Active /\ 1 .. count \subseteq Instances
  BY Ranges DEF IInv, Active
<1> HIDE DEF ends0, now
<1>5. reg' = [t \in Tasks |-> IF \E i \in ends0 : task[i] = t THEN 0 ELSE reg[t]]
  <2>1. \A t \in Tasks : (IF reg[t] \in ends0 THEN 0 ELSE reg[t])
                         = (IF \E i \in ends0 : task[i] = t THEN 0 ELSE reg[t])
    <3>1. 0 \notin ends0
      BY <1>2, Ranges DEF IInv
    <3> QED
      BY <1>3, <1>4, <3>1
  <2> QED
    BY <1>1, <2>1, Zenon
<1>6. Finishes(ends0)
  BY <1>1, <1>2, <1>5 DEF Finishes
<1>7. \A j \in Instances : startup'[j] # "none" =>
        /\ startup[j] # "none" /\ status'[j] = "starting" /\ cleaning'[j] = {}
        /\ j \in alive' => startup'[j] = "ready"
  BY <1>1, <1>2 DEF IInv, Startups
<1>8. \A j \in alive' : cleaning'[j] = {} => status'[j] \in Active /\ cleaning[j] = {}
  <2>1. alive \subseteq Instances
    BY DEF IInv, TypeOK
  <2>2. \A j \in alive : cleaning'[j] = {} => cleaning[j] = {} /\ j \notin ends0
    BY <1>1, <1>2, <2>1
  <2> QED
    BY <1>1, <2>1, <2>2 DEF IInv, Living
<1>9. \A j \in Instances : status'[j] \in Active => status[j] \in Active
  BY <1>1, <1>t
<1>10. \A j \in Instances : j > count => cleaning'[j] = {} /\ j \notin health'
  BY <1>1, <1>2, Ranges DEF IInv, Fresh
<1>11. \A i \in ends0 : i \notin alive' /\ startup'[i] = "none"
  BY <1>1, <1>2, <1>t
<1>12. Tidy(ends0)
  BY <1>1, <1>6, <1>7, <1>8, <1>9, <1>10, <1>11 DEF Tidy
<1> QED
  BY <1>12, <1>2, <1>t

\* Every step but the creation of an instance.
LEMMA StepTidy ==
    ASSUME IInv, [Next]_vars, \A t \in Tasks : ~Create(t)
    PROVE  \E F \in SUBSET Instances : Tidy(F)
<1>1. CASE \E i \in Instances, k \in Cleaners : CleanupEnds(i, k)
  BY <1>1, CleanupEndsTidy
<1>2. CASE \E t \in Tasks : Start(t)
  BY <1>2, StartTidy
<1>3. CASE \E t \in Tasks : NoPort(t)
  BY <1>3, QuietTidy DEF NoPort
<1>4. CASE \E t \in Tasks : Stop(t) \/ Idle(t)
  BY <1>4, StopActions
<1>5. CASE \E i \in Instances : InstallFails(i) \/ NeverReady(i)
  BY <1>5, FailTidy
<1>6. CASE \E i \in Instances : Spawn(i) \/ Ready(i)
  BY <1>6, SpawnTidy, ReadyTidy
<1>7. CASE \E i \in Instances : Exit(i) \/ HealthFails(i)
  BY <1>7, ExitTidy, HealthTidy
<1>8. CASE AllBegins
  BY <1>8, AllBeginsTidy
<1>9. CASE AllEnds
  BY <1>9, QuietTidy DEF AllEnds
<1>10. CASE UNCHANGED vars
  BY <1>10, QuietTidy DEF vars
<1> QED
  BY <1>1, <1>2, <1>3, <1>4, <1>5, <1>6, <1>7, <1>8, <1>9, <1>10 DEF Next

-----------------------------------------------------------------------------
(* What such a step preserves.                                             *)

\* A task that stays registered keeps its instance, which does not end.
LEMMA TidyReg ==
    ASSUME IInv, NEW F, Tidy(F), NEW t \in Tasks, reg'[t] # 0
    PROVE  reg'[t] = reg[t] /\ reg[t] \notin F /\ \A i \in F : task[i] # t
<1>1. reg'[t] = reg[t] /\ ~ \E i \in F : task[i] = t
  BY DEF Tidy, Finishes
<1>2. task[reg[t]] = t
  BY <1>1 DEF IInv, Registered
<1> QED
  BY <1>1, <1>2

LEMMA TidyEnds ==
    ASSUME IInv, NEW F, Tidy(F)
    PROVE  /\ \A i \in Instances : ends[i] \in 0 .. 2
           /\ \A i \in Instances \ F : ends'[i] = ends[i]
           /\ \A i \in F : i \in Instances /\ ends'[i] > 0 /\ (ends'[i] < 2 => ends[i] = 0)
           /\ \A i \in Instances : ends[i] > 0 => ends'[i] > 0
           /\ \A i \in Instances : ends'[i] < 2 => ends[i] < 2
<1>1. F \subseteq Instances
  BY Ranges DEF IInv, Tidy, Finishes
<1>2. \A i \in Instances : ends[i] \in 0 .. 2
  BY DEF IInv, TypeOK
<1> QED
  BY <1>1, <1>2 DEF Tidy, Finishes

LEMMA TidyLife ==
    ASSUME IInv, NEW F, Tidy(F)
    PROVE  Fresh' /\ Startups' /\ Living' /\ Created'
<1>0. F \subseteq 1 .. count /\ UNCHANGED instVars
  BY DEF Tidy, Finishes
<1>1. Fresh'
  <2> SUFFICES ASSUME NEW i \in Instances, i > count
               PROVE  /\ startup'[i] = "none" /\ cleaning'[i] = {} /\ ends'[i] = 0
                      /\ i \notin alive' /\ i \notin health'
    BY <1>0 DEF Fresh, instVars
  <2>1. i \notin F
    BY <1>0, Ranges DEF IInv
  <2> QED
    BY <2>1, TidyEnds DEF Tidy, IInv, Fresh
<1>2. Startups'
  <2> SUFFICES ASSUME NEW i \in Instances, startup'[i] # "none"
               PROVE  /\ status'[i] = "starting" /\ cleaning'[i] = {} /\ ends'[i] = 0
                      /\ i \in alive' => startup'[i] = "ready"
    BY DEF Startups
  <2>1. i \notin F /\ startup[i] # "none"
    BY DEF Tidy
  <2> QED
    BY <2>1, TidyEnds DEF Tidy, IInv, Startups
<1>3. Living'
  <2> SUFFICES ASSUME NEW i \in alive'
               PROVE  ends'[i] = 0 /\ (cleaning'[i] = {} => status'[i] \in Active)
    BY DEF Living
  <2>0. i \in alive \/ startup[i] = "install"
    BY DEF Tidy
  <2>1. i \in Instances
    BY DEF IInv, TypeOK, Tidy
  <2>2. i \notin F /\ ends[i] = 0
    BY <2>0, <2>1 DEF Tidy, IInv, Living, Startups
  <2> QED
    BY <2>1, <2>2, TidyEnds DEF Tidy
<1>4. Created'
  BY <1>0 DEF IInv, Created, instVars
<1> QED
  BY <1>1, <1>2, <1>3, <1>4

LEMMA TidyRegistered ==
    ASSUME IInv, NEW F, Tidy(F)
    PROVE  Registered'
<1>1. SUFFICES ASSUME NEW t \in Tasks, reg'[t] # 0
               PROVE  /\ task'[reg'[t]] = t /\ ends'[reg'[t]] = 0
                      /\ \A j \in Instances : j > reg'[t] /\ j <= count' => task'[j] # t
  BY DEF Registered
<1>2. reg'[t] = reg[t] /\ reg[t] \notin F /\ task' = task /\ count' = count
  BY <1>1, TidyReg DEF Tidy, instVars
<1>3. reg[t] \in Instances
  BY <1>1, <1>2, Ranges DEF IInv
<1> QED
  BY <1>1, <1>2, <1>3, TidyEnds DEF IInv, Registered

LEMMA TidyOrphans ==
    ASSUME IInv, NEW F, Tidy(F)
    PROVE  Orphans'
<1>0. task' = task /\ count' = count
  BY DEF Tidy, instVars
<1>1. SUFFICES ASSUME NEW i \in Instances, i \in alive' \/ startup'[i] # "none",
                      reg'[task[i]] # i, cleaning'[i] = {}
               PROVE  \E j \in 1 .. i - 1 : task[j] = task[i] /\ ends'[j] > 0
  BY <1>0 DEF Orphans
<1>2. /\ i \notin F
      /\ i \in alive \/ startup[i] # "none"
  BY <1>1 DEF Tidy
<1>3. cleaning[i] = {} /\ i \in 1 .. count
  BY <1>1, <1>2, ActiveInstance DEF Tidy, IInv, Startups
<1>r. \A j \in 1 .. i - 1 : j \in Instances
  BY <1>3, Ranges DEF Instances, IInv
<1>4. CASE reg[task[i]] # i
  <2>1. PICK j \in 1 .. i - 1 : task[j] = task[i] /\ ends[j] > 0
    BY <1>2, <1>3, <1>4 DEF IInv, Orphans
  <2> QED
    BY <2>1, <1>r, TidyEnds
<1>5. CASE reg[task[i]] = i
  <2>1. task[i] \in Tasks
    BY <1>3 DEF IInv, Created
  <2>2. PICK f \in F : task[f] = task[i]
    BY <1>1, <1>5, <2>1 DEF Tidy, Finishes
  <2>3. f \in 1 .. count /\ f \in Instances /\ f # i
    BY <1>2, <2>2, Ranges DEF Tidy, Finishes, IInv
  <2>4. ~(f > i)
    BY <1>3, <1>5, <2>1, <2>2, <2>3, Ranges DEF IInv, Registered
  <2>5. f \in 1 .. i - 1
    BY <1>3, <2>3, <2>4, Ranges DEF IInv
  <2> QED
    BY <2>2, <2>5, TidyEnds
<1> QED
  BY <1>4, <1>5

LEMMA TidyPorts ==
    ASSUME IInv, NEW F, Tidy(F)
    PROVE  OwnPorts'
<1>0. port' = port /\ count' = count
  BY DEF Tidy, instVars
<1>1. SUFFICES ASSUME \A i \in Instances : ends'[i] < 2
               PROVE  \A i \in 1 .. count : ends'[i] = 0 =>
                        /\ port[i] \in used'
                        /\ \A j \in 1 .. count : j # i /\ ends'[j] = 0 => port[j] # port[i]
  BY <1>0 DEF OwnPorts
<1>2. 1 .. count \subseteq Instances /\ F \subseteq 1 .. count
  BY Ranges DEF IInv, Tidy, Finishes
<1>3. \A f \in F : ends[f] = 0
  BY <1>1, TidyEnds
<1>4. \A i \in 1 .. count : ends[i] = 0 =>
        /\ port[i] \in used
        /\ \A j \in 1 .. count : j # i /\ ends[j] = 0 => port[j] # port[i]
  BY <1>1, TidyEnds DEF IInv, OwnPorts
<1>5. \A i \in 1 .. count : ends'[i] = 0 => ends[i] = 0 /\ i \notin F
  BY <1>2, TidyEnds
<1>6. used' = used \ {port[f] : f \in F}
  BY DEF Tidy, Finishes
<1> QED
  BY <1>2, <1>3, <1>4, <1>5, <1>6

LEMMA TidyRunning ==
    ASSUME IInv, NEW F, Tidy(F)
    PROVE  /\ Running' \subseteq Running /\ IsFiniteSet(Running)
           /\ Cardinality(Running') <= Cardinality(Running)
           /\ Cardinality(Running) \in Nat /\ Cardinality(Running') \in Nat
<1>1. Running' \subseteq Running
  <2> SUFFICES ASSUME NEW t \in Tasks, reg'[t] # 0, status'[reg'[t]] \in Active
               PROVE  reg[t] # 0 /\ status[reg[t]] \in Active
    BY DEF Running
  <2>1. reg'[t] = reg[t] /\ reg[t] \in Instances
    BY TidyReg, Ranges DEF IInv
  <2> QED
    BY <2>1 DEF Tidy
<1>2. IsFiniteSet(Running)
  BY FS_Subset, PreviewAssumption DEF Running
<1> QED
  BY <1>1, <1>2, FS_Subset, FS_CardinalityType

\* One fewer than the limit without a running preview v.
LEMMA OneFewer ==
    ASSUME IInv, NEW v \in Running, NEW S, S \subseteq Running \ {v}
    PROVE  Cardinality(S) < MaxPreviews
<1>1. IsFiniteSet(Running)
  BY FS_Subset, PreviewAssumption DEF Running
<1>2. Cardinality(Running \ {v}) = Cardinality(Running) - 1
  BY <1>1, FS_RemoveElement
<1>3. IsFiniteSet(Running \ {v})
  BY <1>1, FS_RemoveElement
<1>4. Cardinality(S) <= Cardinality(Running \ {v})
  BY <1>3, FS_Subset
<1>5. /\ Cardinality(Running) \in Nat /\ MaxPreviews \in Nat
      /\ Cardinality(Running) <= MaxPreviews /\ Cardinality(S) \in Nat
  BY <1>1, <1>3, FS_Subset, FS_CardinalityType, PreviewAssumption DEF IInv, AtMostMax
<1> QED
  BY <1>2, <1>4, <1>5

\* A smaller set is smaller than the limit if the larger one is.
LEMMA Smaller ==
    ASSUME NEW R, R \subseteq Tasks, NEW S, S \subseteq R, Cardinality(R) < MaxPreviews
    PROVE  Cardinality(S) < MaxPreviews
<1>1. IsFiniteSet(R)
  BY FS_Subset, PreviewAssumption
<1>2. Cardinality(S) <= Cardinality(R) /\ IsFiniteSet(S)
  BY <1>1, FS_Subset
<1>3. Cardinality(S) \in Nat /\ Cardinality(R) \in Nat /\ MaxPreviews \in Nat
  BY <1>1, <1>2, FS_CardinalityType, PreviewAssumption
<1> QED
  BY <1>2, <1>3

LEMMA SpaceKept ==
    ASSUME IInv, NEW F, Tidy(F), UNCHANGED lockVars,
           \A i \in Instances : "evict" \in cleaning'[i] => "evict" \in cleaning[i]
    PROVE  Space'
<1>1. Running' \subseteq Running /\ Running \subseteq Tasks
  BY TidyRunning DEF Running
<1>2. lock' = lock /\ victim' = victim /\ task' = task
  BY DEF lockVars, Tidy, instVars
<1>3. \A i \in Instances : "evict" \in cleaning'[i] => victim' = i
  BY <1>2 DEF IInv, Space
<1>4. lock' # None => lock' \notin Running'
  BY <1>1, <1>2 DEF IInv, Space
<1>5. lock' # None /\ victim' = 0 => Cardinality(Running') < MaxPreviews
  BY <1>1, <1>2, Smaller DEF IInv, Space, Room
<1>6. victim' # 0 => /\ lock' # None
                     /\ Cardinality(Running' \ {task'[victim']}) < MaxPreviews
  <2>1. Running' \ {task[victim]} \subseteq Running \ {task[victim]}
    BY <1>1
  <2>2. Running \ {task[victim]} \subseteq Tasks
    BY <1>1
  <2> QED
    BY <1>2, <2>1, <2>2, Smaller DEF IInv, Space
<1> QED
  BY <1>3, <1>4, <1>5, <1>6 DEF Space, Room

LEMMA SpaceStart ==
    ASSUME IInv, NEW F, Tidy(F), NEW t \in Tasks, Start(t)
    PROVE  Space'
<1>1. Running' \subseteq Running /\ Running \subseteq Tasks /\ task' = task
  BY TidyRunning DEF Running, Tidy, instVars
<1>2. /\ lock = None /\ t \notin Running /\ lock' = t /\ lock' # None
      /\ victim = 0 /\ \A i \in Instances : "evict" \notin cleaning[i]
  <2>1. lock = None /\ t \notin Running /\ lock' = t /\ t # None
    BY PreviewAssumption DEF Start
  <2>2. victim = 0
    BY <2>1 DEF IInv, Space
  <2>3. \A i \in Instances : "evict" \notin cleaning[i]
    BY <2>2, Ranges DEF IInv, Space
  <2> QED
    BY <2>1, <2>2, <2>3
<1>3. CASE Room /\ UNCHANGED <<runVars, cleaning, regVars, victim>>
  <2>1. Cardinality(Running') < MaxPreviews
    BY <1>1, <1>3, Smaller DEF Room
  <2> QED
    BY <1>1, <1>2, <1>3, <2>1 DEF Space, Room
<1>4. CASE \E v \in Running : /\ StopInternal(reg[v], "evict")
                              /\ victim' = IF reg[v] \in alive THEN reg[v] ELSE 0
  <2>1. PICK v \in Running : /\ StopInternal(reg[v], "evict")
                             /\ victim' = IF reg[v] \in alive THEN reg[v] ELSE 0
    BY <1>4
  <2>2. /\ v \in Tasks /\ reg[v] # 0 /\ reg[v] \in Instances /\ task[reg[v]] = v
        /\ cleaning \in [Instances -> SUBSET Cleaners]
    BY Ranges DEF Running, IInv, Registered, TypeOK
  <2>3. CASE reg[v] \in alive
    <3>1. /\ victim' = reg[v] /\ cleaning' = [cleaning EXCEPT ![reg[v]] = @ \cup {"evict"}]
      BY <2>1, <2>3 DEF StopInternal, Cleanup
    <3>2. \A i \in Instances : "evict" \in cleaning'[i] => victim' = i
      BY <1>2, <2>2, <3>1
    <3>3. Cardinality(Running' \ {task'[victim']}) < MaxPreviews
      <4>1. Running' \ {v} \subseteq Running \ {v}
        BY <1>1
      <4> QED
        BY <4>1, <1>1, <2>2, <3>1, OneFewer
    <3> QED
      BY <1>1, <1>2, <2>2, <3>1, <3>2, <3>3 DEF Space
  <2>4. CASE reg[v] \notin alive
    <3>1. victim' = 0 /\ cleaning' = cleaning /\ Finish(reg[v])
      BY <2>1, <2>4 DEF StopInternal, Cleanup
    <3>2. reg'[v] = 0
      BY <2>2, <3>1 DEF Finish, IInv, TypeOK
    <3>3. Running' \subseteq Running \ {v}
      BY <1>1, <3>2 DEF Running
    <3>4. Cardinality(Running') < MaxPreviews
      BY <3>3, OneFewer
    <3> QED
      BY <1>1, <1>2, <3>1, <3>4 DEF Space, Room
  <2> QED
    BY <2>3, <2>4
<1> QED
  BY <1>3, <1>4 DEF Start

LEMMA SpaceEvicted ==
    ASSUME IInv, NEW F, Tidy(F), NEW i \in Instances, NEW k, CleanupEnds(i, k)
    PROVE  Space'
<1>t. /\ cleaning \in [Instances -> SUBSET Cleaners] /\ reg \in [Tasks -> 0 .. count]
      /\ cleaning' = [cleaning EXCEPT ![i] = @ \ {k}] /\ lock' = lock /\ task' = task
      /\ k \in cleaning[i]
  BY DEF IInv, TypeOK, CleanupEnds, instVars
<1>1. CASE k # "evict"
  <2>1. UNCHANGED lockVars
    BY <1>1 DEF CleanupEnds, lockVars
  <2> QED
    BY <1>t, <2>1, SpaceKept
<1>2. CASE k = "evict"
  <2>1. victim = i /\ victim' = 0 /\ i # 0
    BY <1>2, <1>t, Ranges DEF CleanupEnds, IInv, Space
  <2>2. \A j \in Instances : "evict" \notin cleaning'[j]
    BY <1>2, <1>t, <2>1 DEF IInv, Space
  <2>3. task[i] \in Tasks /\ reg'[task[i]] = 0
    <3>1. i \in 1 .. count
      BY <1>t, ActiveInstance
    <3>2. task[i] \in Tasks
      BY <3>1 DEF IInv, Created
    <3> QED
      BY <1>t, <3>2 DEF CleanupEnds, Finish
  <2>4. Running' \subseteq Running \ {task[i]}
    BY <2>3, TidyRunning DEF Running
  <2>5. Cardinality(Running') < MaxPreviews
    <3>1. Running \ {task[i]} \subseteq Tasks
      BY DEF Running
    <3> QED
      BY <2>1, <2>4, <3>1, Smaller DEF IInv, Space
  <2>6. lock' # None => lock' \notin Running'
    BY <1>t, <2>4 DEF IInv, Space
  <2> QED
    BY <2>1, <2>2, <2>5, <2>6 DEF Space, Room
<1> QED
  BY <1>1, <1>2

\* The steps that leave the lock alone and begin no eviction.
LEMMA SpaceOther ==
    ASSUME IInv, NEW F, Tidy(F),
           \/ \E t \in Tasks : Stop(t) \/ Idle(t)
           \/ \E i \in Instances : \/ Spawn(i) \/ InstallFails(i) \/ Ready(i) \/ NeverReady(i)
                                   \/ Exit(i) \/ HealthFails(i)
           \/ AllBegins \/ AllEnds \/ UNCHANGED vars
    PROVE  Space'
<1>t. cleaning \in [Instances -> SUBSET Cleaners]
  BY DEF IInv, TypeOK
<1>1. CASE \E t \in Tasks : Stop(t) \/ Idle(t)
  BY <1>1, <1>t, SpaceKept DEF Stop, Idle, StopInternal, Cleanup
<1>2. CASE \E i \in Instances : InstallFails(i) \/ NeverReady(i)
  BY <1>2, <1>t, SpaceKept DEF InstallFails, NeverReady, Cleanup
<1>3. CASE \E i \in Instances : Spawn(i) \/ Ready(i) \/ Exit(i)
  BY <1>3, SpaceKept DEF Spawn, Ready, Exit
<1>4. CASE \E i \in Instances : HealthFails(i)
  <2>1. PICK i \in Instances : HealthFails(i)
    BY <1>4
  <2>2. UNCHANGED lockVars
    BY <2>1 DEF HealthFails
  <2>3. cleaning' = cleaning \/ \E j : cleaning' = [cleaning EXCEPT ![j] = @ \cup {"health"}]
    BY <2>1 DEF HealthFails
  <2> QED
    BY <1>t, <2>2, <2>3, SpaceKept
<1>5. CASE AllBegins
  BY <1>5, <1>t, SpaceKept DEF AllBegins
<1>6. CASE AllEnds \/ UNCHANGED vars
  BY <1>6, SpaceKept DEF AllEnds, vars
<1> QED
  BY <1>1, <1>2, <1>3, <1>4, <1>5, <1>6

LEMMA SpaceStep ==
    ASSUME IInv, [Next]_vars, \A t \in Tasks : ~Create(t), NEW F, Tidy(F)
    PROVE  Space'
<1>1. CASE \E i \in Instances, k \in Cleaners : CleanupEnds(i, k)
  BY <1>1, SpaceEvicted
<1>2. CASE \E t \in Tasks : Start(t)
  BY <1>2, SpaceStart
<1>3. CASE \E t \in Tasks : NoPort(t)
  <2>1. /\ lock' = None /\ victim' = 0 /\ victim = 0
        /\ cleaning' = cleaning
    BY <1>3 DEF NoPort
  <2> QED
    BY <2>1 DEF Space, IInv
<1>4. CASE \/ \E t \in Tasks : Stop(t) \/ Idle(t)
           \/ \E i \in Instances : \/ Spawn(i) \/ InstallFails(i) \/ Ready(i) \/ NeverReady(i)
                                   \/ Exit(i) \/ HealthFails(i)
           \/ AllBegins \/ AllEnds \/ UNCHANGED vars
  BY <1>4, SpaceOther
<1> QED
  BY <1>1, <1>2, <1>3, <1>4 DEF Next

-----------------------------------------------------------------------------
(* Types.                                                                  *)

LEMMA TypedRest ==
    ASSUME IInv, [Next]_vars, \A t \in Tasks : ~Create(t)
    PROVE  /\ startup' \in [Instances -> {"none", "install", "ready"}]
           /\ health' \subseteq Instances /\ alive' \subseteq Instances
           /\ cleaning' \in [Instances -> SUBSET Cleaners]
           /\ status' \in [Instances -> {"none", "starting", "running", "stopped", "error"}]
           /\ lock' \in Tasks \cup {None} /\ victim' \in 0 .. count
           /\ allPc' \in {"idle", "run"} /\ allSeen' \subseteq Instances
<1>t. TypeOK /\ \A t \in Tasks : reg[t] # 0 => reg[t] \in 1 .. count
  BY Ranges DEF IInv
<1>0. {"startup", "health", "stop", "all", "evict"} = Cleaners
  BY DEF Cleaners
<1>1. CASE \E i \in Instances, k \in Cleaners : CleanupEnds(i, k)
  <2>1. PICK i \in Instances, k \in Cleaners : CleanupEnds(i, k)
    BY <1>1
  <2>2. victim' \in 0 .. count
    <3>1. 0 \in 0 .. count
      BY Ranges, <1>t
    <3> QED
      BY <2>1, <3>1, <1>t DEF CleanupEnds, TypeOK
  <2> QED
    BY <2>1, <2>2, <1>t DEF CleanupEnds, Terminate, allVars, TypeOK
<1>2. CASE \E t \in Tasks : Start(t)
  <2>1. PICK t \in Tasks : Start(t)
    BY <1>2
  <2>2. CASE UNCHANGED <<runVars, cleaning, regVars, victim>>
    BY <2>1, <2>2, <1>t DEF Start, runVars, allVars, TypeOK
  <2>3. CASE /\ \E v \in Running : /\ StopInternal(reg[v], "evict")
                                   /\ victim' = IF reg[v] \in alive THEN reg[v] ELSE 0
             /\ UNCHANGED alive
    <3>1. PICK v \in Running : /\ StopInternal(reg[v], "evict")
                               /\ victim' = IF reg[v] \in alive THEN reg[v] ELSE 0
      BY <2>3
    <3>2. reg[v] \in 1 .. count /\ reg[v] \in Instances /\ 0 \in 0 .. count
          /\ reg[v] \in 0 .. count
      BY <1>t, Ranges DEF Running
    <3>3. victim' \in 0 .. count
      BY <3>1, <3>2
    <3>4. /\ startup' = [startup EXCEPT ![reg[v]] = "none"] /\ health' = health \ {reg[v]}
          /\ \/ cleaning' = cleaning
             \/ cleaning' = [cleaning EXCEPT ![reg[v]] = @ \cup {"evict"}]
          /\ status' = status \/ status' = [status EXCEPT ![reg[v]] = "stopped"]
      <4>1. status \in [Instances -> {"none", "starting", "running", "stopped", "error"}]
        BY <1>t DEF TypeOK
      <4> QED
        BY <3>1, <3>2, <4>1 DEF StopInternal, Cleanup, CancelTasks
    <3>5. /\ lock' = t /\ allPc' = allPc /\ allSeen' = allSeen /\ alive' = alive
      BY <2>1, <2>3 DEF Start, allVars
    <3> QED
      BY <3>2, <3>3, <3>4, <3>5, <1>0, <1>t DEF TypeOK
  <2> QED
    BY <2>1, <2>2, <2>3 DEF Start
<1>3. CASE \E t \in Tasks : NoPort(t)
  BY <1>3, <1>t DEF NoPort, runVars, allVars, TypeOK
<1>4. CASE \E t \in Tasks : Stop(t) \/ Idle(t)
  BY <1>4, <1>0, <1>t DEF Stop, Idle, StopInternal, Cleanup, CancelTasks, lockVars, allVars, TypeOK
<1>5. CASE \E i \in Instances : InstallFails(i) \/ NeverReady(i)
  BY <1>5, <1>0, <1>t DEF InstallFails, NeverReady, Cleanup, CancelTasks, lockVars, allVars, TypeOK
<1>6. CASE \E i \in Instances : Spawn(i) \/ Ready(i)
  BY <1>6, <1>t DEF Spawn, Ready, lockVars, allVars, TypeOK
<1>7. CASE \E i \in Instances : Exit(i)
  BY <1>7, <1>t DEF Exit, CancelTasks, lockVars, allVars, TypeOK
<1>8. CASE \E i \in Instances : HealthFails(i)
  BY <1>8, <1>0, <1>t DEF HealthFails, lockVars, allVars, TypeOK
<1>9. CASE AllBegins
  BY <1>9, <1>0, <1>t DEF AllBegins, lockVars, TypeOK
<1>10. CASE AllEnds
  BY <1>10, <1>t DEF AllEnds, runVars, lockVars, TypeOK
<1>11. CASE UNCHANGED vars
  BY <1>11, <1>t DEF vars, runVars, lockVars, allVars, TypeOK
<1> QED
  BY <1>1, <1>2, <1>3, <1>4, <1>5, <1>6, <1>7, <1>8, <1>9, <1>10, <1>11 DEF Next

LEMMA TypedTidy ==
    ASSUME IInv, [Next]_vars, \A t \in Tasks : ~Create(t), NEW F, Tidy(F)
    PROVE  TypeOK'
<1>1. UNCHANGED instVars /\ Finishes(F) /\ TypeOK
  BY DEF Tidy, IInv
<1>2. reg' \in [Tasks -> 0 .. count]
  <2>1. \A t \in Tasks : (IF \E i \in F : task[i] = t THEN 0 ELSE reg[t]) \in 0 .. count
    BY <1>1, Ranges DEF TypeOK
  <2> QED
    BY <1>1, <2>1 DEF Finishes
<1>3. used' \subseteq Ports
  BY <1>1 DEF Finishes, TypeOK
<1>4. ends' \in [Instances -> 0 .. 2]
  <2>1. \A i \in Instances : (IF i \in F /\ ends[i] < 2 THEN ends[i] + 1 ELSE ends[i]) \in 0 .. 2
    BY <1>1 DEF TypeOK
  <2> QED
    BY <1>1, <2>1 DEF Finishes
<1> QED
  BY <1>1, <1>2, <1>3, <1>4, TypedRest DEF TypeOK, instVars

LEMMA TidyStep ==
    ASSUME IInv, [Next]_vars, \A t \in Tasks : ~Create(t)
    PROVE  IInv'
<1>1. PICK F \in SUBSET Instances : Tidy(F)
  BY StepTidy
<1>2. AtMostMax'
  <2>1. MaxPreviews \in Nat /\ Cardinality(Running) <= MaxPreviews
    BY PreviewAssumption DEF IInv, AtMostMax
  <2> QED
    BY <1>1, <2>1, TidyRunning DEF AtMostMax
<1>3. Budget'
  <2>1. count' = count
    BY <1>1 DEF Tidy, instVars
  <2>2. \/ lock' = lock \/ lock' = None
        \/ count < MaxInstances
    BY DEF Next, CleanupEnds, Start, Create, NoPort, Stop, Idle, Spawn, InstallFails, Ready,
           NeverReady, Exit, HealthFails, AllBegins, AllEnds, vars, lockVars
  <2> QED
    BY <2>1, <2>2 DEF IInv, Budget
<1> QED
  BY <1>1, <1>2, <1>3, TypedTidy, TidyLife, TidyRegistered, TidyOrphans, TidyPorts, SpaceStep
  DEF IInv

-----------------------------------------------------------------------------
(* The creation of an instance.                                            *)

LEMMA CreateStep ==
    ASSUME IInv, NEW t \in Tasks, Create(t)
    PROVE  IInv'
<1> DEFINE i == count + 1
<1>1. PICK p \in Ports :
        /\ count' = i
        /\ task' = [task EXCEPT ![i] = t]
        /\ port' = [port EXCEPT ![i] = p]
        /\ Allocate(p)
        /\ status' = [status EXCEPT ![i] = "starting"]
        /\ startup' = [startup EXCEPT ![i] = "install"]
        /\ reg' = [reg EXCEPT ![t] = i]
  BY DEF Create
<1>2. /\ lock = t /\ lock # None /\ victim = 0 /\ lock' = None /\ victim' = 0
      /\ health' = health /\ alive' = alive /\ cleaning' = cleaning /\ ends' = ends
      /\ allPc' = allPc /\ allSeen' = allSeen
  BY PreviewAssumption DEF Create, allVars
<1>3. /\ count \in Nat /\ i \in Instances /\ i \in Nat /\ i # 0 /\ i > count /\ i \notin 1 .. count
      /\ count < MaxInstances
  BY <1>2, Ranges DEF IInv, Budget, Instances
<1>4. startup[i] = "none" /\ cleaning[i] = {} /\ ends[i] = 0 /\ i \notin alive /\ i \notin health
  BY <1>3 DEF IInv, Fresh
<1>5. t \notin Running /\ Cardinality(Running) < MaxPreviews
  BY <1>2 DEF IInv, Space, Room
<1>t. TypeOK
  BY DEF IInv
<1>r. \A j \in Instances : j \in Nat /\ (j <= i /\ j # i => j <= count /\ j \in 1 .. count)
  BY <1>3, PreviewAssumption DEF Instances
<1>s. \A s \in Tasks : reg[s] # 0 => reg[s] \in 1 .. count /\ reg[s] \in Instances /\ reg[s] # i
  BY <1>3, <1>t, Ranges
<1>u. 1 .. count' = (1 .. count) \cup {i} /\ 0 .. count' = (0 .. count) \cup {i}
  BY <1>1, <1>3
<1>a. \A j \in Instances : j # i =>
        task'[j] = task[j] /\ port'[j] = port[j] /\ status'[j] = status[j] /\ startup'[j] = startup[j]
  BY <1>1, <1>t DEF TypeOK
<1>b. task'[i] = t /\ port'[i] = p /\ status'[i] = "starting" /\ startup'[i] = "install"
  BY <1>1, <1>3, <1>t DEF TypeOK
<1>c. reg'[t] = i /\ \A s \in Tasks : s # t => reg'[s] = reg[s]
  BY <1>1, <1>t DEF TypeOK
<1>d. p \notin used /\ used' = used \cup {p}
  BY <1>1 DEF Allocate
<1> HIDE DEF i
<1>6. TypeOK'
  <2>1. count' \in 0 .. MaxInstances /\ victim' \in 0 .. count'
    BY <1>1, <1>2, <1>3, PreviewAssumption DEF i
  <2>2. reg' \in [Tasks -> 0 .. count']
    BY <1>1, <1>u, <1>t DEF TypeOK
  <2>3. /\ task' \in [Instances -> Tasks \cup {None}] /\ port' \in [Instances -> Ports \cup {0}]
        /\ status' \in [Instances -> {"none", "starting", "running", "stopped", "error"}]
        /\ startup' \in [Instances -> {"none", "install", "ready"}]
    BY <1>1, <1>t DEF TypeOK
  <2> QED
    BY <1>2, <1>d, <1>t, <2>1, <2>2, <2>3 DEF TypeOK
<1>7. Created'
  <2>1. 1 .. count \subseteq Instances /\ \A j \in 1 .. count : j # i
    BY <1>3, <1>t, Ranges
  <2> QED
    BY <1>a, <1>b, <1>u, <2>1 DEF IInv, Created
<1>8. Fresh'
  <2>1. \A j \in Instances : j > count' => j > count /\ j # i
    BY <1>1, <1>3, <1>r DEF i
  <2> QED
    BY <1>2, <1>a, <2>1 DEF IInv, Fresh
<1>9. Startups'
  BY <1>2, <1>4, <1>a, <1>b DEF IInv, Startups
<1>10. Living'
  <2>1. \A j \in alive : j \in Instances /\ j # i
    BY <1>4, <1>t DEF TypeOK
  <2> QED
    BY <1>2, <1>a, <2>1 DEF IInv, Living
<1>11. Registered'
  <2>1. SUFFICES ASSUME NEW s \in Tasks, reg'[s] # 0
                 PROVE  /\ task'[reg'[s]] = s /\ ends'[reg'[s]] = 0
                        /\ \A j \in Instances : j > reg'[s] /\ j <= count' => task'[j] # s
    BY DEF Registered
  <2>2. CASE s = t
    <3>1. \A j \in Instances : ~(j > i /\ j <= i)
      BY <1>3, <1>r
    <3> QED
      BY <1>1, <1>2, <1>4, <1>b, <1>c, <2>2, <3>1
  <2>3. CASE s # t
    <3>1. reg'[s] = reg[s] /\ reg[s] \in Instances /\ reg[s] # i
      BY <1>c, <1>s, <2>1, <2>3
    <3>2. task'[reg[s]] = s /\ ends[reg[s]] = 0
      BY <1>a, <2>1, <3>1 DEF IInv, Registered
    <3>3. \A j \in Instances : j > reg[s] /\ j <= i => task'[j] # s
      BY <1>a, <1>b, <1>r, <2>1, <2>3, <3>1 DEF IInv, Registered
    <3> QED
      BY <1>1, <1>2, <3>1, <3>2, <3>3
  <2> QED
    BY <2>2, <2>3
<1>12. Orphans'
  <2>1. SUFFICES ASSUME NEW j \in Instances, j \in alive \/ startup'[j] # "none",
                        reg'[task'[j]] # j, cleaning[j] = {}
                 PROVE  \E k \in 1 .. j - 1 : task'[k] = task'[j] /\ ends[k] > 0
    BY <1>2 DEF Orphans
  <2>2. j # i
    BY <1>b, <1>c, <2>1
  <2>3. (j \in alive \/ startup[j] # "none") /\ task'[j] = task[j]
    BY <1>a, <2>1, <2>2
  <2>4. j \in 1 .. count /\ task[j] \in Tasks
    BY <2>3, ActiveInstance DEF IInv, Created
  <2>5. status[j] \in Active
    BY <2>1, <2>3 DEF IInv, Living, Startups, Active
  <2>6. reg[task[j]] # j
    <3>1. CASE task[j] = t
      BY <1>3, <1>5, <2>4, <2>5, <3>1 DEF Running
    <3>2. CASE task[j] # t
      BY <1>c, <2>1, <2>3, <2>4, <3>2
    <3> QED
      BY <3>1, <3>2
  <2>7. PICK k \in 1 .. j - 1 : task[k] = task[j] /\ ends[k] > 0
    BY <2>1, <2>3, <2>6 DEF IInv, Orphans
  <2>8. k \in Instances /\ k # i
    <3>1. count <= MaxInstances /\ MaxInstances \in Nat /\ j \in Nat /\ j <= count
      BY <1>3, <2>4, PreviewAssumption
    <3>2. k \in Nat /\ 1 <= k /\ k <= j - 1
      BY <2>7, <3>1
    <3>3. k \in Instances /\ k <= count
      BY <1>3, <3>1, <3>2 DEF Instances
    <3> QED
      BY <1>3, <3>3
  <2> QED
    BY <1>a, <2>3, <2>7, <2>8
<1>13. Space'
  <2>1. \A j \in Instances : "evict" \notin cleaning[j]
    BY <1>2, Ranges DEF IInv, Space
  <2> QED
    BY <1>2, <2>1 DEF Space
<1>14. AtMostMax'
  <2>1. Running' \subseteq Running \cup {t}
    BY <1>a, <1>c, <1>s DEF Running
  <2>2. IsFiniteSet(Running)
    BY FS_Subset, PreviewAssumption DEF Running
  <2>3. IsFiniteSet(Running \cup {t}) /\ Cardinality(Running \cup {t}) = Cardinality(Running) + 1
    BY <1>5, <2>2, FS_AddElement
  <2>4. Cardinality(Running') <= Cardinality(Running \cup {t}) /\ IsFiniteSet(Running')
    BY <2>1, <2>3, FS_Subset
  <2>5. Cardinality(Running) \in Nat /\ Cardinality(Running') \in Nat /\ MaxPreviews \in Nat
    BY <2>2, <2>4, FS_CardinalityType, PreviewAssumption
  <2> QED
    BY <1>5, <2>3, <2>4, <2>5 DEF AtMostMax
<1>15. OwnPorts'
  <2>1. SUFFICES ASSUME \A j \in Instances : ends[j] < 2
                 PROVE  \A j \in 1 .. count' : ends[j] = 0 =>
                          /\ port'[j] \in used'
                          /\ \A k \in 1 .. count' : k # j /\ ends[k] = 0 => port'[k] # port'[j]
    BY <1>2 DEF OwnPorts
  <2>2. 1 .. count \subseteq Instances /\ \A j \in 1 .. count : j # i
    BY <1>3, <1>t, Ranges
  <2>3. \A j \in 1 .. count : ends[j] = 0 =>
          /\ port[j] \in used
          /\ \A k \in 1 .. count : k # j /\ ends[k] = 0 => port[k] # port[j]
    BY <2>1 DEF IInv, OwnPorts
  <2>4. \A j \in 1 .. count : port'[j] = port[j]
    BY <1>a, <2>2
  <2> QED
    BY <1>b, <1>d, <1>u, <2>2, <2>3, <2>4
<1>16. Budget'
  BY <1>2 DEF Budget
<1> QED
  BY <1>6, <1>7, <1>8, <1>9, <1>10, <1>11, <1>12, <1>13, <1>14, <1>15, <1>16 DEF IInv

-----------------------------------------------------------------------------
(* The theorems.                                                           *)

LEMMA InitInv == Init => IInv
<1> SUFFICES ASSUME Init PROVE IInv
  OBVIOUS
<1>1. TypeOK
  <2>1. 0 \in 0 .. MaxInstances /\ 0 \in 0 .. 0 /\ 0 \in 0 .. 2
    BY PreviewAssumption
  <2> QED
    BY <2>1 DEF Init, TypeOK
<1>2. Running = {} /\ Cardinality(Running) = 0
  BY FS_EmptySet DEF Init, Running
<1>3. AtMostMax
  BY <1>2, PreviewAssumption DEF AtMostMax
<1>4. Created /\ OwnPorts
  BY DEF Init, Created, OwnPorts
<1> QED
  BY <1>1, <1>3, <1>4 DEF Init, IInv, Fresh, Startups, Living, Registered, Orphans, Space, Budget

LEMMA StepInv == IInv /\ [Next]_vars => IInv'
  BY TidyStep, CreateStep

LEMMA Inductive == Spec => []IInv
  BY InitInv, StepInv, PTL DEF Spec

\* Type correctness.
THEOREM PreviewTyping == Spec => []TypeOK
<1>1. IInv => TypeOK
  BY DEF IInv
<1> QED
  BY <1>1, Inductive, PTL

\* start_preview never lets more previews start or run than the limit, across
\* its own await while it evicts and whatever ends, fails or is stopped then.
THEOREM PreviewBound == Spec => []AtMostMax
<1>1. IInv => AtMostMax
  BY DEF IInv
<1> QED
  BY <1>1, Inductive, PTL

\* What _cleanup_instance has finished with has no process and gets none.
THEOREM CleanedStaysDead == Spec => []CleanedIsDead
<1>1. IInv => CleanedIsDead
  <2> SUFFICES ASSUME IInv, NEW i \in Instances, ends[i] > 0
               PROVE  i \notin alive /\ startup[i] = "none"
    BY DEF CleanedIsDead
  <2>1. ends[i] # 0
    OBVIOUS
  <2> QED
    BY <2>1 DEF IInv, Living, Startups
<1> QED
  BY <1>1, Inductive, PTL

\* The only way to lose track of a process is the cleanup of an older instance
\* of its task, which unregisters the task and not itself.
THEOREM OrphansExplained == Spec => []OrphanOnlyByRestart
<1>1. IInv => OrphanOnlyByRestart
  BY DEF IInv, TypeOK, Orphans, OrphanOnlyByRestart
<1> QED
  BY <1>1, Inductive, PTL

\* Registered previews keep different ports while each instance is cleaned up
\* at most once.
THEOREM PortsKeptApart == Spec => []PortsApart
<1>1. IInv => PortsApart
  <2> SUFFICES ASSUME IInv, \A i \in Instances : ends[i] < 2,
                      NEW s \in Tasks, NEW t \in Tasks, s # t, reg[s] # 0, reg[t] # 0
               PROVE  port[reg[s]] # port[reg[t]]
    BY DEF PortsApart
  <2>1. reg[s] \in 1 .. count /\ reg[t] \in 1 .. count
    BY Ranges DEF IInv
  <2>2. task[reg[s]] = s /\ task[reg[t]] = t /\ ends[reg[s]] = 0 /\ ends[reg[t]] = 0
    BY DEF IInv, Registered
  <2> QED
    BY <2>1, <2>2 DEF IInv, OwnPorts
<1> QED
  BY <1>1, Inductive, PTL
=============================================================================
