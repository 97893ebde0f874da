---------------------------- MODULE SandboxPool ----------------------------
(***************************************************************************)
(* One SandboxPool (forgepilot_api/sandbox/pool.py) and the requests that  *)
(* lease a provider from it: acquire, release, eviction of the oldest idle *)
(* instance, stop_all.  All but release run under an asyncio.Lock, which   *)
(* is first come, first served; the providers' init and stop are awaits,   *)
(* at which requests that hold no lock go on, and a streaming request can  *)
(* be cancelled.                                                           *)
(***************************************************************************)
EXTENDS Naturals, Sequences, FiniteSets

CONSTANTS
    Users,      \* concurrent requests
    Images,
    MaxSize,    \* FORGEPILOT_SANDBOX_POOL_MAX_SIZE
    MaxAcquires \* bound: acquires in all

ASSUME PoolAssumption == /\ MaxSize \in Nat \ {0}
                         /\ MaxAcquires \in Nat
                         /\ IsFiniteSet(Users)
                         /\ "stopper" \notin Users

Stopper == "stopper"

VARIABLES
    queue,    \* the lock: its head holds it, the rest wait in order
    pc,       \* request: "idle", "wait", "evict", "init", "use"
    begun,    \* acquires begun
    image,    \* request: the image it asks for
    lease,    \* request: the instance it was given, 0 for none
    evicting, \* the instance being evicted, 0 for none
    made,     \* _id_counter
    imageOf,  \* instance -> image
    listed,   \* the pool's instances
    older,    \* instance -> those last used before it
    busy,     \* instances with in_use set
    living,   \* instances whose provider was initialised and not stopped
    torn,     \* instances whose eviction was cancelled half way
    stopPc,   \* stop_all: "idle", "wait", "stop", "done"
    toStop    \* stop_all: instances it still has to stop

poolVars == <<made, imageOf, listed, older, busy, living, torn>>
reqVars  == <<pc, begun, image, lease, evicting>>
stopVars == <<stopPc, toStop>>
sandboxVars == <<queue, reqVars, poolVars, stopVars>>

Ids    == 1 .. made
Spare   == listed \ busy

PoolTypeOK ==
    /\ queue \in Seq(Users \cup {Stopper})
    /\ pc \in [Users -> {"idle", "wait", "evict", "init", "use"}]
    /\ begun \in 0 .. MaxAcquires
    /\ image \in [Users -> Images]
    /\ made \in Nat
    /\ lease \in [Users -> Ids \cup {0}]
    /\ evicting \in Ids \cup {0}
    /\ imageOf \in [Ids -> Images]
    /\ older \in [Ids -> SUBSET Ids]
    /\ listed \subseteq Ids /\ busy \subseteq Ids
    /\ living \subseteq Ids /\ torn \subseteq Ids
    /\ stopPc \in {"idle", "wait", "stop", "done"}
    /\ toStop \subseteq Ids

PoolInit ==
    /\ queue = <<>>
    /\ pc = [u \in Users |-> "idle"]
    /\ begun = 0
    /\ image \in [Users -> Images]
    /\ lease = [u \in Users |-> 0]
    /\ evicting = 0 /\ made = 0 /\ imageOf = <<>> /\ older = <<>>
    /\ listed = {} /\ busy = {} /\ living = {} /\ torn = {}
    /\ stopPc = "idle" /\ toStop = {}

-----------------------------------------------------------------------------
(* The lock.                                                               *)

Holds(p) == queue # <<>> /\ Head(queue) = p
Enter(p) == queue' = Append(queue, p)
Leave    == queue' = Tail(queue)

\* The waiter at n gives up.
Without(n) == queue' = [k \in 1 .. Len(queue) - 1 |-> IF k < n THEN queue[k] ELSE queue[k + 1]]

\* last_used_at of instance i becomes the latest.
Touch(i) == older' = [j \in Ids |-> IF j = i THEN Ids \ {i} ELSE older[j] \ {i}]

-----------------------------------------------------------------------------
(* A request: acquire, use, release.                                       *)

Request(u) ==
    /\ pc[u] = "idle" /\ begun < MaxAcquires
    /\ begun' = begun + 1
    /\ \E im \in Images : image' = [image EXCEPT ![u] = im]
    /\ pc' = [pc EXCEPT ![u] = "wait"]
    /\ Enter(u)
    /\ UNCHANGED <<lease, evicting, poolVars, stopVars>>

\* Variant for a mutation check: in_use not looked at.
FitBusy(u) == {i \in listed : imageOf[i] = image[u]}

\* The instances that acquire can hand to u.
Fit(u) == {i \in Spare : imageOf[i] = image[u]}

\* Variant for a mutation check: only instances in use counted.
FullOfBusy == Cardinality(listed \cap busy) >= MaxSize

Full == Cardinality(listed) >= MaxSize

(* acquire, up to its first await inside the lock. *)

\* An idle instance of the image is handed out, the eldest first.
Reuse(u) ==
    /\ pc[u] = "wait" /\ Holds(u)
    /\ \E i \in Fit(u) :
         /\ \A k \in Fit(u) : i <= k
         /\ busy' = busy \cup {i}
         /\ Touch(i)
         /\ lease' = [lease EXCEPT ![u] = i]
    /\ pc' = [pc EXCEPT ![u] = "use"]
    /\ Leave
    /\ UNCHANGED <<evicting, begun, image, made, imageOf, listed, living, torn, stopVars>>

\* A full pool first stops its least recently used idle instance.
Evict(u) ==
    /\ pc[u] = "wait" /\ Holds(u)
    /\ Fit(u) = {} /\ Full
    /\ \E i \in Spare : older[i] \cap Spare = {} /\ evicting' = i
    /\ pc' = [pc EXCEPT ![u] = "evict"]
    /\ UNCHANGED <<queue, lease, begun, image, poolVars, stopVars>>

\* A pool with room, or with nothing idle to stop, starts a provider.
StartNew(u) ==
    /\ pc[u] = "wait" /\ Holds(u)
    /\ Fit(u) = {} /\ (Full => Spare = {})
    /\ pc' = [pc EXCEPT ![u] = "init"]
    /\ UNCHANGED <<queue, lease, evicting, begun, image, poolVars, stopVars>>

\* Variant for a mutation check: the evicted instance is not stopped.
EvictedAlive(u) ==
    /\ pc[u] = "evict"
    /\ listed' = listed \ {evicting}
    /\ evicting' = 0
    /\ pc' = [pc EXCEPT ![u] = "init"]
    /\ UNCHANGED <<queue, begun, image, lease, made, imageOf, older, busy, living, torn, stopVars>>

\* provider.stop() of the evicted instance returned, or raised, which is ignored.
Evicted(u) ==
    /\ pc[u] = "evict"
    /\ living' = living \ {evicting}
    /\ listed' = listed \ {evicting}
    /\ evicting' = 0
    /\ pc' = [pc EXCEPT ![u] = "init"]
    /\ UNCHANGED <<queue, begun, image, lease, made, imageOf, older, busy, torn, stopVars>>

\* Variant for a mutation check: _id_counter not advanced.
StartedUncounted(u) ==
    /\ pc[u] = "init"
    /\ imageOf' = Append(imageOf, image[u])
    /\ older' = Append(older, Ids)
    /\ listed' = listed \cup {made + 1}
    /\ busy' = busy \cup {made + 1}
    /\ living' = living \cup {made + 1}
    /\ lease' = [lease EXCEPT ![u] = made + 1]
    /\ pc' = [pc EXCEPT ![u] = "use"]
    /\ Leave
    /\ UNCHANGED <<begun, image, evicting, made, torn, stopVars>>

\* provider.init() returned.
Started(u) ==
    /\ pc[u] = "init"
    /\ made' = made + 1
    /\ imageOf' = Append(imageOf, image[u])
    /\ older' = Append(older, Ids)
    /\ listed' = listed \cup {made + 1}
    /\ busy' = busy \cup {made + 1}
    /\ living' = living \cup {made + 1}
    /\ lease' = [lease EXCEPT ![u] = made + 1]
    /\ pc' = [pc EXCEPT ![u] = "use"]
    /\ Leave
    /\ UNCHANGED <<begun, image, evicting, torn, stopVars>>

\* Variant for a mutation check: the lock not given back.
NotStartedLocked(u) ==
    /\ pc[u] = "init"
    /\ pc' = [pc EXCEPT ![u] = "idle"]
    /\ UNCHANGED <<begun, image, lease, evicting, queue, poolVars, stopVars>>

\* provider.init() raised, or the request was cancelled in it.
NotStarted(u) ==
    /\ pc[u] = "init"
    /\ pc' = [pc EXCEPT ![u] = "idle"]
    /\ Leave
    /\ UNCHANGED <<begun, image, lease, evicting, poolVars, stopVars>>

\* The request is cancelled while it waits for the lock.
CancelWait(u) ==
    /\ pc[u] = "wait"
    /\ pc' = [pc EXCEPT ![u] = "idle"]
    /\ \E n \in DOMAIN queue : queue[n] = u /\ Without(n)
    /\ UNCHANGED <<begun, image, lease, evicting, poolVars, stopVars>>

\* The request is cancelled in that stop(): CancelledError is no
\* Exception, so the instance stays in the pool, stopped or not.
CancelEvict(u) ==
    /\ pc[u] = "evict"
    /\ torn' = torn \cup {evicting}
    /\ living' \in {living, living \ {evicting}}
    /\ evicting' = 0
    /\ pc' = [pc EXCEPT ![u] = "idle"]
    /\ Leave
    /\ UNCHANGED <<begun, image, lease, made, imageOf, listed, older, busy, stopVars>>

\* release: no lock.  The instance may have left the pool with stop_all.
Release(u) ==
    /\ pc[u] = "use"
    /\ busy' = busy \ {lease[u]}
    /\ Touch(lease[u])
    /\ lease' = [lease EXCEPT ![u] = 0]
    /\ pc' = [pc EXCEPT ![u] = "idle"]
    /\ UNCHANGED <<queue, begun, image, evicting, made, imageOf, listed, living, torn, stopVars>>

-----------------------------------------------------------------------------
(* stop_all: instances in use are stopped too.                             *)

StopRequest ==
    /\ stopPc = "idle"
    /\ stopPc' = "wait"
    /\ Enter(Stopper)
    /\ UNCHANGED <<reqVars, poolVars, toStop>>

StopBegins ==
    /\ stopPc = "wait" /\ Holds(Stopper)
    /\ stopPc' = "stop"
    /\ toStop' = listed
    /\ UNCHANGED <<queue, reqVars, poolVars>>

\* Variant for a mutation check: the loop does not move on.
StopOneSticks ==
    /\ stopPc = "stop"
    /\ \E i \in toStop : living' = living \ {i} /\ toStop' = toStop
    /\ UNCHANGED <<queue, reqVars, stopPc, made, imageOf, listed, older, busy, torn>>

\* provider.stop() of one instance returned, or raised, which is ignored.
StopOne ==
    /\ stopPc = "stop"
    /\ \E i \in toStop : living' = living \ {i} /\ toStop' = toStop \ {i}
    /\ UNCHANGED <<queue, reqVars, stopPc, made, imageOf, listed, older, busy, torn>>

\* Variant for a mutation check: the stopped instances kept.
StopEndsKeeps ==
    /\ stopPc = "stop" /\ toStop = {}
    /\ stopPc' = "done"
    /\ Leave
    /\ UNCHANGED <<reqVars, poolVars, toStop>>

StopEnds ==
    /\ stopPc = "stop" /\ toStop = {}
    /\ listed' = {}
    /\ stopPc' = "done"
    /\ Leave
    /\ UNCHANGED <<reqVars, made, imageOf, older, busy, living, torn, toStop>>

-----------------------------------------------------------------------------
\* What goes on by itself: the event loop runs the lock holder, and the
\* providers' init and stop come to an end.
Progress == \/ \E u \in Users : Reuse(u) \/ Evict(u) \/ StartNew(u) \/ Evicted(u) \/ Started(u)
                            \/ NotStarted(u)
            \/ StopBegins \/ StopOne \/ StopEnds

PoolNext == \/ Progress
            \/ \E u \in Users : Request(u) \/ CancelWait(u) \/ CancelEvict(u) \/ Release(u)
            \/ StopRequest

PoolSpec == PoolInit /\ [][PoolNext]_sandboxVars

\* Nothing is assumed of the requests: one may hold its lease for ever.
FairSpec == PoolSpec /\ WF_sandboxVars(Progress)

-----------------------------------------------------------------------------
(* Properties.                                                             *)

\* An instance is leased to one request at a time, also across evictions,
\* stop_all and the releases that take no lock (pool.py:51-92).
ExclusiveLease ==
    \A u, v \in Users : u # v /\ lease[u] # 0 => lease[u] # lease[v]

\* MaxSize is no hard limit, because a full pool without an idle instance
\* grows; but it never exceeds what the requests hold at once (pool.py:59-60,
\* 94-109).
Bounded == Cardinality(listed) <= MaxSize \/ Cardinality(listed) <= Cardinality(Users)

\* A live provider is in the pool, where stop_all finds it (pool.py:86, 111-132).
NoOrphan == living \subseteq listed

\* The provider that a request gets from the pool is running, unless its
\* eviction was cancelled earlier (pool.py:54-58, 111-119).
HandedOutAlive ==
    [][\A u \in Users : lease[u] = 0 /\ lease'[u] # 0 => lease'[u] \in living' \cup torn']_sandboxVars

\* Every acquire comes to an end, whatever the lease holders do: the lock is
\* always given back and the queue moves (pool.py:51-88, 124-132).
AcquireReturns == \A u \in Users : (pc[u] = "wait") ~> (pc[u] \in {"use", "idle"})

\* stop_all comes to an end (pool.py:124-132).
StopReturns == (stopPc = "wait") ~> (stopPc = "done")
=============================================================================
