------------------------------ MODULE Preview ------------------------------
(***************************************************************************)
(* PreviewManager (forgepilot_api/services/preview_service.py): one Vite   *)
(* server per task, started and stopped by requests, and cleaned up by     *)
(* whoever finds it dead, unhealthy, late or idle.  Only start_preview     *)
(* works under the lock; a cleanup awaits the end of the process for up to *)
(* five seconds, and several cleanups of one instance can overlap with     *)
(* each other and with the start of the task's next instance.              *)
(***************************************************************************)
EXTENDS Naturals, FiniteSets

CONSTANTS
    Tasks,
    Ports,          \* PORT_RANGE_START .. PORT_RANGE_END
    MaxPreviews,    \* MAX_CONCURRENT_PREVIEWS
    MaxInstances,   \* bound: instances ever created
    None

ASSUME PreviewAssumption == /\ MaxPreviews \in Nat \ {0}
                            /\ MaxInstances \in Nat
                            /\ IsFiniteSet(Tasks)
                            /\ None \notin Tasks

Instances == 1 .. MaxInstances

\* Who cleans up across an await.
Cleaners == {"startup", "health", "stop", "all", "evict"}

VARIABLES
    count,      \* instances created so far
    task, port, \* of each instance
    status,     \* "none" before creation, then PreviewState
    startup,    \* startup_task: "none", "install", "ready" (awaits the server)
    health,     \* instances whose health loop is active
    alive,      \* instances whose Vite process is running
    cleaning,   \* cleanups that await the end of the process
    reg,        \* _instances: task -> instance, 0 for none
    used,       \* _used_ports
    lock,       \* _lock: the task whose start holds it, or None
    victim,     \* the instance that start is evicting, 0 for none
    allPc,      \* stop_all: "idle", "run"
    allSeen,    \* history: instances that ran when the current stop_all began
    ends        \* history: cleanups of an instance that came to their end, up to 2

instVars == <<count, task, port>>
runVars  == <<status, startup, health, alive>>
regVars  == <<reg, used, ends>>
lockVars == <<lock, victim>>
allVars  == <<allPc, allSeen>>
vars     == <<instVars, runVars, cleaning, regVars, lockVars, allVars>>

Active == {"starting", "running"}

TypeOK ==
    /\ count \in 0 .. MaxInstances
    /\ task \in [Instances -> Tasks \cup {None}]
    /\ port \in [Instances -> Ports \cup {0}]
    /\ status \in [Instances -> {"none", "starting", "running", "stopped", "error"}]
    /\ startup \in [Instances -> {"none", "install", "ready"}]
    /\ health \subseteq Instances /\ alive \subseteq Instances
    /\ cleaning \in [Instances -> SUBSET Cleaners]
    /\ reg \in [Tasks -> 0 .. count]
    /\ used \subseteq Ports
    /\ lock \in Tasks \cup {None}
    /\ victim \in 0 .. count
    /\ allPc \in {"idle", "run"}
    /\ allSeen \subseteq Instances
    /\ ends \in [Instances -> 0 .. 2]

Init ==
    /\ count = 0
    /\ task = [i \in Instances |-> None] /\ port = [i \in Instances |-> 0]
    /\ status = [i \in Instances |-> "none"] /\ startup = [i \in Instances |-> "none"]
    /\ health = {} /\ alive = {}
    /\ cleaning = [i \in Instances |-> {}]
    /\ reg = [t \in Tasks |-> 0] /\ used = {}
    /\ lock = None /\ victim = 0
    /\ allPc = "idle" /\ allSeen = {}
    /\ ends = [i \in Instances |-> 0]

-----------------------------------------------------------------------------
(* _cleanup_instance.                                                      *)

\* Variant for a mutation check: the startup task goes on.
CancelHealth(i) == /\ startup' = startup
                   /\ health' = health \ {i}

\* Its first part: the tasks are cancelled (the caller, itself one of them, is
\* past its last await and loses nothing).
CancelTasks(i) == /\ startup' = [startup EXCEPT ![i] = "none"]
                  /\ health' = health \ {i}

\* Its last part: the port is released and the task unregistered, whatever
\* instance the task has by now.
Finish(i) == /\ used' = used \ {port[i]}
             /\ reg' = [reg EXCEPT ![task[i]] = 0]
             /\ ends' = [ends EXCEPT ![i] = IF @ < 2 THEN @ + 1 ELSE @]

\* A cleanup of i by k, to its first await or, without a process, to its end.
\* Bound: one cleanup of an instance by each kind of cleaner at a time.
\* st is the status that the instance has afterwards.
Cleanup(i, k, st) ==
    /\ k \notin cleaning[i]
    /\ CancelTasks(i)
    /\ IF i \in alive
       THEN cleaning' = [cleaning EXCEPT ![i] = @ \cup {k}] /\ UNCHANGED regVars
       ELSE Finish(i) /\ UNCHANGED cleaning
    /\ status' = [status EXCEPT ![i] = st]

\* _stop_preview_internal: the status changes only after the cleanup.
StopInternal(i, k) == Cleanup(i, k, IF i \in alive THEN status[i] ELSE "stopped")

\* Variant for a mutation check: the process not terminated.
TerminateNothing(i) == alive' = alive

\* _terminate_process: the process has ended, or is killed after five seconds.
Terminate(i) == alive' = alive \ {i}

CleanupEnds(i, k) ==
    /\ k \in cleaning[i]
    /\ cleaning' = [cleaning EXCEPT ![i] = @ \ {k}]
    /\ Terminate(i)
    /\ Finish(i)
    /\ status' = IF k \in {"startup", "health"} THEN status
                 ELSE [status EXCEPT ![i] = "stopped"]
    /\ victim' = IF k = "evict" THEN 0 ELSE victim
    /\ UNCHANGED <<instVars, startup, health, lock, allVars>>

-----------------------------------------------------------------------------
(* start_preview.                                                          *)

Running == {t \in Tasks : reg[t] # 0 /\ status[reg[t]] \in Active}

\* Variant for a mutation check: one preview too many.
RoomForOneMore == Cardinality(Running) <= MaxPreviews

Room == Cardinality(Running) < MaxPreviews

\* Takes the lock, unless the task has a preview already or there are too many
\* and none is idle: those are answered at once.  Any running preview may be
\* the one that was not accessed for longest.
Start(t) ==
    /\ lock = None /\ count < MaxInstances
    /\ t \notin Running
    /\ lock' = t
    /\ \/ /\ Room
          /\ UNCHANGED <<runVars, cleaning, regVars, victim>>
       \/ /\ ~Room
          /\ \E v \in Running :
               /\ status[reg[v]] = "running"
               /\ StopInternal(reg[v], "evict")
               /\ victim' = IF reg[v] \in alive THEN reg[v] ELSE 0
          /\ UNCHANGED alive
    /\ UNCHANGED <<instVars, allVars>>

\* Variant for a mutation check: the port not marked.
AllocateUnmarked(p) == p \notin used /\ used' = used

\* _allocate_port: any free one, since the client may ask for it.
Allocate(p) == p \notin used /\ used' = used \cup {p}

Create(t) ==
    /\ lock = t /\ victim = 0
    /\ \E p \in Ports :
         LET i == count + 1 IN
           /\ count' = i
           /\ task' = [task EXCEPT ![i] = t]
           /\ port' = [port EXCEPT ![i] = p]
           /\ Allocate(p)
           /\ status' = [status EXCEPT ![i] = "starting"]
           /\ startup' = [startup EXCEPT ![i] = "install"]
           /\ reg' = [reg EXCEPT ![t] = i]
    /\ lock' = None
    /\ UNCHANGED <<health, alive, cleaning, ends, victim, allVars>>

NoPort(t) ==
    /\ lock = t /\ victim = 0 /\ Ports \subseteq used
    /\ lock' = None
    /\ UNCHANGED <<instVars, runVars, cleaning, regVars, victim, allVars>>

-----------------------------------------------------------------------------
(* _start_vite_server, the startup task.                                   *)

\* npm install, if needed, and the creation of the process.
Spawn(i) ==
    /\ startup[i] = "install"
    /\ startup' = [startup EXCEPT ![i] = "ready"]
    /\ alive' = alive \cup {i}
    /\ UNCHANGED <<instVars, status, health, cleaning, regVars, lockVars, allVars>>

\* An exception before that.
InstallFails(i) ==
    /\ startup[i] = "install"
    /\ Cleanup(i, "startup", "error")
    /\ UNCHANGED <<instVars, alive, lockVars, allVars>>

\* Some server answers on the port.
Ready(i) ==
    /\ startup[i] = "ready"
    /\ \E j \in alive : port[j] = port[i]
    /\ startup' = [startup EXCEPT ![i] = "none"]
    /\ IF reg[task[i]] # 0
       THEN status' = [status EXCEPT ![i] = "running"] /\ health' = health \cup {i}
       ELSE UNCHANGED <<status, health>>
    /\ UNCHANGED <<instVars, alive, cleaning, regVars, lockVars, allVars>>

\* Variant for a mutation check: a status that is no PreviewState.
NeverReadyTimeout(i) ==
    /\ startup[i] = "ready"
    /\ Cleanup(i, "startup", "timeout")
    /\ UNCHANGED <<instVars, alive, lockVars, allVars>>

NeverReady(i) ==
    /\ startup[i] = "ready"
    /\ Cleanup(i, "startup", "error")
    /\ UNCHANGED <<instVars, alive, lockVars, allVars>>

-----------------------------------------------------------------------------
(* What watches an instance.                                               *)

\* The process exits, of itself or because it was told to, and
\* _watch_process_exit wakes up: it comes before the cleanups that wait for
\* the same exit.
Exit(i) ==
    /\ i \in alive
    /\ alive' = alive \ {i}
    /\ IF status[i] \in Active /\ reg[task[i]] # 0
       THEN /\ CancelTasks(i) /\ Finish(i)
            /\ status' = [status EXCEPT ![i] = "stopped"]
       ELSE UNCHANGED <<status, startup, health, regVars>>
    /\ UNCHANGED <<instVars, cleaning, lockVars, allVars>>

\* The health loop that i started looks the task's instance up.
HealthFails(i) ==
    /\ i \in health
    /\ LET j == reg[task[i]] IN
         IF j # 0 /\ status[j] = "running"
         THEN /\ "health" \notin cleaning[j]
              /\ startup' = [startup EXCEPT ![j] = "none"]
              /\ health' = health \ {i, j}
              /\ IF j \in alive
                 THEN cleaning' = [cleaning EXCEPT ![j] = @ \cup {"health"}] /\ UNCHANGED regVars
                 ELSE Finish(j) /\ UNCHANGED cleaning
              /\ status' = [status EXCEPT ![j] = "error"]
         ELSE /\ health' = health \ {i}
              /\ UNCHANGED <<status, startup, cleaning, regVars>>
    /\ UNCHANGED <<instVars, alive, lockVars, allVars>>

\* An idle timer fires.  Every get_status arms one, also for an instance that
\* is being cleaned up, and a timer stops whatever its task has by then.
Idle(t) ==
    /\ reg[t] # 0
    /\ StopInternal(reg[t], "stop")
    /\ UNCHANGED <<instVars, alive, lockVars, allVars>>

-----------------------------------------------------------------------------
(* stop_preview and stop_all.                                              *)

\* The lock is held only for the look-up.
Stop(t) ==
    /\ lock = None /\ reg[t] # 0
    /\ StopInternal(reg[t], "stop")
    /\ UNCHANGED <<instVars, alive, lockVars, allVars>>

\* gather starts one stop per registered task, all in the same turn of the
\* event loop: each runs to the await of its process, or to its end.
AllBegins ==
    /\ allPc = "idle"
    /\ allPc' = "run" /\ allSeen' = alive
    /\ LET now  == {reg[t] : t \in Tasks} \ {0}
           ends0 == now \ alive IN
         /\ startup' = [i \in Instances |-> IF i \in now THEN "none" ELSE startup[i]]
         /\ health' = health \ now
         /\ cleaning' = [i \in Instances |->
                           IF i \in now \cap alive THEN cleaning[i] \cup {"all"} ELSE cleaning[i]]
         /\ status' = [i \in Instances |-> IF i \in ends0 THEN "stopped" ELSE status[i]]
         /\ ends' = [i \in Instances |-> IF i \in ends0 /\ ends[i] < 2 THEN ends[i] + 1 ELSE ends[i]]
         /\ used' = used \ {port[i] : i \in ends0}
         /\ reg' = [t \in Tasks |-> IF reg[t] \in ends0 THEN 0 ELSE reg[t]]
    /\ UNCHANGED <<instVars, alive, lockVars>>

AllEnds ==
    /\ allPc = "run"
    /\ \A i \in Instances : "all" \notin cleaning[i]
    /\ allPc' = "idle" /\ allSeen' = {}
    /\ UNCHANGED <<instVars, runVars, cleaning, regVars, lockVars>>

-----------------------------------------------------------------------------
Next == \/ \E i \in Instances, k \in Cleaners : CleanupEnds(i, k)
        \/ \E t \in Tasks : Start(t) \/ Create(t) \/ NoPort(t) \/ Stop(t) \/ Idle(t)
        \/ \E i \in Instances : \/ Spawn(i) \/ InstallFails(i) \/ Ready(i) \/ NeverReady(i)
                                \/ Exit(i) \/ HealthFails(i)
        \/ AllBegins \/ AllEnds

Spec == Init /\ [][Next]_vars

-----------------------------------------------------------------------------
(* Properties.                                                             *)

\* Never more than MaxPreviews registered previews start or run, although the
\* eviction awaits between counting them and creating the next one
\* (preview_service.py:93-119).
AtMostMax == Cardinality(Running) <= MaxPreviews

\* When a cleanup of an instance has come to its end, the instance has no
\* process and never gets one: a startup under way was cancelled in time
\* (preview_service.py:166-173, 343-358).
CleanedIsDead == \A i \in Instances : ends[i] > 0 => i \notin alive /\ startup[i] = "none"

\* An instance that runs unregistered, and that nobody is stopping, was pushed
\* out by the cleanup of an older instance of its task (preview_service.py:117,
\* 358): otherwise stop and stop_all find every process.
OrphanOnlyByRestart ==
    \A i \in alive : reg[task[i]] # i /\ cleaning[i] = {} =>
        \E j \in 1 .. i - 1 : task[j] = task[i] /\ ends[j] > 0

\* Registered previews have different ports as long as no instance was cleaned
\* up twice (preview_service.py:380-393).
PortsApart ==
    (\A i \in Instances : ends[i] < 2) =>
        \A s, t \in Tasks : s # t /\ reg[s] # 0 /\ reg[t] # 0 => port[reg[s]] # port[reg[t]]

\* What the route answers, "All preview servers stopped" (api/preview.py:62):
\* of the servers that ran when stop_all was called none is left to run on when
\* it returns, though a cleanup by somebody else may still be going on.
StopAllStops ==
    [][allPc = "run" /\ allPc' = "idle" =>
         \A i \in allSeen \cap alive' : cleaning'[i] # {}]_vars
=============================================================================
