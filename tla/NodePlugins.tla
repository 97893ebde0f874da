---------------------------- MODULE NodePlugins ----------------------------
(***************************************************************************)
(* What the shell's Node API offers beside the registries it uses itself   *)
(* (NodeProviders): the generic registry of provider plugins               *)
(* (shared/provider/registry.ts), the loader that fills one from plugin    *)
(* files and watches them (shared/provider/loader.ts), and the pool of     *)
(* sandboxes (core/sandbox/pool.ts), which unlike the Python pool has no   *)
(* lock.  The watcher is wired to a registry in the way its callbacks are  *)
(* meant: a plugin is registered, a removed file's plugin unregistered.    *)
(* The three share no state but the registry's plugins.                    *)
(***************************************************************************)
EXTENDS Naturals, Sequences, FiniteSets

CONSTANTS
    PluginTypes,      \* provider types, each with one plugin file
    MaxFileEdits,     \* bound: changes of plugin files
    RegistryCallers,  \* calls of the registry under way at once
    MaxRegistryCalls, \* bound: calls of the registry in all
    PoolImages, PoolUsers,
    MaxPool,          \* maxSize
    MaxLeases         \* bound: acquires in all

ASSUME PluginsAssumption == IsFiniteSet(PoolUsers) /\ MaxPool \in Nat

VARIABLES
    plugins,                       \* the registry's table: the types it knows
    \* the loader
    pluginFiles,                   \* type -> what its plugin file holds
    imported,                      \* type -> what the module cache has of it
    fileEvents,                    \* types whose file's change the watcher is still to be told of
    debounces,                     \* types with a debounce timer
    pluginLoads,                   \* loads under way
    auto,                          \* autoLoadPlugins: "idle", "loading", "over"
    watching, fileEdits,
    outrun,                        \* history: types changed unwatched, or removed while they were loaded
    \* the registry
    made,                          \* the instances, in the order they were made
    slot,                          \* instances: type -> index into made, 0 for none
    regCalls, stopsAll, regAsked,
    crossed,                       \* history: types for which calls overlapped
    \* the pool
    boxes,                         \* the pooled instances, in the order they were made
    recent,                        \* those in the pool, the longest unused first
    users, emptying, leases,
    peak,                          \* history: the most leases that were held or made at once
    jostled                        \* history: an acquire overlapped an eviction, a creation or stopAll

loaderVars == <<pluginFiles, imported, fileEvents, debounces, pluginLoads, auto, watching,
                fileEdits, outrun>>
registryVars == <<made, slot, regCalls, stopsAll, regAsked, crossed>>
nodePoolVars == <<boxes, recent, users, emptying, leases, peak, jostled>>
pluginVars == <<plugins, loaderVars, registryVars, nodePoolVars>>

\* A file that has no usable export is broken; one whose plugin has the right
\* shape but does not validate is invalid.
Contents == {"absent", "broken", "invalid", "good"}
IdleCall == [op |-> "none", type |-> CHOOSE t \in PluginTypes : TRUE, id |-> 0]
NoUser   == [pc |-> "idle", image |-> CHOOSE m \in PoolImages : TRUE, id |-> 0]

PluginTypeOK ==
    /\ plugins \subseteq PluginTypes
    /\ pluginFiles \in [PluginTypes -> Contents]
    /\ imported \in [PluginTypes -> {"nothing", "failed", "invalid", "good"}]
    /\ {fileEvents, debounces, outrun} \subseteq SUBSET PluginTypes
    /\ pluginLoads \subseteq [type : PluginTypes, by : {"auto", "watch"},
                              got : {"nothing", "failed", "invalid", "good"}]
    /\ auto \in {"idle", "loading", "over"} /\ watching \in BOOLEAN
    /\ \A i \in DOMAIN made : made[i].type \in PluginTypes /\ made[i].told \in BOOLEAN
          /\ made[i].state \in {"initializing", "ready", "error", "stopping", "stopped"}
    /\ slot \in [PluginTypes -> 0 .. Len(made)] /\ stopsAll \in BOOLEAN
    /\ \A c \in RegistryCallers :
          regCalls[c].op \in {"none", "init", "stop"} /\ regCalls[c].id \in 0 .. Len(made)
    /\ \A i \in DOMAIN boxes :
          boxes[i].image \in PoolImages /\ {boxes[i].inUse, boxes[i].up} \subseteq BOOLEAN
    /\ \A i \in DOMAIN recent : recent[i] \in DOMAIN boxes
    /\ \A u \in PoolUsers :
          users[u].pc \in {"idle", "evict", "init", "use"} /\ users[u].id \in 0 .. Len(boxes)

LoaderInit == /\ pluginFiles \in [PluginTypes -> Contents]
              /\ imported = [t \in PluginTypes |-> "nothing"]
              /\ fileEvents = {} /\ debounces = {} /\ pluginLoads = {} /\ auto = "idle"
              /\ watching = FALSE /\ fileEdits = 0 /\ outrun = {}

RegistryInit == /\ made = <<>> /\ slot = [t \in PluginTypes |-> 0]
                /\ regCalls = [c \in RegistryCallers |-> IdleCall] /\ stopsAll = FALSE
                /\ regAsked = 0 /\ crossed = {}

PoolInit == /\ boxes = <<>> /\ recent = <<>> /\ users = [u \in PoolUsers |-> NoUser]
            /\ emptying = FALSE /\ leases = 0 /\ peak = 0 /\ jostled = FALSE

PluginInit == plugins = {} /\ LoaderInit /\ RegistryInit /\ PoolInit

-----------------------------------------------------------------------------
(* The loader.                                                             *)

\* loadPlugin: the file is there, and its module is imported.
Load(t, by) == [type |-> t, by |-> by, got |-> "nothing"]

\* discoverPlugins: the directories are scanned, and what is found is loaded
\* at once.
AutoLoadBegins ==
    /\ auto = "idle" /\ auto' = "loading"
    /\ pluginLoads' = pluginLoads \cup
                         {Load(t, "auto") : t \in {p \in PluginTypes : pluginFiles[p] # "absent"}}
    /\ UNCHANGED <<plugins, pluginFiles, imported, fileEvents, debounces, watching, fileEdits,
                   outrun>>

\* The import.  A module that was imported stays as it was; one that failed
\* may be tried again or stay so, as the runtime has it.
ImportEnds(l) ==
    /\ l.got = "nothing"
    /\ \E got \in IF imported[l.type] # "nothing" THEN {imported[l.type]}
                  ELSE IF pluginFiles[l.type] \in {"invalid", "good"} THEN {pluginFiles[l.type]}
                  ELSE {"failed"} :
         /\ pluginLoads' = (pluginLoads \ {l}) \cup {[l EXCEPT !.got = got]}
         /\ \/ imported' = [imported EXCEPT ![l.type] = got]
            \/ got = "failed" /\ UNCHANGED imported
    /\ UNCHANGED <<plugins, pluginFiles, fileEvents, debounces, auto, watching, fileEdits,
                   outrun>>

Autos == {l \in pluginLoads : l.by = "auto"}

\* validatePlugin: metadata and the methods of an instance.
Valid(l) == l.got = "good"

\* When all are loaded, the valid ones are registered.
AutoLoadEnds ==
    /\ auto = "loading" /\ \A l \in Autos : l.got # "nothing"
    /\ auto' = "over"
    /\ plugins' = plugins \cup {l.type : l \in {a \in Autos : Valid(a)}}
    /\ pluginLoads' = pluginLoads \ Autos
    /\ UNCHANGED <<pluginFiles, imported, fileEvents, debounces, watching, fileEdits, outrun>>

WatchPlugins ==
    /\ ~watching /\ auto # "idle" /\ watching' = TRUE
    /\ UNCHANGED <<plugins, pluginFiles, imported, fileEvents, debounces, pluginLoads, auto,
                   fileEdits, outrun>>

\* The cleanup function that watchPlugins returns: a load goes on.
Unwatch ==
    /\ watching /\ watching' = FALSE
    /\ fileEvents' = {} /\ debounces' = {}
    /\ outrun' = outrun \cup fileEvents \cup debounces
    /\ UNCHANGED <<plugins, pluginFiles, imported, pluginLoads, auto, fileEdits>>

FileEdited(t) ==
    /\ fileEdits < MaxFileEdits /\ fileEdits' = fileEdits + 1
    /\ \E k \in Contents \ {pluginFiles[t]} : pluginFiles' = [pluginFiles EXCEPT ![t] = k]
    /\ IF watching THEN fileEvents' = fileEvents \cup {t} /\ UNCHANGED outrun
                   ELSE outrun' = outrun \cup {t} /\ UNCHANGED fileEvents
    /\ UNCHANGED <<plugins, imported, debounces, pluginLoads, auto, watching>>

\* handleChange: a timer is set in place of the file's old one.
HandleChange(t) ==
    /\ t \in fileEvents /\ fileEvents' = fileEvents \ {t}
    /\ debounces' = debounces \cup {t}
    /\ UNCHANGED <<plugins, pluginFiles, imported, pluginLoads, auto, watching, fileEdits,
                   outrun>>

\* Variant for a mutation check: the file is not looked for when the timer fires
DebouncedBlindly(t) ==
    /\ t \in debounces /\ debounces' = debounces \ {t}
    /\ pluginLoads' = pluginLoads \cup {Load(t, "watch")}
    /\ UNCHANGED <<plugins, pluginFiles, imported, fileEvents, auto, watching, fileEdits, outrun>>

\* The timer fires: a file that is gone takes its plugin with it, and another
\* is loaded.
Debounced(t) ==
    /\ t \in debounces /\ debounces' = debounces \ {t}
    /\ IF pluginFiles[t] = "absent"
         THEN /\ plugins' = plugins \ {t}
              /\ outrun' = IF \E l \in pluginLoads : l.type = t THEN outrun \cup {t} ELSE outrun
              /\ UNCHANGED pluginLoads
         ELSE /\ pluginLoads' = pluginLoads \cup {Load(t, "watch")}
              /\ UNCHANGED <<plugins, outrun>>
    /\ UNCHANGED <<pluginFiles, imported, fileEvents, auto, watching, fileEdits>>

\* A watched plugin is registered without being validated.
WatchedLoaded(l) ==
    /\ l.by = "watch" /\ l.got # "nothing"
    /\ pluginLoads' = pluginLoads \ {l}
    /\ plugins' = IF l.got = "failed" THEN plugins ELSE plugins \cup {l.type}
    /\ UNCHANGED <<pluginFiles, imported, fileEvents, debounces, auto, watching, fileEdits,
                   outrun>>

LoaderNext ==
    \/ AutoLoadBegins \/ AutoLoadEnds \/ WatchPlugins \/ Unwatch
    \/ \E t \in PluginTypes : FileEdited(t) \/ HandleChange(t) \/ Debounced(t)
    \/ \E l \in pluginLoads : ImportEnds(l) \/ WatchedLoaded(l)

-----------------------------------------------------------------------------
(* The registry.  Every call is counted, and the types are noted for which *)
(* calls overlap.                                                          *)

Under(c, t) == regCalls[c].op # "none" /\ regCalls[c].type = t

CallCounted(t) ==
    /\ regAsked < MaxRegistryCalls /\ regAsked' = regAsked + 1
    /\ crossed' = IF stopsAll \/ \E c \in RegistryCallers : Under(c, t)
                THEN crossed \cup {t} ELSE crossed

Register(t) ==
    /\ CallCounted(t) /\ plugins' = plugins \cup {t}
    /\ UNCHANGED <<made, slot, regCalls, stopsAll>>

\* The instance is told to shut down and forgotten at once.
Unregister(t) ==
    /\ t \in plugins /\ CallCounted(t)
    /\ plugins' = plugins \ {t}
    /\ slot' = [slot EXCEPT ![t] = 0]
    /\ made' = IF slot[t] = 0 THEN made ELSE [made EXCEPT ![slot[t]].told = TRUE]
    /\ UNCHANGED <<regCalls, stopsAll>>

\* getInstance: a ready instance is returned; any other is replaced by a new
\* one, whatever its state.
RegistryInstance(c, t) ==
    /\ regCalls[c].op = "none" /\ t \in plugins /\ CallCounted(t)
    /\ slot[t] # 0 => made[slot[t]].state # "ready"
    /\ made' = Append(made, [type |-> t, state |-> "initializing", told |-> FALSE])
    /\ slot' = [slot EXCEPT ![t] = Len(made) + 1]
    /\ regCalls' = [regCalls EXCEPT ![c] = [op |-> "init", type |-> t, id |-> Len(made) + 1]]
    /\ UNCHANGED <<plugins, stopsAll>>

RegistryInitEnds(c) ==
    /\ regCalls[c].op = "init"
    /\ \E s \in {"ready", "error"} : made' = [made EXCEPT ![regCalls[c].id].state = s]
    /\ regCalls' = [regCalls EXCEPT ![c] = IdleCall]
    /\ UNCHANGED <<plugins, slot, stopsAll, regAsked, crossed>>

StopInstance(c, t) ==
    /\ regCalls[c].op = "none" /\ slot[t] # 0 /\ CallCounted(t)
    /\ made' = [made EXCEPT ![slot[t]] = [@ EXCEPT !.state = "stopping", !.told = TRUE]]
    /\ regCalls' = [regCalls EXCEPT ![c] = [op |-> "stop", type |-> t, id |-> slot[t]]]
    /\ UNCHANGED <<plugins, slot, stopsAll>>

\* Stopped or failed, the type's entry is deleted, whatever it holds by now.
StopInstanceEnds(c) ==
    /\ regCalls[c].op = "stop"
    /\ \E s \in {"stopped", "error"} : made' = [made EXCEPT ![regCalls[c].id].state = s]
    /\ slot' = [slot EXCEPT ![regCalls[c].type] = 0]
    /\ regCalls' = [regCalls EXCEPT ![c] = IdleCall]
    /\ UNCHANGED <<plugins, stopsAll, regAsked, crossed>>

InSlots == {slot[t] : t \in PluginTypes} \ {0}

\* What is ready or failed is told to shut down, and then all are forgotten.
RegistryStopAll ==
    /\ ~stopsAll /\ stopsAll' = TRUE
    /\ regAsked < MaxRegistryCalls /\ regAsked' = regAsked + 1
    /\ made' = [i \in DOMAIN made |-> IF i \in InSlots /\ made[i].state \in {"ready", "error"}
                                      THEN [made[i] EXCEPT !.told = TRUE] ELSE made[i]]
    /\ crossed' = crossed \cup {t \in PluginTypes : \E c \in RegistryCallers : Under(c, t)}
    /\ UNCHANGED <<plugins, slot, regCalls>>

RegistryStopAllEnds ==
    /\ stopsAll /\ stopsAll' = FALSE
    /\ slot' = [t \in PluginTypes |-> 0]
    /\ UNCHANGED <<plugins, made, regCalls, regAsked, crossed>>

RegistryNext ==
    \/ RegistryStopAll \/ RegistryStopAllEnds
    \/ \E t \in PluginTypes : Register(t) \/ Unregister(t)
    \/ \E c \in RegistryCallers :
         \/ RegistryInitEnds(c) \/ StopInstanceEnds(c)
         \/ \E t \in PluginTypes : RegistryInstance(c, t) \/ StopInstance(c, t)

-----------------------------------------------------------------------------
(* The pool of sandboxes.                                                  *)

Making(u) == users[u].pc \in {"evict", "init"}

\* The pool has an instance once.
Removed(s, x) == IF \E k \in DOMAIN s : s[k] = x
                 THEN LET k == CHOOSE j \in DOMAIN s : s[j] = x IN SubSeq(s, 1, k - 1) \o SubSeq(s, k + 1, Len(s))
                 ELSE s
Touched(i) == Append(Removed(recent, i), i)
InPool == {recent[i] : i \in DOMAIN recent}
Holding == Cardinality({u \in PoolUsers : users[u].pc # "idle"})

\* The first instance of the image that is not in use.
Available(m) == {i \in InPool : boxes[i].image = m /\ ~boxes[i].inUse}

\* An instance that some acquire is stopping is found like any other.
Reuse(u, m) ==
    /\ \E i \in Available(m) :
         /\ \A j \in Available(m) : i <= j
         /\ boxes' = [boxes EXCEPT ![i].inUse = TRUE]
         /\ recent' = Touched(i)
         /\ users' = [users EXCEPT ![u] = [pc |-> "use", image |-> m, id |-> i]]
         /\ jostled' = (jostled \/ emptying
                      \/ \E v \in PoolUsers : users[v].pc = "evict" /\ users[v].id = i)
    /\ peak' = IF Holding + 1 > peak THEN Holding + 1 ELSE peak

Unused == {k \in DOMAIN recent : ~boxes[recent[k]].inUse}

\* cleanupIfNeeded: the longest unused instance makes room, if there is one.
MakeRoom(u, m) ==
    /\ Available(m) = {}
    /\ IF Len(recent) >= MaxPool /\ Unused # {}
       THEN \E k \in Unused : /\ \A j \in Unused : k <= j
                              /\ users' = [users EXCEPT ![u] = [pc |-> "evict", image |-> m, id |-> recent[k]]]
       ELSE users' = [users EXCEPT ![u] = [pc |-> "init", image |-> m, id |-> 0]]
    /\ peak' = IF Holding + 1 > peak THEN Holding + 1 ELSE peak
    /\ jostled' = (jostled \/ emptying \/ \E v \in PoolUsers : Making(v))
    /\ UNCHANGED <<boxes, recent>>

PoolAcquire(u, m) ==
    /\ users[u].pc = "idle" /\ leases < MaxLeases /\ leases' = leases + 1
    /\ Reuse(u, m) \/ MakeRoom(u, m)
    /\ UNCHANGED emptying

\* removeInstance after its provider's stop.
Evicted(u) ==
    /\ users[u].pc = "evict"
    /\ boxes' = [boxes EXCEPT ![users[u].id].up = FALSE]
    /\ recent' = Removed(recent, users[u].id)
    /\ users' = [users EXCEPT ![u] = [@ EXCEPT !.pc = "init", !.id = 0]]
    /\ UNCHANGED <<emptying, leases, peak, jostled>>

PoolCreated(u) ==
    /\ users[u].pc = "init"
    /\ \/ /\ boxes' = Append(boxes, [image |-> users[u].image, inUse |-> TRUE, up |-> TRUE])
          /\ recent' = Append(recent, Len(boxes) + 1)
          /\ users' = [users EXCEPT ![u] = [@ EXCEPT !.pc = "use", !.id = Len(boxes) + 1]]
       \/ users' = [users EXCEPT ![u] = NoUser] /\ UNCHANGED <<boxes, recent>>
    /\ UNCHANGED <<emptying, leases, peak, jostled>>

\* The instance is released, if it is still in the pool or not.
PoolRelease(u) ==
    /\ users[u].pc = "use"
    /\ boxes' = [boxes EXCEPT ![users[u].id].inUse = FALSE]
    /\ recent' = IF users[u].id \in InPool THEN Touched(users[u].id) ELSE recent
    /\ users' = [users EXCEPT ![u] = NoUser]
    /\ UNCHANGED <<emptying, leases, peak, jostled>>

PoolStopAll ==
    /\ ~emptying /\ emptying' = TRUE
    /\ boxes' = [i \in DOMAIN boxes |->
                    IF i \in InPool THEN [boxes[i] EXCEPT !.up = FALSE] ELSE boxes[i]]
    /\ jostled' = (jostled \/ Holding > 0)
    /\ UNCHANGED <<recent, users, leases, peak>>

PoolStopAllEnds ==
    /\ emptying /\ emptying' = FALSE
    /\ recent' = <<>>
    /\ UNCHANGED <<boxes, users, leases, peak, jostled>>

NodePoolNext ==
    \/ PoolStopAll \/ PoolStopAllEnds
    \/ \E u \in PoolUsers : Evicted(u) \/ PoolCreated(u) \/ PoolRelease(u)
                             \/ \E m \in PoolImages : PoolAcquire(u, m)

PluginNext == \/ LoaderNext /\ UNCHANGED <<registryVars, nodePoolVars>>
              \/ RegistryNext /\ UNCHANGED <<loaderVars, nodePoolVars>>
              \/ NodePoolNext /\ UNCHANGED <<plugins, loaderVars, registryVars>>

PluginSpec == PluginInit /\ [][PluginNext]_pluginVars

-----------------------------------------------------------------------------
(* Properties.                                                             *)

LoaderQuiet == auto = "over" /\ fileEvents = {} /\ debounces = {} /\ pluginLoads = {}

\* With nothing under way in the loader, a type is registered if its file has
\* a good plugin, and only if there is a file: over every order of edits,
\* events, timers and imports, unless the file changed while nobody watched,
\* was removed while it was being loaded, or its first import failed for good
\* (loader.ts watchPlugins, autoLoadPlugins).
PluginsFollowFiles ==
    LoaderQuiet => \A t \in PluginTypes \ outrun :
        /\ pluginFiles[t] = "good" /\ imported[t] # "failed" => t \in plugins
        /\ t \in plugins => pluginFiles[t] # "absent"

\* As long as no two calls for its type overlap, an instance that is ready and
\* was not told to shut down is the one the registry holds, and the registry
\* hands out none that was told (registry.ts getInstance, stopInstance,
\* unregister, stopAll).
RegistryHoldsWhatRuns ==
    \A i \in DOMAIN made : made[i].type \notin crossed =>
        /\ made[i].state = "ready" /\ ~made[i].told => i \in InSlots
        /\ i \in InSlots /\ made[i].state = "ready" => ~made[i].told \/ stopsAll

\* No instance is leased twice.  Until an acquire meets an eviction, a
\* creation or stopAll, a lease's sandbox is up, and the pool is larger than
\* its size only by leases that were held at once (pool.ts acquire).
PoolLeasesHold ==
    /\ \A u, v \in PoolUsers : u # v /\ users[u].pc = "use" /\ users[v].pc = "use"
                               => users[u].id # users[v].id
    /\ ~jostled => /\ \A u \in PoolUsers : users[u].pc = "use" => boxes[users[u].id].up
                   /\ Len(recent) <= MaxPool \/ Len(recent) <= peak
=============================================================================
