---------------------------- MODULE NodePreview ----------------------------
(***************************************************************************)
(* Live previews of the shell's Node API: the preview manager              *)
(* (shared/services/preview.ts) behind its routes (api/preview.ts).  It    *)
(* runs one Vite process for a task, on a port of its own, and starts it   *)
(* in the background while requests go on.                                 *)
(***************************************************************************)
EXTENDS Naturals, FiniteSets

CONSTANTS
    PreviewTasks,       \* tasks
    MaxPreviews,        \* MAX_CONCURRENT_PREVIEWS
    MaxPort,            \* ports are 1 .. MaxPort
    MaxStarts,          \* bound: starts of a server
    MaxChecks           \* bound: health checks of an instance under way at once

ASSUME PreviewAssumption == {MaxPreviews, MaxPort, MaxStarts, MaxChecks} \subseteq Nat

VARIABLES
    previews,       \* every PreviewInstance made: id -> record
    current,        \* instances: task -> id, 0 for none
    usedPorts,
    config,         \* vite.config.js: task -> port, 0 before the first
    vites,          \* Vite processes alive: set of [id, port, doomed]
    unsettled       \* history: a start, stop or failure met a server that had not settled,
                    \* or a late one took what a newer server has

previewVars == <<previews, current, usedPorts, config, vites, unsettled>>

PreviewStatuses == {"starting", "running", "stopped", "error"}
Ids == DOMAIN previews

PreviewTypeOK ==
    /\ Ids = 1 .. Cardinality(Ids)
    /\ \A i \in Ids :
         /\ previews[i].task \in PreviewTasks /\ previews[i].port \in 1 .. MaxPort
         /\ previews[i].status \in PreviewStatuses
         /\ previews[i].phase \in {"files", "install", "wait", "over"}
         /\ {previews[i].process, previews[i].health, previews[i].idle} \subseteq BOOLEAN
         /\ previews[i].checks \in 0 .. MaxChecks
    /\ current \in [PreviewTasks -> {0} \cup Ids]
    /\ usedPorts \subseteq 1 .. MaxPort /\ config \in [PreviewTasks -> 0 .. MaxPort]
    /\ \A v \in vites : v.id \in Ids /\ v.port \in 1 .. MaxPort /\ v.doomed \in BOOLEAN
    /\ unsettled \in BOOLEAN

PreviewInit ==
    /\ previews = <<>> /\ current = [t \in PreviewTasks |-> 0] /\ usedPorts = {}
    /\ config = [t \in PreviewTasks |-> 0] /\ vites = {}
    /\ unsettled = FALSE

-----------------------------------------------------------------------------
(* The manager.                                                            *)

Live == {i \in Ids : \E t \in PreviewTasks : current[t] = i /\ previews[i].status \in {"starting", "running"}}

\* Variant for a mutation check: the process is only forgotten.
NotKilled(S) == vites

\* The process gets a SIGTERM; it ends when it ends.
KilledOf(S) == {IF v.id \in S /\ previews[v.id].process THEN [v EXCEPT !.doomed = TRUE] ELSE v : v \in vites}

\* A cleaned-up instance: its timers and its process are gone; a health check
\* under way goes on.
Bare(p, s) == [p EXCEPT !.status = s, !.process = FALSE, !.health = FALSE, !.idle = FALSE]

\* Variant for a mutation check: the port stays taken.
PortKept(S) == usedPorts

\* releasePort: whoever has the port by now.
PortsWithout(S) == usedPorts \ {previews[i].port : i \in S}

\* The entries of the instances' tasks, whichever instances they hold by now.
EntriesWithout(S) == [t \in PreviewTasks |-> IF \E i \in S : previews[i].task = t THEN 0 ELSE current[t]]

\* The instances are not what their ports and entries are for, or not done starting.
Crosses(S) == \E i \in S :
    \/ current[previews[i].task] # i \/ previews[i].port \notin usedPorts
    \/ previews[i].phase \in {"files", "install", "wait"} /\ previews[i].status # "error"
    \/ \E j \in Live \ {i} : previews[j].port = previews[i].port

\* cleanup of the instances, which then have status s.
Cleanup(S, s) ==
    /\ previews' = [i \in Ids |-> IF i \in S THEN Bare(previews[i], s) ELSE previews[i]]
    /\ vites' = KilledOf(S)
    /\ usedPorts' = PortsWithout(S)
    /\ current' = EntriesWithout(S)

Held(S) == {current[t] : t \in S} \ {0}

\* stopPreview and stopAll.
StopTasks(S) == Cleanup(Held(S), "stopped") /\ unsettled' = (unsettled \/ Crosses(Held(S)))

NoOne == [task |-> 0, port |-> 0, status |-> "stopped", phase |-> "over", process |-> FALSE, health |-> FALSE,
          checks |-> 0, idle |-> FALSE]
Entry(t) == IF current[t] = 0 THEN NoOne ELSE previews[current[t]]

\* Variant for a mutation check: one preview too many.
FullAboveLimit == Cardinality(Live) > MaxPreviews

Full == Cardinality(Live) >= MaxPreviews

\* The preview that makes room: the running one unused for longest, which the
\* model does not tell from the others; 0 when none runs.
MakesRoom == IF ~Full THEN {0}
             ELSE LET running == {i \in Live : previews[i].status = "running"} IN IF running = {} THEN {0} ELSE running

Lowest(S) == CHOOSE n \in S : \A m \in S : n <= m

\* startPreview when the task's preview runs: its idle time starts again.
StartAgain(t) ==
    /\ Entry(t).status = "running"
    /\ previews' = [previews EXCEPT ![current[t]].idle = TRUE]
    /\ UNCHANGED <<current, usedPorts, config, vites, unsettled>>

\* startPreview: an instance with the lowest free port takes the task's
\* entry, also from one that is starting or has failed.
StartNew(t) ==
    /\ Entry(t).status # "running" /\ Cardinality(Ids) < MaxStarts
    /\ \E room \in MakesRoom :
         LET gone == {room} \ {0}
             freed == PortsWithout(gone)
             free == (1 .. MaxPort) \ freed
             new == Cardinality(Ids) + 1
         IN
         /\ Full => room # 0
         /\ free # {}
         /\ previews' = [i \in Ids \cup {new} |->
              IF i = new THEN [task |-> t, port |-> Lowest(free), status |-> "starting", phase |-> "files",
                               process |-> FALSE, health |-> FALSE, checks |-> 0, idle |-> FALSE]
              ELSE IF i \in gone THEN Bare(previews[i], "stopped") ELSE previews[i]]
         /\ vites' = KilledOf(gone)
         /\ usedPorts' = freed \cup {Lowest(free)}
         /\ current' = [EntriesWithout(gone) EXCEPT ![t] = new]
         /\ unsettled' = (unsettled \/ Crosses(gone) \/ Entry(t).status = "starting")
    /\ UNCHANGED config

\* No preview can make room, or no port is free.
StartRefused(t) ==
    /\ Entry(t).status # "running"
    /\ (Full /\ MakesRoom = {0}) \/ (~Full /\ usedPorts = 1 .. MaxPort)
    /\ UNCHANGED <<previews, current, usedPorts, config, vites, unsettled>>

\* ensureProjectFiles: the task's directory has one configuration, which every
\* server of the task reads.
WriteFiles(i) ==
    /\ previews[i].phase = "files"
    /\ previews' = [previews EXCEPT ![i].phase = "install"]
    /\ config' = [config EXCEPT ![previews[i].task] = previews[i].port]
    /\ UNCHANGED <<current, usedPorts, vites, unsettled>>

\* The files cannot be written, or npm fails or takes two minutes: the port is
\* released, and the instance keeps its entry.
InstallFails(i) ==
    /\ previews[i].phase \in {"files", "install"}
    /\ previews' = [previews EXCEPT ![i].phase = "over", ![i].status = "error"]
    /\ usedPorts' = PortsWithout({i})
    /\ UNCHANGED <<current, config, vites, unsettled>>

\* Nothing here looks whether the preview has been stopped meanwhile.
Spawn(i) ==
    /\ previews[i].phase = "install"
    /\ previews' = [previews EXCEPT ![i].phase = "wait", ![i].process = TRUE]
    /\ vites' = vites \cup {[id |-> i, port |-> config[previews[i].task], doomed |-> FALSE]}
    /\ UNCHANGED <<current, usedPorts, config, unsettled>>

\* A server that does not find its port free exits (strictPort).
Bound(v) == \A w \in vites \ {v} : w.port = v.port => w.id > v.id

\* waitForServerReady: whichever server answers on the port.
Ready(i) ==
    /\ previews[i].phase = "wait"
    /\ \E v \in vites : v.port = previews[i].port /\ Bound(v)
    /\ previews' = [previews EXCEPT ![i].phase = "over", ![i].status = "running", ![i].health = TRUE, ![i].idle = TRUE]
    /\ unsettled' = (unsettled \/ current[previews[i].task] # i)
    /\ UNCHANGED <<current, usedPorts, config, vites>>

\* Two minutes without an answer.
NotReady(i) ==
    /\ previews[i].phase = "wait"
    /\ previews' = [previews EXCEPT ![i] = [Bare(@, "error") EXCEPT !.phase = "over"]]
    /\ vites' = KilledOf({i}) /\ usedPorts' = PortsWithout({i}) /\ current' = EntriesWithout({i})
    /\ unsettled' = (unsettled \/ current[previews[i].task] # i)
    /\ UNCHANGED config

\* The process ends, on its own or because it was told to.
ViteCloses(v) ==
    /\ IF previews[v.id].status \in {"running", "starting"}
       THEN /\ previews' = [previews EXCEPT ![v.id] = Bare(@, "stopped")]
            /\ usedPorts' = PortsWithout({v.id}) /\ current' = EntriesWithout({v.id})
            /\ unsettled' = (unsettled \/ Crosses({v.id}))
       ELSE UNCHANGED <<previews, usedPorts, current, unsettled>>
    /\ vites' = vites \ {v}
    /\ UNCHANGED config

\* The health timer looks at the status once, before it asks the server.
LookAtHealth(i) ==
    /\ previews[i].health /\ previews[i].status = "running" /\ previews[i].checks < MaxChecks
    /\ previews' = [previews EXCEPT ![i].checks = @ + 1]
    /\ UNCHANGED <<current, usedPorts, config, vites, unsettled>>

CheckPasses(i) ==
    /\ previews[i].checks > 0
    /\ previews' = [previews EXCEPT ![i].checks = @ - 1]
    /\ UNCHANGED <<current, usedPorts, config, vites, unsettled>>

\* A newer server of the task, or one that has the port by now.
TakesFromAnother(i) ==
    \E j \in Live \ {i} : previews[j].task = previews[i].task \/ previews[j].port = previews[i].port

\* One failure is enough, and the status is not looked at again: what failed
\* may have been stopped and started anew meanwhile.
CheckFails(i) ==
    /\ previews[i].checks > 0
    /\ previews' = [previews EXCEPT ![i] = Bare([previews[i] EXCEPT !.checks = @ - 1], "error")]
    /\ vites' = KilledOf({i}) /\ usedPorts' = PortsWithout({i}) /\ current' = EntriesWithout({i})
    /\ unsettled' = (unsettled \/ TakesFromAnother(i))
    /\ UNCHANGED config

\* Half an hour without a look: the task's preview is stopped, which need not
\* be the one whose timer this is.
IdleFires(i) ==
    /\ previews[i].idle
    /\ IF current[previews[i].task] # 0 THEN StopTasks({previews[i].task})
       ELSE /\ previews' = [previews EXCEPT ![i].idle = FALSE]
            /\ UNCHANGED <<vites, usedPorts, current, unsettled>>
    /\ UNCHANGED config

\* /preview/stop-all, and the server's end.
StopEverything ==
    /\ Held(PreviewTasks) # {}
    /\ StopTasks(PreviewTasks)
    /\ UNCHANGED config

-----------------------------------------------------------------------------
(* The routes.                                                             *)

PreviewStart == \E t \in PreviewTasks : StartAgain(t) \/ StartNew(t) \/ StartRefused(t)

PreviewStop == /\ \E t \in PreviewTasks : StopTasks({t})
               /\ UNCHANGED config

\* A look starts the idle time again, whatever the instance's status.
PreviewLook ==
    /\ \E t \in PreviewTasks : current[t] # 0 /\ previews' = [previews EXCEPT ![current[t]].idle = TRUE]
    /\ UNCHANGED <<current, usedPorts, config, vites, unsettled>>

PreviewNext ==
    \/ \E i \in Ids : \/ WriteFiles(i) \/ InstallFails(i) \/ Spawn(i) \/ Ready(i) \/ NotReady(i)
                      \/ LookAtHealth(i) \/ CheckPasses(i) \/ CheckFails(i) \/ IdleFires(i)
    \/ \E v \in vites : ViteCloses(v)
    \/ StopEverything \/ PreviewStart \/ PreviewStop \/ PreviewLook

PreviewSpec == PreviewInit /\ [][PreviewNext]_previewVars

-----------------------------------------------------------------------------
(* Properties.                                                             *)

\* No more previews start and run than the limit, over every order of starts,
\* stops, failures and timers.
PreviewsLimited == Cardinality(Live) <= MaxPreviews

\* Until a start, a stop or a failure meets a server that has not settled, or
\* a health check that fails late takes a newer server's port or entry
\* (preview.ts:582-595): the ports taken are those of the previews there are,
\* each its own; and a process that was not told to end belongs to one of
\* them and is on its port.
PreviewsOwnPorts == ~unsettled =>
    /\ usedPorts = {previews[i].port : i \in Live}
    /\ \A i, j \in Live : previews[i].port = previews[j].port => i = j
    /\ \A v \in vites : v.doomed \/ (v.id \in Live /\ v.port = previews[v.id].port)
=============================================================================
