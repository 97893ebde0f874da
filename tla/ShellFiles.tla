----------------------------- MODULE ShellFiles -----------------------------
(***************************************************************************)
(* The files a task made, as its page lists them: useAgent saves a row for *)
(* each file it finds in a result or a text after the message is shown,    *)
(* and the page reads messages and rows again whenever its messages change *)
(* (TaskDetail.tsx:390-545).  Which messages of a running task reach its   *)
(* page is ShellAgent's subject: here each one does.  Of the content that  *)
(* opens the sidebar by itself only the artifacts are modelled.            *)
(***************************************************************************)
EXTENDS Naturals, FiniteSets

CONSTANTS
    FileTasks,      \* task 1 runs, the others are over
    FilePaths,
    MaxFound,       \* bound: files the run finds
    MaxOpens,       \* bound: tasks opened
    MaxLists        \* bound: lists being read at a time

ASSUME FilesAssumption == 1 \in FileTasks /\ 1 \in FilePaths /\ MaxFound \in Nat /\ MaxOpens \in Nat

VARIABLES
    shownTask,      \* task of the page
    loadedTo,       \* "nothing", "task" or "messages": how far the page is loaded
    named,          \* files the page's messages name: [task, path]
    stored,         \* task -> files its stored messages name
    fileRows,       \* rows of files: [task, path]
    stage,          \* of the run: "reading", "over" or "stopped"
    found,          \* message being handled: [at, path, inMessage]
    finds,          \* number of files the run has found
    artifactLoads,  \* set of [nth, task, named, rows]
    listsBegun,     \* number of loads begun
    overtaken,      \* history: one was answered after a later one, or may yet be
    artifacts,      \* [task, path] of the list
    opens,          \* number of tasks opened
    visible,        \* the right sidebar
    hasAutoExpanded,
    expansions      \* history: times it opened itself for this task

fileVars == <<shownTask, loadedTo, named, stored, fileRows, stage, found, finds, artifactLoads, listsBegun,
              overtaken, artifacts, opens, visible, hasAutoExpanded, expansions>>
runVars == <<fileRows, stored, stage, found, finds>>
loadVars == <<artifactLoads, listsBegun, overtaken, artifacts>>
barVars == <<visible, hasAutoExpanded, expansions>>

TaskFiles == [task : FileTasks, path : FilePaths]
NoFind == [at |-> "none", path |-> 0, inMessage |-> FALSE]

FilesTypeOK ==
    /\ shownTask \in FileTasks /\ loadedTo \in {"nothing", "task", "messages"}
    /\ named \cup fileRows \cup artifacts \subseteq TaskFiles /\ stored \in [FileTasks -> SUBSET TaskFiles]
    /\ stage \in {"reading", "over", "stopped"} /\ found.at \in {"none", "called", "saving", "storing"}
    /\ found.path \in FilePaths \cup {0} /\ finds \in 0 .. MaxFound /\ opens \in 0 .. MaxOpens
    /\ \A l \in artifactLoads : l.nth \in 1 .. listsBegun /\ l.task \in FileTasks
    /\ {overtaken, visible, hasAutoExpanded} \subseteq BOOLEAN /\ expansions \in Nat

FilesInit ==
    /\ shownTask = 1 /\ loadedTo = "messages" /\ named = {}
    /\ fileRows \in SUBSET [task : FileTasks \ {1}, path : {1}]
    /\ stored = [t \in FileTasks |-> {f \in fileRows : f.task = t}]
    /\ stage = "reading" /\ found = NoFind /\ finds = 0
    /\ artifactLoads = {} /\ listsBegun = 0 /\ overtaken = FALSE /\ artifacts = {} /\ opens = 0
    /\ visible = FALSE /\ hasAutoExpanded = FALSE /\ expansions = 0

-----------------------------------------------------------------------------
(* The page.                                                               *)

\* The effect on messages and task: it reads the rows of the page's task, for
\* the messages it has then.
LoadArtifacts(names) ==
    /\ Cardinality(artifactLoads) < MaxLists
    /\ listsBegun' = listsBegun + 1
    /\ artifactLoads' = artifactLoads \cup
           {[nth |-> listsBegun + 1, task |-> shownTask, named |-> names, rows |-> fileRows]}

\* Variant for a mutation check: nothing is remembered of an expansion.
ForgetsExpansion == hasAutoExpanded

Expands == TRUE

\* The effect that opens the sidebar by itself, after a step.
AutoExpand(content) ==
    IF loadedTo' = "messages" /\ ~hasAutoExpanded /\ content
    THEN visible' = TRUE /\ hasAutoExpanded' = Expands /\ expansions' = expansions + 1
    ELSE UNCHANGED barVars

\* Variant for a mutation check: the list is read again for another task only.
OnlyForTask(shows) == FALSE

\* The list is read again when the messages change.
ReadAgain(shows) == shows

\* A message that names files, or none, reaches the run's page.
Shows(files) ==
    IF shownTask = 1 /\ loadedTo = "messages"
    THEN /\ named' = named \cup files
         /\ IF ReadAgain(TRUE) THEN LoadArtifacts(named \cup files) ELSE UNCHANGED <<artifactLoads, listsBegun>>
    ELSE UNCHANGED <<named, artifactLoads, listsBegun>>

\* An artifact list arrives, whatever the page shows by then.
ArtifactsAnswered ==
    \E l \in artifactLoads :
        \E r \in {l.rows, fileRows} :
            /\ artifactLoads' = artifactLoads \ {l}
            /\ artifacts' = l.named \cup {f \in r : f.task = l.task}
            /\ overtaken' = (overtaken \/ \E m \in artifactLoads : m.nth < l.nth)
            /\ UNCHANGED <<shownTask, loadedTo, named, runVars, listsBegun, opens>>
            /\ AutoExpand(artifacts' # {})

\* Another task is opened: the page drops its list and, if the old task goes
\* on in the background, its messages; the list is read at once, with the
\* messages the page had, and again when they are dropped.
OpenTaskPage(t) ==
    /\ t # shownTask /\ Cardinality(artifactLoads) < MaxLists /\ opens < MaxOpens /\ opens' = opens + 1
    /\ shownTask' = t /\ loadedTo' = "nothing" /\ artifacts' = {}
    /\ named' = (IF shownTask = 1 /\ stage = "reading" THEN {} ELSE named)
    /\ artifactLoads' = artifactLoads \cup
           {[nth |-> listsBegun + 1, task |-> t, named |-> named, rows |-> fileRows]} \cup
           (IF named' = named THEN {} ELSE {[nth |-> listsBegun + 2, task |-> t, named |-> {}, rows |-> fileRows]})
    /\ listsBegun' = (IF named' = named THEN listsBegun + 1 ELSE listsBegun + 2)
    /\ visible' = FALSE /\ hasAutoExpanded' = FALSE /\ expansions' = 0
    /\ UNCHANGED <<runVars, overtaken>>

TaskLoaded == /\ loadedTo = "nothing" /\ loadedTo' = "task"
              /\ UNCHANGED <<shownTask, named, runVars, loadVars, opens, barVars>>

MessagesLoaded ==
    /\ loadedTo = "task" /\ loadedTo' = "messages" /\ named' = stored[shownTask]
    /\ UNCHANGED <<shownTask, runVars, overtaken, artifacts, opens>>
    /\ LoadArtifacts(stored[shownTask]) /\ AutoExpand(artifacts # {})

ToggleSidebar == /\ visible' = ~visible
                 /\ UNCHANGED <<shownTask, loadedTo, named, runVars, loadVars, opens, hasAutoExpanded, expansions>>

-----------------------------------------------------------------------------
(* The run of task 1.                                                      *)

RunStep(shows) ==
    /\ UNCHANGED <<shownTask, loadedTo, fileRows, overtaken, artifacts, opens>>
    /\ Shows(shows) /\ AutoExpand(artifacts # {})

InRun(p) == {[task |-> 1, path |-> p]}

\* Variant for a mutation check: the stream is read on while a row is saved.
ReadsOn == TRUE

\* The next message is read when those before it are stored.
ReadsNext == found.at \in {"none", "called"}

Finds == /\ stage = "reading" /\ ReadsNext /\ found.at = "none" /\ finds < MaxFound
             /\ stage' = stage /\ finds' = finds + 1

\* A call of Write names its file; of Edit, Bash or Skill it does not.
CallFound ==
    \E p \in FilePaths, writes \in BOOLEAN :
        /\ found' = [at |-> "called", path |-> p, inMessage |-> writes] /\ Finds
        /\ stored' = (IF writes THEN [stored EXCEPT ![1] = @ \cup InRun(p)] ELSE stored)
        /\ RunStep(IF writes THEN InRun(p) ELSE {})

\* The result, which may name the file too.
ResultFound ==
    \E names \in BOOLEAN :
        /\ stage = "reading" /\ found.at = "called"
        /\ found' = [found EXCEPT !.at = "saving", !.inMessage = names]
        /\ UNCHANGED <<stage, stored, finds>> /\ RunStep(IF names THEN InRun(found.path) ELSE {})

\* A text that names a file.
TextFound ==
    \E p \in FilePaths :
        /\ found' = [at |-> "saving", path |-> p, inMessage |-> TRUE] /\ Finds
        /\ UNCHANGED stored /\ RunStep(InRun(p))

\* The row of the file is inserted, unless that fails; a stop comes too late.
ExtractAndSaveFiles ==
    /\ found.at = "saving" /\ found' = [found EXCEPT !.at = "storing"]
    /\ fileRows' \in {fileRows, fileRows \cup InRun(found.path)}
    /\ UNCHANGED <<shownTask, loadedTo, named, stored, stage, finds, loadVars, opens, barVars>>

StoreMessage ==
    /\ found.at = "storing" /\ found' = NoFind
    /\ stored' = (IF found.inMessage THEN [stored EXCEPT ![1] = @ \cup InRun(found.path)] ELSE stored)
    /\ UNCHANGED <<shownTask, loadedTo, named, fileRows, stage, finds, loadVars, opens, barVars>>

\* The summary of the run is a message too.
Finishes == /\ stage = "reading" /\ ReadsNext /\ stage' = "over"
            /\ UNCHANGED <<stored, found, finds>> /\ RunStep({})

StopRun == /\ stage = "reading" /\ stage' = "stopped"
           /\ UNCHANGED <<shownTask, loadedTo, named, stored, fileRows, found, finds, loadVars, opens, barVars>>

FilesNext == \/ ArtifactsAnswered \/ (\E t \in FileTasks : OpenTaskPage(t)) \/ TaskLoaded \/ MessagesLoaded
             \/ ToggleSidebar \/ CallFound \/ ResultFound \/ TextFound \/ ExtractAndSaveFiles \/ StoreMessage
             \/ Finishes \/ StopRun

FilesSpec == FilesInit /\ [][FilesNext]_fileVars

-----------------------------------------------------------------------------
(* Properties.                                                             *)

\* When a run has finished and no list is being read, the page's list has
\* the files its messages name and those with a row of its task, and no
\* others, unless one list was overtaken by another (TaskDetail.tsx:390-545).
ListIsComplete ==
    stage = "over" /\ loadedTo = "messages" /\ artifactLoads = {} /\ ~overtaken =>
        artifacts = named \cup {f \in fileRows : f.task = shownTask}

\* The sidebar opens by itself once for a task: closed, it stays closed
\* (TaskDetail.tsx:180-237).
OpensItselfOnce == expansions <= 1
=============================================================================
