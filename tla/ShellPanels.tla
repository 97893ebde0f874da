----------------------------- MODULE ShellPanels ----------------------------
(***************************************************************************)
(* The task page's right sidebar (components/task/RightSidebar.tsx): the   *)
(* files of the working directory, read again when the page says they      *)
(* changed, and what a click on one of them opens.  A read is cancelled by *)
(* the next one, a file's load by the next click that needs a load.        *)
(***************************************************************************)
EXTENDS Naturals, FiniteSets

CONSTANTS
    Dirs,           \* positive numbers: working directories
    TreeFiles,      \* files of the tree whose content is read
    MaxReloads,     \* bound: effects run
    MaxFileClicks   \* bound

ASSUME PanelAssumption == Dirs \subseteq Nat \ {0} /\ MaxReloads \in Nat /\ MaxFileClicks \in Nat

VARIABLES
    workingDir,     \* a directory, or 0
    disk,           \* directory -> number of files in it
    filesVersion,   \* moves when the page hears of a written file
    toldFiles,      \* history: disk when the version last moved there, or the artifacts changed
                    \* and no cache answered
    reload,         \* number of the last effect
    dirReads,       \* set of [dir, version, effect, got, count]
    dirCache,       \* [dir, version, count]
    workingFiles,   \* [dir, count, failed]: the list shown
    queuedFiles,    \* the list of a transition that is not rendered yet, or NoFiles
    loadingFiles,
    fileClicks,     \* number of clicks on files
    textClick,      \* history: the last of them that loads content, or 0
    fileLoads,      \* set of [file, click, at, aborted, here]
    controller,     \* activeFileLoadController: the click that owns it, or 0
    itemLoading,    \* files of the tree whose item shows a load
    openedBy        \* click that opened the artifact shown, or 0

toldVars == <<filesVersion, toldFiles>>
shownVars == <<dirCache, workingFiles, queuedFiles, loadingFiles>>
dirVars == <<workingDir, disk, toldVars, reload, dirReads, shownVars>>
panelVars == <<dirVars, fileClicks, textClick, fileLoads, controller, itemLoading, openedBy>>

NoFiles == [dir |-> 0, count |-> 0, failed |-> FALSE]
MaxOnDisk == 2

PanelTypeOK ==
    /\ workingDir \in Dirs \cup {0} /\ {disk, toldFiles} \subseteq [Dirs -> 0 .. MaxOnDisk]
    /\ filesVersion \in 0 .. MaxReloads /\ reload \in 0 .. MaxReloads
    /\ \A r \in dirReads : r.dir \in Dirs /\ r.effect \in 1 .. reload /\ r.got \in {"nothing", "files", "error"}
    /\ dirCache.dir \in Dirs \cup {0} /\ {workingFiles.dir, queuedFiles.dir} \subseteq Dirs \cup {0}
    /\ loadingFiles \in BOOLEAN
    /\ fileClicks \in 0 .. MaxFileClicks /\ {textClick, controller, openedBy} \subseteq 0 .. fileClicks
    /\ \A l \in fileLoads : /\ l.file \in TreeFiles /\ l.click \in 1 .. fileClicks
                            /\ l.at \in {"size", "content"} /\ {l.aborted, l.here} \subseteq BOOLEAN
    /\ itemLoading \subseteq TreeFiles

PanelInit ==
    /\ workingDir = 0 /\ disk = [d \in Dirs |-> 1] /\ filesVersion = 0 /\ toldFiles = [d \in Dirs |-> 0]
    /\ queuedFiles = NoFiles /\ reload = 0 /\ dirReads = {} /\ dirCache = [dir |-> 0, version |-> 0, count |-> 0]
    /\ workingFiles = NoFiles /\ loadingFiles = FALSE
    /\ fileClicks = 0 /\ textClick = 0 /\ fileLoads = {} /\ controller = 0 /\ itemLoading = {} /\ openedBy = 0

-----------------------------------------------------------------------------
(* The working directory's files.                                          *)

\* Variant for a mutation check: the cache does not know the version.
SameDir(d) == dirCache.dir = d /\ dirCache.count > 0

Cached(d) == dirCache.dir = d /\ dirCache.version = filesVersion' /\ dirCache.count > 0

\* While files are being read the tree is not there: its items lose their
\* state, their loads go on.
TreeGoes == itemLoading' = {} /\ fileLoads' = {[l EXCEPT !.here = FALSE] : l \in fileLoads}

\* An item is kept by its path: those of another directory's list, and of a list
\* that becomes empty, go.
ListBecomes(files) ==
    /\ workingFiles' = files /\ queuedFiles' = NoFiles
    /\ IF files.dir = workingFiles.dir /\ files.count > 0 THEN UNCHANGED <<itemLoading, fileLoads>> ELSE TreeGoes

\* The effect on the directory, the number of artifacts and the version.  A list
\* it sets is set after a queued one, and is what is shown.
LoadWorkingFiles(d) ==
    /\ reload < MaxReloads /\ reload' = reload + 1
    /\ CASE d = 0 -> ListBecomes(NoFiles) /\ loadingFiles' = FALSE /\ UNCHANGED dirReads
         [] d # 0 /\ Cached(d) ->
                     /\ ListBecomes([dir |-> d, count |-> dirCache.count, failed |-> FALSE])
                     /\ loadingFiles' = FALSE /\ UNCHANGED dirReads
         [] OTHER -> /\ dirReads' = dirReads \cup
                            {[dir |-> d, version |-> filesVersion', effect |-> reload',
                             got |-> "nothing", count |-> 0]}
                     /\ loadingFiles' = TRUE /\ TreeGoes /\ UNCHANGED <<workingFiles, queuedFiles>>
    /\ UNCHANGED <<dirCache, fileClicks, textClick, controller, openedBy>>

\* Another task is opened, or the task's folder becomes known.
DirChanges ==
    \E d \in (Dirs \cup {0}) \ {workingDir} :
        /\ workingDir' = d /\ UNCHANGED <<disk, toldVars>> /\ LoadWorkingFiles(d)

\* The run's tools write a file; the page hears of it with the result.
FileWritten ==
    /\ workingDir # 0 /\ disk[workingDir] < MaxOnDisk
    /\ disk' = [disk EXCEPT ![workingDir] = @ + 1]
    /\ UNCHANGED <<workingDir, toldVars, reload, dirReads, shownVars>>
    /\ UNCHANGED <<fileClicks, textClick, fileLoads, controller, itemLoading, openedBy>>

\* What the page was told of by now: the files there are.
Told(before) == [d \in Dirs |-> IF d = workingDir THEN disk[d] ELSE before[d]]

\* The result of a tool that writes files, or attachments that were saved.
VersionMoves ==
    /\ filesVersion' = filesVersion + 1 /\ LoadWorkingFiles(workingDir)
    /\ toldFiles' = Told(toldFiles) /\ UNCHANGED <<workingDir, disk>>

\* The artifacts are made from the messages, whichever tool wrote the file.
ArtifactsAdded ==
    /\ UNCHANGED <<workingDir, disk, filesVersion>> /\ LoadWorkingFiles(workingDir)
    /\ toldFiles' = IF Cached(workingDir) THEN toldFiles ELSE Told(toldFiles)

\* The API reads the directory, or fails to: the answer is then an empty list.
ApiReads ==
    \E r \in dirReads, ok \in BOOLEAN :
        /\ r.got = "nothing"
        /\ dirReads' = (dirReads \ {r}) \cup
               {IF ok THEN [r EXCEPT !.got = "files", !.count = disk[r.dir]] ELSE [r EXCEPT !.got = "error"]}
        /\ UNCHANGED <<workingDir, disk, toldVars, reload, shownVars>>
        /\ UNCHANGED <<fileClicks, textClick, fileLoads, controller, itemLoading, openedBy>>

\* Variant for a mutation check: nothing cancels a read.
NotCancelled(r) == FALSE

\* The effect's cleanup cancels the read it made.
Cancelled(r) == r.effect # reload

\* The load is over at once; the list is queued as a transition.
DirAnswers ==
    \E r \in dirReads :
        /\ r.got # "nothing" /\ dirReads' = dirReads \ {r}
        /\ IF Cancelled(r) THEN UNCHANGED shownVars
           ELSE /\ dirCache' = [dir |-> r.dir, version |-> r.version, count |-> r.count]
                /\ queuedFiles' = [dir |-> r.dir, count |-> r.count, failed |-> r.got = "error"]
                /\ loadingFiles' = FALSE /\ UNCHANGED workingFiles
        /\ UNCHANGED <<workingDir, disk, toldVars, reload>>
        /\ UNCHANGED <<fileClicks, textClick, fileLoads, controller, itemLoading, openedBy>>

\* React renders the transition, of low priority, some time later.
TransitionRenders ==
    /\ queuedFiles # NoFiles /\ ListBecomes(queuedFiles)
    /\ UNCHANGED <<workingDir, disk, toldVars, reload, dirReads, dirCache, loadingFiles>>
    /\ UNCHANGED <<fileClicks, textClick, controller, openedBy>>

-----------------------------------------------------------------------------
(* Clicks on files.                                                        *)

TreeShown == workingDir # 0 /\ ~loadingFiles /\ workingFiles.count > 0

\* Variant for a mutation check: a click leaves the load before it alone.
LetsLoad(l) == l

Aborts(l) == IF l.click = controller THEN [l EXCEPT !.aborted = TRUE] ELSE l

\* A file whose content is not read opens at once; a load of another goes on.
ClickBinary ==
    /\ TreeShown /\ fileClicks < MaxFileClicks
    /\ fileClicks' = fileClicks + 1 /\ openedBy' = fileClicks + 1
    /\ UNCHANGED <<textClick, fileLoads, controller, itemLoading, dirVars>>

ClickText ==
    /\ TreeShown /\ fileClicks < MaxFileClicks
    /\ \E f \in TreeFiles \ itemLoading :
         /\ fileClicks' = fileClicks + 1 /\ textClick' = fileClicks + 1 /\ controller' = fileClicks + 1
         /\ fileLoads' = {Aborts(l) : l \in fileLoads} \cup
                {[file |-> f, click |-> fileClicks + 1, at |-> "size", aborted |-> FALSE, here |-> TRUE]}
         /\ itemLoading' = itemLoading \cup {f}
    /\ UNCHANGED <<openedBy, dirVars>>

\* Variant for a mutation check: only the active load's end is shown.
ResetsActive(l) == l.here /\ controller = l.click

\* A load that was aborted, or found the file too large, ends its item's state
\* itself, one that read the file while it is the active one.
Resets(l) == l.here /\ (l.aborted \/ l.at = "size" \/ controller = l.click)

EndLoad(l) ==
    /\ fileLoads' = fileLoads \ {l}
    /\ itemLoading' = (IF Resets(l) THEN itemLoading \ {l.file} ELSE itemLoading)
    /\ controller' = (IF controller = l.click THEN 0 ELSE controller)

SizeKnown ==
    \E l \in fileLoads, large \in BOOLEAN :
        /\ l.at = "size"
        /\ IF l.aborted \/ large
           THEN EndLoad(l) /\ openedBy' = (IF l.aborted THEN openedBy ELSE l.click)
           ELSE /\ fileLoads' = (fileLoads \ {l}) \cup {[l EXCEPT !.at = "content"]}
                /\ UNCHANGED <<itemLoading, controller, openedBy>>
        /\ UNCHANGED <<fileClicks, textClick, dirVars>>

ContentRead ==
    \E l \in fileLoads :
        /\ l.at = "content" /\ EndLoad(l)
        /\ openedBy' = (IF l.aborted THEN openedBy ELSE l.click)
        /\ UNCHANGED <<fileClicks, textClick, dirVars>>

\* The preview is closed, or another task is opened.
ClosePreview == /\ openedBy # 0 /\ openedBy' = 0
                /\ UNCHANGED <<fileClicks, textClick, fileLoads, controller, itemLoading, dirVars>>

PanelNext == \/ DirChanges \/ FileWritten \/ VersionMoves \/ ArtifactsAdded \/ ApiReads \/ DirAnswers \/ TransitionRenders
             \/ ClickBinary \/ ClickText \/ SizeKnown \/ ContentRead \/ ClosePreview

PanelSpec == PanelInit /\ [][PanelNext]_panelVars

-----------------------------------------------------------------------------
(* Properties.                                                             *)

AtRest == workingDir # 0 /\ ~loadingFiles /\ queuedFiles = NoFiles

\* The files shown at rest, no read under way and no list queued, are those of
\* the page's directory, with every file that was there when the version last
\* moved or the artifacts last changed, unless the read of them failed.  The one
\* exception: a change of the artifacts that finds the directory cached under the
\* same version is answered from the cache, although the comment on the effect
\* promises a refresh (RightSidebar.tsx:1065-1131, the comment at 1073).
FilesAreTheDirs ==
    AtRest =>
        /\ workingFiles.dir = workingDir
        /\ workingFiles.count >= toldFiles[workingDir] \/ workingFiles.failed

\* Once the load of the text file clicked last is over, what is open is not
\* from a click before it (RightSidebar.tsx:497-604).
LastClickWins ==
    (\A l \in fileLoads : l.click # textClick) /\ openedBy # 0 => openedBy >= textClick

\* An item of the tree shows a load, and takes no click, exactly while one of
\* its own goes on (RightSidebar.tsx:553-606).
ItemsShowTheirLoads == itemLoading = {l.file : l \in {m \in fileLoads : m.here}}
=============================================================================
