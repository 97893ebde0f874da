----------------------------- MODULE ShellProofs -----------------------------
(***************************************************************************)
(* Proofs about the shell's components, for every value of their           *)
(* constants: the right sidebar, the model settings, the MCP servers, the   *)
(* settings' storage and the task store.                                   *)
(***************************************************************************)
EXTENDS ShellPanels, ShellModels, McpConfig, ShellSettings, ShellStore, WellFoundedInduction, TLAPS

-----------------------------------------------------------------------------
(* ShellPanels: only the last click's load is not aborted, and only the    *)
(* last effect's read is not cancelled.                                    *)

LoadType == [file : TreeFiles, click : Nat, at : {"size", "content"}, aborted : BOOLEAN, here : BOOLEAN]

ClickOf(l) ==
    /\ l.click <= textClick /\ l.click # 0
    /\ \/ l.click # textClick /\ l.aborted = TRUE
       \/ l.click = textClick /\ l.aborted = FALSE /\ controller = l.click

\* The clicks on files: only the last that loads content is not aborted, and an
\* item of the tree has one load at most.
ClickInv ==
    /\ fileClicks \in 0 .. MaxFileClicks /\ textClick \in 0 .. fileClicks /\ controller \in 0 .. fileClicks /\ openedBy \in 0 .. fileClicks
    /\ fileLoads \subseteq LoadType /\ itemLoading \subseteq TreeFiles
    /\ \A l \in fileLoads : ClickOf(l)
    /\ \A l, m \in fileLoads : l.click = m.click => l = m
    /\ \A l, m \in fileLoads : l.here /\ m.here /\ l.file = m.file => l = m
    /\ LastClickWins
    /\ ItemsShowTheirLoads

clickVars == <<fileClicks, textClick, fileLoads, controller, itemLoading, openedBy>>

LEMMA ClickStays == ASSUME ClickInv, UNCHANGED clickVars PROVE ClickInv'
  BY DEF ClickInv, ClickOf, clickVars, LastClickWins, ItemsShowTheirLoads

\* The loads of items that are gone go on for nobody.
LEMMA TreeGoesKeeps ==
    ASSUME ClickInv, TreeGoes, UNCHANGED <<fileClicks, textClick, controller, openedBy>>
    PROVE  ClickInv'
<1> DEFINE leaves(l) == [l EXCEPT !.here = FALSE]
<1>1. fileLoads' = {leaves(l) : l \in fileLoads} /\ itemLoading' = {}
  BY DEF TreeGoes
<1>2. ASSUME NEW l \in fileLoads
      PROVE  /\ leaves(l) \in LoadType /\ leaves(l).click = l.click /\ leaves(l).aborted = l.aborted
             /\ leaves(l).here = FALSE
  BY DEF ClickInv, LoadType
<1> HIDE DEF leaves
<1>3. fileLoads' \subseteq LoadType
  BY <1>1, <1>2
<1>4. ASSUME NEW m \in fileLoads' PROVE ClickOf(m)' /\ m.here = FALSE
  <2>1. PICK l \in fileLoads : m = leaves(l)
    BY <1>1
  <2>2. m.click = l.click /\ m.aborted = l.aborted /\ m.here = FALSE /\ ClickOf(l)
    BY <1>2, <2>1 DEF ClickInv
  <2> QED
    BY <2>2 DEF ClickOf
<1>5. ASSUME NEW l \in fileLoads', NEW m \in fileLoads', l.click = m.click PROVE l = m
  <2>1. PICK k \in fileLoads, n \in fileLoads : l = leaves(k) /\ m = leaves(n)
    BY <1>1
  <2> QED
    BY <1>2, <1>5, <2>1 DEF ClickInv
<1>6. LastClickWins'
  <2> SUFFICES ASSUME \A l \in fileLoads' : l.click # textClick, openedBy # 0 PROVE openedBy >= textClick
    BY DEF LastClickWins
  <2>1. \A l \in fileLoads : l.click # textClick
    BY <1>1, <1>2
  <2> QED
    BY <2>1 DEF ClickInv, LastClickWins
<1>7. ItemsShowTheirLoads'
  BY <1>1, <1>4 DEF ItemsShowTheirLoads
<1> QED
  <2>1. \A l \in fileLoads' : ClickOf(l)' /\ ~l.here
    BY <1>4
  <2>2. \A l, m \in fileLoads' : l.click = m.click => l = m
    BY <1>5
  <2> QED
    BY <1>1, <1>3, <1>6, <1>7, <2>1, <2>2 DEF ClickInv

LEMMA DirKeepsClicks ==
    ASSUME ClickInv, NEW d, LoadWorkingFiles(d) PROVE ClickInv'
<1>1. UNCHANGED <<fileClicks, textClick, controller, openedBy>> /\ (TreeGoes \/ UNCHANGED <<itemLoading, fileLoads>>)
  BY DEF LoadWorkingFiles, ListBecomes
<1> QED
  BY <1>1, TreeGoesKeeps, ClickStays DEF clickVars

LEMMA ClickBinaryKeeps == ASSUME ClickInv, ClickBinary PROVE ClickInv'
<1>1. /\ fileClicks < MaxFileClicks /\ fileClicks' = fileClicks + 1 /\ openedBy' = fileClicks + 1
      /\ UNCHANGED <<textClick, fileLoads, controller, itemLoading>>
  BY DEF ClickBinary
<1>2. \A l \in fileLoads' : ClickOf(l)'
  BY <1>1 DEF ClickInv, ClickOf
<1>3. LastClickWins' /\ ItemsShowTheirLoads'
  BY <1>1 DEF ClickInv, LastClickWins, ItemsShowTheirLoads
<1>4. /\ fileClicks' \in 0 .. MaxFileClicks /\ textClick' \in 0 .. fileClicks' /\ controller' \in 0 .. fileClicks'
      /\ openedBy' \in 0 .. fileClicks'
  BY <1>1, PanelAssumption DEF ClickInv
<1> QED
  BY <1>1, <1>2, <1>3, <1>4 DEF ClickInv

LEMMA ClickTextKeeps == ASSUME ClickInv, ClickText PROVE ClickInv'
<1>1. PICK f \in TreeFiles \ itemLoading :
         /\ fileClicks' = fileClicks + 1 /\ textClick' = fileClicks + 1 /\ controller' = fileClicks + 1
         /\ fileLoads' = {Aborts(l) : l \in fileLoads} \cup
                {[file |-> f, click |-> fileClicks + 1, at |-> "size", aborted |-> FALSE, here |-> TRUE]}
         /\ itemLoading' = itemLoading \cup {f} /\ UNCHANGED openedBy
  BY DEF ClickText
<1> DEFINE new == [file |-> f, click |-> fileClicks + 1, at |-> "size", aborted |-> FALSE, here |-> TRUE]
<1>2. /\ new \in LoadType /\ new.file = f /\ new.click = fileClicks + 1 /\ new.aborted = FALSE /\ new.here = TRUE
  BY DEF LoadType, ClickInv
<1>3. fileLoads' = {Aborts(l) : l \in fileLoads} \cup {new}
  BY <1>1
<1> HIDE DEF new
<1>4. ASSUME NEW l \in fileLoads
      PROVE  /\ Aborts(l) \in LoadType /\ Aborts(l).click = l.click /\ Aborts(l).aborted = TRUE
             /\ Aborts(l).here = l.here /\ Aborts(l).file = l.file /\ l.click < fileClicks + 1 /\ l.click # 0
  <2>1. l \in LoadType /\ ClickOf(l) /\ textClick \in 0 .. fileClicks /\ fileClicks \in Nat
    BY DEF ClickInv
  <2>2. l.click < fileClicks + 1 /\ l.click # 0
    BY <2>1 DEF LoadType, ClickOf
  <2>3. [l EXCEPT !.aborted = TRUE] \in LoadType
    BY <2>1 DEF LoadType
  <2>4. CASE l.aborted = TRUE
    BY <2>1, <2>2, <2>3, <2>4 DEF LoadType, Aborts
  <2>5. CASE l.click = controller
    BY <2>1, <2>2, <2>3, <2>5 DEF LoadType, Aborts
  <2> QED
    BY <2>1, <2>4, <2>5 DEF ClickOf
<1> DEFINE old == {Aborts(l) : l \in fileLoads}
<1>5. fileLoads' \subseteq LoadType
  BY <1>2, <1>3, <1>4
<1>6. ASSUME NEW m \in fileLoads' PROVE ClickOf(m)'
  <2>1. CASE m = new
    BY <1>1, <1>2, <2>1 DEF ClickOf, ClickInv
  <2>2. ASSUME NEW l \in fileLoads, m = Aborts(l) PROVE ClickOf(m)'
    <3>1. l.click \in Nat /\ fileClicks \in Nat
      BY DEF ClickInv, LoadType
    <3>2. m.click = l.click /\ m.aborted = TRUE /\ l.click < fileClicks + 1 /\ l.click # 0
      BY <1>4, <2>2
    <3> QED
      BY <1>1, <3>1, <3>2 DEF ClickOf
  <2> QED
    BY <1>3, <2>1, <2>2
<1>7. ASSUME NEW l \in fileLoads', NEW m \in fileLoads', l.click = m.click PROVE l = m
  <2>1. ASSUME NEW k \in fileLoads PROVE Aborts(k).click # new.click
    <3>1. k.click \in Nat /\ fileClicks \in Nat
      BY DEF ClickInv, LoadType
    <3>2. Aborts(k).click = k.click /\ k.click < fileClicks + 1
      BY <1>4
    <3> QED
      BY <1>2, <3>1, <3>2
  <2>2. ASSUME NEW k \in fileLoads, NEW n \in fileLoads, Aborts(k).click = Aborts(n).click PROVE k = n
    <3>1. Aborts(k).click = k.click /\ Aborts(n).click = n.click
      BY <1>4
    <3> QED
      BY <2>2, <3>1 DEF ClickInv
  <2> QED
    BY <1>3, <1>7, <2>1, <2>2
<1>8. \A l \in fileLoads : l.here => l.file # f
  BY <1>1 DEF ClickInv, ItemsShowTheirLoads
<1>9. ASSUME NEW l \in fileLoads', NEW m \in fileLoads', l.here, m.here, l.file = m.file PROVE l = m
  <2>1. ASSUME NEW k \in fileLoads, Aborts(k).here PROVE Aborts(k).file # new.file
    BY <1>2, <1>4, <1>8, <2>1
  <2>2. ASSUME NEW k \in fileLoads, NEW n \in fileLoads, Aborts(k).here, Aborts(n).here,
               Aborts(k).file = Aborts(n).file
        PROVE  k = n
    BY <1>4, <2>2 DEF ClickInv
  <2> QED
    BY <1>3, <1>9, <2>1, <2>2
<1>10. LastClickWins'
  BY <1>1, <1>2, <1>3 DEF LastClickWins
<1>11. ItemsShowTheirLoads'
  <2> DEFINE showing(ls) == {l.file : l \in {m \in ls : m.here}}
  <2>1. itemLoading = showing(fileLoads)
    BY DEF ClickInv, ItemsShowTheirLoads
  <2>2. ASSUME NEW g \in showing(fileLoads') PROVE g \in itemLoading \cup {f}
    <3>1. PICK m \in fileLoads' : m.here /\ g = m.file
      BY <2>2
    <3>2. m = new \/ \E l \in fileLoads : m = Aborts(l)
      BY <1>3
    <3>3. CASE m = new
      BY <1>2, <3>1, <3>3
    <3>4. ASSUME NEW l \in fileLoads, m = Aborts(l) PROVE g \in itemLoading
      BY <1>4, <2>1, <3>1, <3>4
    <3> QED
      BY <3>2, <3>3, <3>4
  <2>3. ASSUME NEW g \in itemLoading \cup {f} PROVE g \in showing(fileLoads')
    <3>1. CASE g = f
      BY <1>2, <1>3, <3>1
    <3>2. CASE g \in itemLoading
      <4>1. PICK l \in fileLoads : l.here /\ g = l.file
        BY <2>1, <3>2
      <4>2. Aborts(l) \in fileLoads' /\ Aborts(l).here /\ Aborts(l).file = g
        BY <1>3, <1>4, <4>1
      <4> QED
        BY <4>2
    <3> QED
      BY <2>3, <3>1, <3>2
  <2>4. showing(fileLoads') = itemLoading'
    <3> HIDE DEF showing
    <3> QED
      BY <1>1, <2>2, <2>3
  <2> QED
    BY <2>4 DEF ItemsShowTheirLoads
<1> QED
  <2>1. \A l \in fileLoads' : ClickOf(l)'
    BY <1>6
  <2>2. \A l, m \in fileLoads' : l.click = m.click => l = m
    BY <1>7
  <2>3. \A l, m \in fileLoads' : l.here /\ m.here /\ l.file = m.file => l = m
    BY <1>9
  <2>4. itemLoading' \subseteq TreeFiles /\ fileClicks' \in 0 .. MaxFileClicks /\ textClick' \in 0 .. fileClicks'
        /\ controller' \in 0 .. fileClicks' /\ openedBy' \in 0 .. fileClicks'
    <3>1. fileClicks < MaxFileClicks
      BY DEF ClickText
    <3>2. itemLoading' \subseteq TreeFiles
      BY <1>1 DEF ClickInv
    <3> QED
      BY <1>1, <3>1, <3>2, PanelAssumption DEF ClickInv
  <2> QED
    BY <1>5, <1>10, <1>11, <2>1, <2>2, <2>3, <2>4 DEF ClickInv

\* A load that ends: what is shown at its item ends with it.
LEMMA EndLoadKeeps ==
    ASSUME ClickInv, NEW l \in fileLoads, EndLoad(l), UNCHANGED <<fileClicks, textClick>>,
           openedBy' = (IF l.aborted THEN openedBy ELSE l.click)
    PROVE  ClickInv'
<1>1. Resets(l) <=> l.here
  BY DEF ClickInv, ClickOf, LoadType, Resets
<1>2. fileLoads' = fileLoads \ {l} /\ controller' = (IF controller = l.click THEN 0 ELSE controller)
  BY DEF EndLoad
<1>3. \A m \in fileLoads' : m \in fileLoads /\ m.click # l.click
  BY <1>2 DEF ClickInv
<1>4. /\ l.click \in Nat /\ controller' \in 0 .. fileClicks /\ openedBy' \in 0 .. fileClicks
      /\ \A m \in fileLoads' : ClickOf(m)'
  BY <1>2, <1>3 DEF ClickInv, ClickOf, LoadType
<1>5. LastClickWins'
  BY <1>2, <1>4 DEF ClickInv, ClickOf, LoadType, LastClickWins
<1>6. ItemsShowTheirLoads'
  <2>1. itemLoading = {m.file : m \in {k \in fileLoads : k.here}}
    BY DEF ClickInv, ItemsShowTheirLoads
  <2>2. itemLoading' = (IF l.here THEN itemLoading \ {l.file} ELSE itemLoading)
    BY <1>1 DEF EndLoad
  <2>3. \A m \in fileLoads : m.here /\ l.here /\ m.file = l.file => m = l
    BY DEF ClickInv
  <2> QED
    BY <1>2, <2>1, <2>2, <2>3 DEF ItemsShowTheirLoads
<1> QED
  BY <1>1, <1>2, <1>3, <1>4, <1>5, <1>6 DEF ClickInv, EndLoad

LEMMA SizeKnownKeeps == ASSUME ClickInv, SizeKnown PROVE ClickInv'
<1>1. PICK l \in fileLoads, large \in BOOLEAN :
        /\ l.at = "size"
        /\ IF l.aborted \/ large
           THEN EndLoad(l) /\ openedBy' = (IF l.aborted THEN openedBy ELSE l.click)
           ELSE /\ fileLoads' = (fileLoads \ {l}) \cup {[l EXCEPT !.at = "content"]}
                /\ UNCHANGED <<itemLoading, controller, openedBy>>
  BY DEF SizeKnown
<1>2. UNCHANGED <<fileClicks, textClick>>
  BY DEF SizeKnown
<1>3. CASE EndLoad(l) /\ openedBy' = (IF l.aborted THEN openedBy ELSE l.click)
  BY <1>2, <1>3, EndLoadKeeps
<1>4. CASE /\ fileLoads' = (fileLoads \ {l}) \cup {[l EXCEPT !.at = "content"]}
           /\ UNCHANGED <<itemLoading, controller, openedBy>>
  <2> DEFINE k == [l EXCEPT !.at = "content"]
  <2>1. /\ k \in LoadType /\ k.click = l.click /\ k.file = l.file /\ k.aborted = l.aborted /\ k.here = l.here
        /\ ClickOf(l)
    BY DEF ClickInv, LoadType
  <2>2. fileLoads' = (fileLoads \ {l}) \cup {k}
    BY <1>4
  <2> HIDE DEF k
  <2>3. \A m \in fileLoads' : ClickOf(m)'
    <3>1. ClickOf(k)'
      BY <1>2, <1>4, <2>1 DEF ClickOf
    <3>2. \A m \in fileLoads : ClickOf(m)'
      BY <1>2, <1>4 DEF ClickInv, ClickOf
    <3> QED
      BY <2>2, <3>1, <3>2
  <2>4. \A m, n \in fileLoads' : m.click = n.click => m = n
    BY <2>1, <2>2 DEF ClickInv
  <2>5. \A m, n \in fileLoads' : m.here /\ n.here /\ m.file = n.file => m = n
    BY <2>1, <2>2 DEF ClickInv
  <2>6. LastClickWins'
    BY <1>2, <1>4, <2>1, <2>2 DEF ClickInv, LastClickWins
  <2>7. ItemsShowTheirLoads'
    <3>1. itemLoading = {m.file : m \in {n \in fileLoads : n.here}}
      BY DEF ClickInv, ItemsShowTheirLoads
    <3>2. {m.file : m \in {n \in fileLoads' : n.here}} = itemLoading
      BY <2>1, <2>2, <3>1
    <3> QED
      BY <1>4, <3>2 DEF ItemsShowTheirLoads
  <2> QED
    BY <1>2, <1>4, <2>1, <2>2, <2>3, <2>4, <2>5, <2>6, <2>7 DEF ClickInv
<1> QED
  BY <1>1, <1>3, <1>4

LEMMA ClicksKeep == ASSUME ClickInv, [PanelNext]_panelVars PROVE ClickInv'
<1>1. CASE DirChanges \/ VersionMoves \/ ArtifactsAdded
  BY <1>1, DirKeepsClicks DEF DirChanges, VersionMoves, ArtifactsAdded
<1>2. CASE FileWritten \/ ApiReads \/ DirAnswers \/ UNCHANGED panelVars
  <2>1. UNCHANGED clickVars
    <3>1. CASE FileWritten
      BY <3>1 DEF FileWritten, clickVars, toldVars, shownVars
    <3>2. CASE ApiReads
      BY <3>2, Zenon DEF ApiReads, clickVars
    <3>3. CASE DirAnswers
      BY <3>3, Zenon DEF DirAnswers, clickVars
    <3>4. CASE UNCHANGED panelVars
      BY <3>4 DEF panelVars, clickVars, dirVars, toldVars, shownVars
    <3> QED
      BY <1>2, <3>1, <3>2, <3>3, <3>4
  <2> QED
    BY <2>1, ClickStays
<1>3. CASE ContentRead
  <2>1. PICK l \in fileLoads : EndLoad(l) /\ openedBy' = (IF l.aborted THEN openedBy ELSE l.click)
    BY <1>3 DEF ContentRead
  <2> QED
    BY <1>3, <2>1, EndLoadKeeps DEF ContentRead
<1>4. CASE ClosePreview
  <2>1. openedBy' = 0 /\ UNCHANGED <<fileClicks, textClick, fileLoads, controller, itemLoading>>
    BY <1>4 DEF ClosePreview
  <2> QED
    BY <2>1 DEF ClickInv, ClickOf, LastClickWins, ItemsShowTheirLoads
<1>5. CASE TransitionRenders
  <2>1. UNCHANGED <<fileClicks, textClick, controller, openedBy>> /\ (TreeGoes \/ UNCHANGED <<itemLoading, fileLoads>>)
    BY <1>5 DEF TransitionRenders, ListBecomes
  <2> QED
    BY <2>1, TreeGoesKeeps, ClickStays DEF clickVars
<1> QED
  BY <1>1, <1>2, <1>3, <1>4, <1>5, ClickBinaryKeeps, ClickTextKeeps, SizeKnownKeeps DEF PanelNext

-----------------------------------------------------------------------------
(* The directory's files.                                                  *)

ReadType == [dir : Dirs, version : Nat, effect : Nat, got : {"nothing", "files", "error"}, count : Nat]

\* A read without an answer has no files; that of the last effect is of the directory and version there are, and
\* what it got holds every file the page was told of.
ReadOf(r) ==
    /\ r.effect \in 1 .. reload
    /\ r.effect = reload =>
         /\ r.dir = workingDir /\ r.version = filesVersion /\ loadingFiles = TRUE
         /\ r.got = "files" => r.count >= toldFiles[r.dir]
    /\ r.got # "files" => r.count = 0

CacheOf == dirCache.version = filesVersion /\ dirCache.count > 0 =>
               dirCache.dir \in Dirs /\ dirCache.count >= toldFiles[dirCache.dir]

FilesType == [dir : Dirs \cup {0}, count : Nat, failed : BOOLEAN]

\* A list that is queued while no read is under way is what the page was told of.
QueuedOf == queuedFiles # NoFiles /\ loadingFiles = FALSE =>
                /\ queuedFiles.dir = workingDir /\ workingDir # 0
                /\ queuedFiles.count >= toldFiles[workingDir] \/ queuedFiles.failed = TRUE

DirInv ==
    /\ workingDir \in Dirs \cup {0} /\ disk \in [Dirs -> 0 .. MaxOnDisk] /\ toldFiles \in [Dirs -> 0 .. MaxOnDisk]
    /\ filesVersion \in Nat /\ reload \in 0 .. MaxReloads /\ filesVersion <= reload
    /\ dirReads \subseteq ReadType
    /\ dirCache \in [dir : Dirs \cup {0}, version : 0 .. filesVersion, count : Nat]
    /\ workingFiles \in FilesType /\ queuedFiles \in FilesType /\ loadingFiles \in BOOLEAN
    /\ \A d \in Dirs : toldFiles[d] <= disk[d]
    /\ \A r \in dirReads : ReadOf(r)
    /\ \A r, q \in dirReads : r.effect = q.effect => r = q
    /\ CacheOf
    /\ QueuedOf
    /\ FilesAreTheDirs

LEMMA NoFilesTyped == NoFiles \in FilesType /\ NoFiles.dir = 0
  BY DEF NoFiles, FilesType

LEMMA DirStays == ASSUME DirInv, UNCHANGED dirVars PROVE DirInv'
  BY DEF DirInv, ReadOf, CacheOf, QueuedOf, FilesAreTheDirs, AtRest, dirVars, toldVars, shownVars

\* The effect for directory d, with the version and the history the step leaves.
LEMMA LoadKeeps ==
    ASSUME DirInv, NEW d \in Dirs \cup {0}, LoadWorkingFiles(d), workingDir' = d, UNCHANGED disk,
           toldFiles' \in [Dirs -> 0 .. MaxOnDisk], \A e \in Dirs : toldFiles'[e] <= disk[e],
           \/ UNCHANGED <<filesVersion, toldFiles>>
           \/ filesVersion' = filesVersion + 1
           \/ /\ UNCHANGED filesVersion /\ ~Cached(d)
              /\ \A e \in Dirs : e # d => toldFiles'[e] = toldFiles[e]
    PROVE  DirInv'
<1>1. /\ reload' = reload + 1 /\ reload' \in 0 .. MaxReloads /\ UNCHANGED dirCache
      /\ filesVersion' \in Nat /\ filesVersion' <= reload' /\ reload \in Nat
  BY PanelAssumption DEF LoadWorkingFiles, DirInv
<1>2. dirCache \in [dir : Dirs \cup {0}, version : 0 .. filesVersion', count : Nat] /\ CacheOf'
  <2>1. dirCache.version \in 0 .. filesVersion /\ filesVersion \in Nat /\ dirCache.count \in Nat
        /\ dirCache.dir \in Dirs \cup {0}
        /\ dirCache = [dir |-> dirCache.dir, version |-> dirCache.version, count |-> dirCache.count]
    BY DEF DirInv
  <2>2. dirCache.version \in 0 .. filesVersion'
    BY <2>1
  <2>3. CacheOf'
    BY <1>1, <2>1 DEF DirInv, CacheOf, Cached
  <2> QED
    BY <2>1, <2>2, <2>3
<1>3. \A r \in dirReads : r.effect \in 1 .. reload
  BY DEF DirInv, ReadOf
<1>4. CASE d = 0 \/ Cached(d)
  <2>1. /\ UNCHANGED dirReads /\ loadingFiles' = FALSE /\ queuedFiles' = NoFiles
        /\ \/ d = 0 /\ workingFiles' = NoFiles
           \/ d # 0 /\ Cached(d) /\ workingFiles' = [dir |-> d, count |-> dirCache.count, failed |-> FALSE]
    BY <1>4 DEF LoadWorkingFiles, ListBecomes
  <2>2. \A r \in dirReads' : ReadOf(r)'
    BY <1>1, <1>3, <2>1 DEF DirInv, ReadOf
  <2>3. workingFiles' \in FilesType /\ queuedFiles' \in FilesType
    <3>1. dirCache.count \in Nat
      BY DEF DirInv
    <3>2. [dir |-> d, count |-> dirCache.count, failed |-> FALSE] \in FilesType
      BY <3>1 DEF FilesType
    <3> QED
      BY <2>1, <3>2, NoFilesTyped
  <2>4. FilesAreTheDirs'
    BY <1>1, <1>2, <2>1 DEF FilesAreTheDirs, AtRest, Cached, CacheOf
  <2>5. QueuedOf'
    BY <2>1 DEF QueuedOf
  <2> QED
    BY <1>1, <1>2, <2>1, <2>2, <2>3, <2>4, <2>5 DEF DirInv
<1>5. CASE d # 0 /\ ~Cached(d)
  <2>1. loadingFiles' = TRUE /\ UNCHANGED <<workingFiles, queuedFiles>>
    BY <1>5 DEF LoadWorkingFiles
  <2>2. PICK new \in ReadType :
          /\ dirReads' = dirReads \cup {new} /\ new.dir = d /\ new.version = filesVersion'
          /\ new.effect = reload' /\ new.got = "nothing" /\ new.count = 0
    <3> DEFINE n == [dir |-> d, version |-> filesVersion', effect |-> reload', got |-> "nothing", count |-> 0]
    <3>1. dirReads' = dirReads \cup {n}
      BY <1>5 DEF LoadWorkingFiles
    <3>2. /\ n \in ReadType /\ n.dir = d /\ n.version = filesVersion' /\ n.effect = reload'
          /\ n.got = "nothing" /\ n.count = 0
      BY <1>1, <1>5 DEF ReadType
    <3> HIDE DEF n
    <3> QED
      BY <3>1, <3>2
  <2>3. \A r \in dirReads' : ReadOf(r)'
    <3>1. ReadOf(new)'
      BY <1>1, <2>1, <2>2 DEF ReadOf
    <3>2. \A r \in dirReads : ReadOf(r)'
      BY <1>1, <1>3 DEF DirInv, ReadOf
    <3> QED
      BY <2>2, <3>1, <3>2
  <2>4. \A r, q \in dirReads' : r.effect = q.effect => r = q
    <3>1. \A r \in dirReads : r.effect # new.effect
      BY <1>1, <1>3, <2>2
    <3> QED
      BY <2>2, <3>1 DEF DirInv
  <2>5. FilesAreTheDirs' /\ QueuedOf'
    BY <2>1 DEF FilesAreTheDirs, AtRest, QueuedOf
  <2>6. dirReads' \subseteq ReadType
    BY <2>2 DEF DirInv
  <2> QED
    BY <1>1, <1>2, <2>1, <2>3, <2>4, <2>5, <2>6 DEF DirInv
<1> QED
  BY <1>4, <1>5

LEMMA ApiReadsKeeps == ASSUME DirInv, ApiReads PROVE DirInv'
<1>1. PICK r \in dirReads, ok \in BOOLEAN :
        /\ r.got = "nothing"
        /\ dirReads' = (dirReads \ {r}) \cup
               {IF ok THEN [r EXCEPT !.got = "files", !.count = disk[r.dir]] ELSE [r EXCEPT !.got = "error"]}
  BY Zenon DEF ApiReads
<1>2. r \in ReadType /\ ReadOf(r) /\ r.dir \in Dirs /\ disk[r.dir] \in Nat /\ toldFiles[r.dir] \in Nat
      /\ toldFiles[r.dir] <= disk[r.dir]
  BY DEF DirInv, ReadType
<1>3. PICK q \in ReadType :
        /\ dirReads' = (dirReads \ {r}) \cup {q}
        /\ q.dir = r.dir /\ q.version = r.version /\ q.effect = r.effect
        /\ q.got = "files" => q.count = disk[r.dir]
        /\ q.got # "files" => q.count = 0
  <2> DEFINE yes == [r EXCEPT !.got = "files", !.count = disk[r.dir]]
             no == [r EXCEPT !.got = "error"]
  <2>1. /\ yes \in ReadType /\ yes.dir = r.dir /\ yes.version = r.version /\ yes.effect = r.effect
        /\ yes.got = "files" /\ yes.count = disk[r.dir]
    BY <1>2 DEF ReadType
  <2>2. /\ no \in ReadType /\ no.dir = r.dir /\ no.version = r.version /\ no.effect = r.effect
        /\ no.got = "error" /\ no.count = 0
    BY <1>1, <1>2 DEF ReadType, ReadOf
  <2>3. dirReads' = (dirReads \ {r}) \cup {yes} \/ dirReads' = (dirReads \ {r}) \cup {no}
    BY <1>1
  <2> HIDE DEF yes, no
  <2> QED
    BY <2>1, <2>2, <2>3
<1>4. UNCHANGED <<workingDir, disk, filesVersion, toldFiles, reload, dirCache, workingFiles,
                    queuedFiles, loadingFiles>>
  BY DEF ApiReads, toldVars, shownVars
<1>5. \A m \in dirReads' : ReadOf(m)'
  <2>1. ReadOf(q)'
    BY <1>2, <1>3, <1>4 DEF ReadOf
  <2>2. \A m \in dirReads : ReadOf(m)'
    BY <1>4 DEF DirInv, ReadOf
  <2> QED
    BY <1>3, <2>1, <2>2
<1>6. \A m, n \in dirReads' : m.effect = n.effect => m = n
  BY <1>2, <1>3 DEF DirInv
<1>7. CacheOf' /\ QueuedOf' /\ FilesAreTheDirs'
  BY <1>4 DEF DirInv, CacheOf, QueuedOf, FilesAreTheDirs, AtRest
<1>8. dirReads' \subseteq ReadType
  BY <1>3 DEF DirInv
<1> QED
  BY <1>4, <1>5, <1>6, <1>7, <1>8 DEF DirInv

LEMMA DirAnswersKeeps == ASSUME DirInv, DirAnswers PROVE DirInv'
<1>1. PICK r \in dirReads :
        /\ r.got # "nothing" /\ dirReads' = dirReads \ {r}
        /\ IF Cancelled(r) THEN UNCHANGED shownVars
           ELSE /\ dirCache' = [dir |-> r.dir, version |-> r.version, count |-> r.count]
                /\ queuedFiles' = [dir |-> r.dir, count |-> r.count, failed |-> r.got = "error"]
                /\ loadingFiles' = FALSE /\ UNCHANGED workingFiles
  BY DEF DirAnswers
<1>2. UNCHANGED <<workingDir, disk, filesVersion, toldFiles, reload>>
  BY DEF DirAnswers, toldVars
<1>3. r \in ReadType /\ ReadOf(r)
  BY DEF DirInv
<1>4. CASE Cancelled(r)
  <2>1. UNCHANGED <<dirCache, workingFiles, queuedFiles, loadingFiles>>
    BY <1>1, <1>4 DEF shownVars
  <2>2. \A m \in dirReads' : ReadOf(m)'
    BY <1>1, <1>2, <2>1 DEF DirInv, ReadOf
  <2>3. CacheOf' /\ QueuedOf' /\ FilesAreTheDirs'
    BY <1>2, <2>1 DEF DirInv, CacheOf, QueuedOf, FilesAreTheDirs, AtRest
  <2> QED
    BY <1>1, <1>2, <2>1, <2>2, <2>3 DEF DirInv
<1>5. CASE ~Cancelled(r)
  <2>1. /\ dirCache' = [dir |-> r.dir, version |-> r.version, count |-> r.count]
        /\ queuedFiles' = [dir |-> r.dir, count |-> r.count, failed |-> r.got = "error"]
        /\ loadingFiles' = FALSE /\ UNCHANGED workingFiles
    BY <1>1, <1>5
  <2>2. r.effect = reload
    BY <1>5 DEF Cancelled
  <2>3. /\ r.dir = workingDir /\ r.version = filesVersion /\ r.dir \in Dirs /\ r.count \in Nat
        /\ r.count >= toldFiles[r.dir] \/ r.got = "error"
    BY <1>1, <1>3, <2>2 DEF ReadOf, ReadType
  <2>4. \A m \in dirReads' : ReadOf(m)'
    <3>1. \A m \in dirReads' : m \in dirReads /\ m.effect # reload
      BY <1>1, <2>2 DEF DirInv
    <3> QED
      BY <1>2, <3>1 DEF DirInv, ReadOf
  <2>5. FilesAreTheDirs' /\ QueuedOf'
    <3>1. queuedFiles'.dir = r.dir /\ queuedFiles'.count = r.count /\ (queuedFiles'.failed <=> r.got = "error")
      BY <2>1
    <3>2. queuedFiles' # NoFiles /\ r.dir # 0
      BY <2>3, <3>1, NoFilesTyped, PanelAssumption
    <3>3. FilesAreTheDirs'
      BY <3>2 DEF FilesAreTheDirs, AtRest
    <3>4. QueuedOf'
      BY <1>2, <2>3, <3>1, <3>2 DEF QueuedOf
    <3> QED
      BY <3>3, <3>4
  <2>6. CacheOf'
    <3>1. r.got = "error" => r.count = 0
      BY <1>3 DEF ReadOf
    <3> QED
      BY <1>2, <2>1, <2>3, <3>1 DEF CacheOf
  <2>7. dirCache' \in [dir : Dirs \cup {0}, version : 0 .. filesVersion', count : Nat]
    <3>1. r.version \in 0 .. filesVersion'
      BY <1>2, <2>3 DEF DirInv
    <3> QED
      BY <2>1, <2>3, <3>1
  <2>8. queuedFiles' \in FilesType /\ workingFiles' \in FilesType
    <3> DEFINE f == r.got = "error"
    <3>1. f \in BOOLEAN /\ queuedFiles' = [dir |-> r.dir, count |-> r.count, failed |-> f]
      BY <2>1
    <3> HIDE DEF f
    <3> QED
      BY <2>1, <2>3, <3>1 DEF FilesType, DirInv
  <2>9. \A m, n \in dirReads' : m.effect = n.effect => m = n
    BY <1>1 DEF DirInv
  <2> QED
    BY <1>1, <1>2, <2>1, <2>4, <2>5, <2>6, <2>7, <2>8, <2>9 DEF DirInv
<1> QED
  BY <1>4, <1>5

LEMMA RendersKeeps == ASSUME DirInv, TransitionRenders PROVE DirInv'
<1>1. /\ queuedFiles # NoFiles /\ workingFiles' = queuedFiles /\ queuedFiles' = NoFiles
      /\ UNCHANGED <<workingDir, disk, filesVersion, toldFiles, reload, dirReads, dirCache, loadingFiles>>
  BY DEF TransitionRenders, ListBecomes, toldVars
<1>2. workingFiles' \in FilesType /\ queuedFiles' \in FilesType
  BY <1>1, NoFilesTyped DEF DirInv
<1>3. (\A r \in dirReads' : ReadOf(r)') /\ CacheOf'
  BY <1>1 DEF DirInv, ReadOf, CacheOf
<1>4. FilesAreTheDirs' /\ QueuedOf'
  <2>1. QueuedOf'
    BY <1>1 DEF QueuedOf
  <2>2. loadingFiles = FALSE => /\ queuedFiles.dir = workingDir
                                /\ queuedFiles.count >= toldFiles[workingDir] \/ queuedFiles.failed = TRUE
    BY <1>1 DEF DirInv, QueuedOf
  <2> QED
    BY <1>1, <2>1, <2>2 DEF FilesAreTheDirs, AtRest
<1> QED
  BY <1>1, <1>2, <1>3, <1>4 DEF DirInv

LEMMA DirsKeep == ASSUME DirInv, [PanelNext]_panelVars PROVE DirInv'
<1>1. CASE DirChanges
  <2>1. PICK d \in (Dirs \cup {0}) \ {workingDir} :
          workingDir' = d /\ UNCHANGED <<disk, filesVersion, toldFiles>> /\ LoadWorkingFiles(d)
    BY <1>1 DEF DirChanges, toldVars
  <2>2. toldFiles' \in [Dirs -> 0 .. MaxOnDisk] /\ \A e \in Dirs : toldFiles'[e] <= disk[e]
    BY <2>1 DEF DirInv
  <2> QED
    BY <2>1, <2>2, LoadKeeps
<1>2. CASE ArtifactsAdded
  <2>1. /\ LoadWorkingFiles(workingDir) /\ UNCHANGED <<workingDir, disk, filesVersion>>
        /\ \/ UNCHANGED toldFiles
           \/ /\ ~Cached(workingDir)
              /\ toldFiles' = [d \in Dirs |-> IF d = workingDir THEN disk[d] ELSE toldFiles[d]]
    BY <1>2 DEF ArtifactsAdded, Told
  <2>2. workingDir \in Dirs \cup {0} /\ toldFiles' \in [Dirs -> 0 .. MaxOnDisk]
        /\ \A e \in Dirs : toldFiles'[e] <= disk[e]
    BY <2>1 DEF DirInv, MaxOnDisk
  <2> QED
    BY <2>1, <2>2, LoadKeeps
<1>3. CASE VersionMoves
  <2>1. /\ filesVersion' = filesVersion + 1 /\ LoadWorkingFiles(workingDir)
        /\ UNCHANGED <<workingDir, disk>>
        /\ toldFiles' = [d \in Dirs |-> IF d = workingDir THEN disk[d] ELSE toldFiles[d]]
    BY <1>3 DEF VersionMoves, Told
  <2>2. toldFiles' \in [Dirs -> 0 .. MaxOnDisk] /\ \A e \in Dirs : toldFiles'[e] <= disk[e]
    BY <2>1 DEF DirInv, MaxOnDisk
  <2>3. workingDir \in Dirs \cup {0}
    BY <2>1 DEF DirInv
  <2> QED
    BY <2>1, <2>2, <2>3, LoadKeeps
<1>4. CASE FileWritten
  <2>1. /\ workingDir \in Dirs /\ disk[workingDir] < MaxOnDisk
        /\ disk' = [disk EXCEPT ![workingDir] = @ + 1]
        /\ UNCHANGED <<workingDir, filesVersion, toldFiles, reload, dirReads, dirCache, workingFiles,
                       queuedFiles, loadingFiles>>
    BY <1>4 DEF FileWritten, DirInv, toldVars, shownVars
  <2>2. disk' \in [Dirs -> 0 .. MaxOnDisk] /\ \A d \in Dirs : toldFiles[d] <= disk'[d]
    BY <2>1 DEF DirInv, MaxOnDisk
  <2>3. (\A r \in dirReads' : ReadOf(r)') /\ CacheOf' /\ QueuedOf' /\ FilesAreTheDirs'
    BY <2>1 DEF DirInv, ReadOf, CacheOf, QueuedOf, FilesAreTheDirs, AtRest
  <2> QED
    BY <2>1, <2>2, <2>3 DEF DirInv
<1>5. CASE ClickBinary \/ ClickText \/ SizeKnown \/ ContentRead \/ ClosePreview \/ UNCHANGED panelVars
  <2>1. UNCHANGED dirVars
    BY <1>5 DEF ClickBinary, ClickText, SizeKnown, ContentRead, ClosePreview, panelVars
  <2> QED
    BY <2>1, DirStays
<1> QED
  BY <1>1, <1>2, <1>3, <1>4, <1>5, ApiReadsKeeps, DirAnswersKeeps, RendersKeeps DEF PanelNext

-----------------------------------------------------------------------------
PanelsInv == ClickInv /\ DirInv

LEMMA PanelsStart == ASSUME PanelInit PROVE PanelsInv
<1>1. ClickInv
  BY PanelAssumption DEF PanelInit, ClickInv, LastClickWins, ItemsShowTheirLoads
<1>2. DirInv
  <2>1. /\ disk \in [Dirs -> 0 .. MaxOnDisk] /\ toldFiles \in [Dirs -> 0 .. MaxOnDisk]
        /\ \A d \in Dirs : toldFiles[d] <= disk[d]
    BY DEF PanelInit, MaxOnDisk
  <2>3. CacheOf /\ QueuedOf /\ FilesAreTheDirs /\ dirReads = {}
    BY DEF PanelInit, CacheOf, QueuedOf, FilesAreTheDirs, AtRest
  <2>4. dirCache \in [dir : Dirs \cup {0}, version : 0 .. filesVersion, count : Nat]
    BY DEF PanelInit
  <2>5. /\ workingDir = 0 /\ filesVersion = 0 /\ reload = 0 /\ workingFiles = NoFiles /\ queuedFiles = NoFiles /\ loadingFiles = FALSE
        /\ 0 \in 0 .. MaxReloads
    BY PanelAssumption DEF PanelInit
  <2>6. /\ workingDir \in Dirs \cup {0} /\ filesVersion \in Nat /\ reload \in 0 .. MaxReloads /\ filesVersion <= reload
        /\ workingFiles \in FilesType /\ queuedFiles \in FilesType /\ loadingFiles \in BOOLEAN
    <3>1. workingDir \in Dirs \cup {0} /\ filesVersion \in Nat /\ reload \in 0 .. MaxReloads /\ filesVersion <= reload
      BY <2>5, PanelAssumption
    <3>2. workingFiles \in FilesType /\ queuedFiles \in FilesType
      BY <2>5, NoFilesTyped, Zenon
    <3>3. loadingFiles \in BOOLEAN
      BY <2>5
    <3> QED
      BY <3>1, <3>2, <3>3
  <2>7. dirReads \subseteq ReadType /\ (\A r \in dirReads : ReadOf(r))
        /\ \A r, q \in dirReads : r.effect = q.effect => r = q
    BY <2>3
  <2> QED
    BY <2>1, <2>3, <2>4, <2>6, <2>7 DEF DirInv
<1> QED
  BY <1>1, <1>2 DEF PanelsInv

LEMMA PanelsKeep == ASSUME PanelsInv, [PanelNext]_panelVars PROVE PanelsInv'
  BY ClicksKeep, DirsKeep DEF PanelsInv

LEMMA PanelsInvariance == PanelSpec => []PanelsInv
<1>1. PanelInit => PanelsInv
  BY PanelsStart
<1>2. PanelsInv /\ [PanelNext]_panelVars => PanelsInv'
  BY PanelsKeep
<1> QED
  BY <1>1, <1>2, PTL DEF PanelSpec

\* The types of the sidebar's state, for any directories, files, effects and
\* clicks (RightSidebar.tsx).
THEOREM PanelTyping == PanelSpec => []PanelTypeOK
<1>1. PanelsInv => PanelTypeOK
  <2> SUFFICES ASSUME PanelsInv PROVE PanelTypeOK
    OBVIOUS
  <2>1. \A r \in dirReads : r.dir \in Dirs /\ r.effect \in 1 .. reload /\ r.got \in {"nothing", "files", "error"}
    BY DEF PanelsInv, DirInv, ReadType, ReadOf
  <2>2. \A l \in fileLoads : /\ l.file \in TreeFiles /\ l.click \in 1 .. fileClicks
                             /\ l.at \in {"size", "content"} /\ {l.aborted, l.here} \subseteq BOOLEAN
    BY DEF PanelsInv, ClickInv, LoadType, ClickOf
  <2>3. filesVersion \in 0 .. MaxReloads
    BY PanelAssumption DEF PanelsInv, DirInv
  <2> QED
    BY <2>1, <2>2, <2>3 DEF PanelsInv, DirInv, ClickInv, PanelTypeOK, FilesType
<1> QED
  BY <1>1, PanelsInvariance, PTL

\* The files shown at rest, no read under way and no list queued, are those of
\* the page's directory, with every file the version told of, unless their read
\* failed: through the cancelled reads, the cache and the lists React renders
\* later.  What the artifacts tell is not promised: the cache answers them
\* (RightSidebar.tsx:1065-1131).
THEOREM FilesShown == PanelSpec => []FilesAreTheDirs
<1>1. PanelsInv => FilesAreTheDirs
  BY DEF PanelsInv, DirInv
<1> QED
  BY <1>1, PanelsInvariance, PTL

\* The file opened is from the last click that loads one, or a later one, once
\* that load is over (RightSidebar.tsx:497-604).
THEOREM LastClick == PanelSpec => []LastClickWins
<1>1. PanelsInv => LastClickWins
  BY DEF PanelsInv, ClickInv
<1> QED
  BY <1>1, PanelsInvariance, PTL

\* An item of the tree shows a load exactly while one of its own goes on
\* (RightSidebar.tsx:553-606).
THEOREM ItemsShow == PanelSpec => []ItemsShowTheirLoads
<1>1. PanelsInv => ItemsShowTheirLoads
  BY DEF PanelsInv, ClickInv
<1> QED
  BY <1>1, PanelsInvariance, PTL
-----------------------------------------------------------------------------
(* ShellModels: the default's provider and model stay listed.              *)

\* A set of numbers has a least one: the first provider of a list.
LEMMA LeastOf == ASSUME NEW S, S \subseteq Nat, S # {} PROVE \E p \in S : \A q \in S : p <= q
<1> DEFINE R == OpToRel(<, Nat)
<1>1. IsWellFoundedOn(R, Nat)
  BY NatLessThanWellFounded
<1> HIDE DEF R
<1>2. PICK p \in S : \A q \in S : <<q, p>> \notin R
  BY <1>1, WFMin
<1>3. \A q \in S : ~(q < p)
  BY <1>2 DEF OpToRel, R
<1> QED
  BY <1>3

ProviderOf == [enabled : BOOLEAN, key : BOOLEAN, models : SUBSET Models]

Listed ==
    \/ dangling \/ default = NoDefault
    \/ default[1] \in DOMAIN offered /\ (default[2] = "none" \/ default[2] \in offered[default[1]].models)

\* A provider's id is a number of its own: those that are added come after.
ListInv ==
    /\ offered \in [DOMAIN offered -> ProviderOf]
    /\ DOMAIN offered \subseteq 1 .. Cardinality(BuiltIn) + modelChanges
    /\ default \in Nat \X (Models \cup {"none"})
    /\ modelChanges \in 0 .. MaxModelChanges /\ bare \subseteq Nat /\ dangling \in BOOLEAN
    /\ EnabledHaveKeys /\ Listed

DialogInv ==
    /\ editing \in DOMAIN offered \cup {0} /\ status \in {"idle", "loading", "success", "error"}
    /\ tries \subseteq Nat \X (1 .. modelChanges) /\ timers \in Nat /\ about \in Nat /\ strayed \in BOOLEAN
    /\ TriesAreShownOwn

ModelsInv == ListInv /\ DialogInv

LEMMA ModelsStart == ASSUME ModelsInit PROVE ModelsInv
<1>1. DOMAIN offered = BuiltIn /\ offered \in [BuiltIn -> ProviderOf] /\ \A p \in BuiltIn : ~offered[p].enabled
  BY DEF ModelsInit, ProviderOf
<1>2. ListInv
  <2>1. EnabledHaveKeys /\ Listed
    BY <1>1 DEF ModelsInit, EnabledHaveKeys, Listed
  <2>2. default \in Nat \X (Models \cup {"none"})
    BY DEF ModelsInit, NoDefault
  <2>3. dangling \in BOOLEAN
    BY DEF ModelsInit
  <2>4. DOMAIN offered \subseteq 1 .. Cardinality(BuiltIn) + modelChanges /\ modelChanges \in 0 .. MaxModelChanges
    BY <1>1, ModelsAssumption DEF ModelsInit
  <2> QED
    BY <1>1, <2>1, <2>2, <2>3, <2>4 DEF ModelsInit, ListInv
<1>3. DialogInv
  BY DEF ModelsInit, DialogInv, TriesAreShownOwn
<1> QED
  BY <1>2, <1>3 DEF ModelsInv

\* What the list keeps when a change rewrites one provider.
LEMMA EditKeyKeeps == ASSUME ModelsInv, EditKey PROVE ModelsInv'
<1> USE DEF ModelsInv, ListInv
<1>1. PICK key \in BOOLEAN :
        offered' = [offered EXCEPT ![editing].key = key, ![editing].enabled = EnabledWith(editing, key)]
  BY DEF EditKey
<1>2. /\ editing \in DOMAIN offered /\ modelChanges' = modelChanges + 1 /\ modelChanges' \in 0 .. MaxModelChanges
  BY ModelsAssumption DEF EditKey, Changes, DialogInv
<1>3. /\ DOMAIN offered' = DOMAIN offered /\ offered' \in [DOMAIN offered -> ProviderOf]
      /\ \A p \in DOMAIN offered : /\ offered'[p].models = offered[p].models
                                   /\ offered'[p].enabled => offered[p].enabled /\ (p = editing => key)
                                   /\ offered'[p].key = IF p = editing THEN key ELSE offered[p].key
  BY <1>1, <1>2 DEF ProviderOf, EnabledWith
<1>4. EnabledHaveKeys'
  BY <1>3 DEF EnabledHaveKeys, EditKey
<1>5. ListInv'
  BY <1>2, <1>3, <1>4, ModelsAssumption DEF EditKey, Listed, NoDefault
<1>6. DialogInv'
  BY <1>2, <1>3, ModelsAssumption DEF EditKey, DialogInv, TriesAreShownOwn
<1> QED
  BY <1>5, <1>6

LEMMA ToggleProviderKeeps == ASSUME ModelsInv, ToggleProvider PROVE ModelsInv'
<1> USE DEF ModelsInv, ListInv
<1>1. PICK p \in DOMAIN offered : offered[p].key /\ offered' = [offered EXCEPT ![p].enabled = ~@]
  BY DEF ToggleProvider
<1>2. /\ modelChanges' = modelChanges + 1 /\ modelChanges' \in 0 .. MaxModelChanges
  BY ModelsAssumption DEF ToggleProvider, Changes
<1>3. /\ DOMAIN offered' = DOMAIN offered /\ offered' \in [DOMAIN offered -> ProviderOf]
      /\ \A q \in DOMAIN offered : /\ offered'[q].models = offered[q].models /\ offered'[q].key = offered[q].key
                                   /\ q # p => offered'[q].enabled = offered[q].enabled
  BY <1>1 DEF ProviderOf
<1>4. EnabledHaveKeys'
  BY <1>1, <1>3 DEF EnabledHaveKeys, ToggleProvider
<1>5. ListInv'
  BY <1>2, <1>3, <1>4, ModelsAssumption DEF ToggleProvider, Listed, NoDefault
<1>6. DialogInv'
  BY <1>2, <1>3, ModelsAssumption DEF ToggleProvider, DialogInv, dialogVars, TriesAreShownOwn
<1> QED
  BY <1>5, <1>6

LEMMA EditModelsKeeps == ASSUME ModelsInv, EditModels PROVE ModelsInv'
<1> USE DEF ModelsInv, ListInv
<1>1. PICK m \in Models :
         /\ offered' = [offered EXCEPT ![editing].models = IF m \in @ THEN @ \ {m} ELSE @ \cup {m}]
         /\ dangling' = (dangling \/ (default = <<editing, m>> /\ m \in offered[editing].models))
  BY DEF EditModels
<1>2. /\ editing \in DOMAIN offered /\ modelChanges' = modelChanges + 1 /\ modelChanges' \in 0 .. MaxModelChanges
  BY ModelsAssumption DEF EditModels, Changes, DialogInv
<1>3. /\ DOMAIN offered' = DOMAIN offered /\ offered' \in [DOMAIN offered -> ProviderOf]
      /\ \A p \in DOMAIN offered : /\ offered'[p].enabled = offered[p].enabled /\ offered'[p].key = offered[p].key
                                   /\ p # editing => offered'[p].models = offered[p].models
                                   /\ \A x \in offered[p].models : x # m => x \in offered'[p].models
                                   /\ m \notin offered[p].models => offered[p].models \subseteq offered'[p].models
  BY <1>1, <1>2 DEF ProviderOf
<1>4. EnabledHaveKeys'
  BY <1>3 DEF EnabledHaveKeys, EditModels
<1>5. ASSUME ~dangling', default # NoDefault
      PROVE  default[1] \in DOMAIN offered' /\ (default[2] = "none" \/ default[2] \in offered'[default[1]].models)
  <2>1. ~dangling /\ default[1] \in DOMAIN offered /\ (default[2] = "none" \/ default[2] \in offered[default[1]].models)
    BY <1>1, <1>5 DEF Listed
  <2>2. default = <<default[1], default[2]>>
    OBVIOUS
  <2> QED
    BY <1>1, <1>3, <1>5, <2>1, <2>2
<1>6. ListInv'
  BY <1>1, <1>2, <1>3, <1>4, <1>5, ModelsAssumption DEF EditModels, Listed, NoDefault
<1>7. DialogInv'
  BY <1>2, <1>3, ModelsAssumption DEF EditModels, DialogInv, dialogVars, TriesAreShownOwn
<1> QED
  BY <1>6, <1>7

LEMMA AddProviderKeeps == ASSUME ModelsInv, AddProvider PROVE ModelsInv'
<1> USE DEF ModelsInv, ListInv
<1>1. PICK key \in BOOLEAN, ms \in SUBSET Models \ {{}} :
         /\ offered' = [p \in DOMAIN offered \cup {NewProvider} |->
                         IF p = NewProvider THEN [enabled |-> TRUE, key |-> key, models |-> ms] ELSE offered[p]]
         /\ bare' = IF key THEN bare ELSE bare \cup {NewProvider}
  BY DEF AddProvider
<1>2. /\ modelChanges' = modelChanges + 1 /\ modelChanges' \in 0 .. MaxModelChanges
  BY ModelsAssumption DEF AddProvider, Changes
<1>3. /\ NewProvider = Cardinality(BuiltIn) + modelChanges' /\ NewProvider \notin DOMAIN offered
      /\ NewProvider \in 1 .. Cardinality(BuiltIn) + modelChanges' /\ NewProvider \in Nat
  BY <1>2, ModelsAssumption DEF NewProvider
<1> DEFINE new == NewProvider
<1> HIDE DEF new
<1>4. /\ DOMAIN offered' = DOMAIN offered \cup {new} /\ offered' \in [DOMAIN offered' -> ProviderOf]
      /\ \A p \in DOMAIN offered : offered'[p] = offered[p]
      /\ offered'[new].key = key
  BY <1>1, <1>3 DEF ProviderOf, new
<1>5. /\ new \notin DOMAIN offered /\ new \in Nat /\ bare \subseteq bare' /\ (~key => new \in bare') /\ bare' \subseteq Nat
      /\ DOMAIN offered' \subseteq 1 .. Cardinality(BuiltIn) + modelChanges'
  BY <1>1, <1>2, <1>3, <1>4, ModelsAssumption DEF new
<1>6. EnabledHaveKeys'
  BY <1>4, <1>5 DEF EnabledHaveKeys
<1>7. ListInv'
  BY <1>2, <1>4, <1>5, <1>6, ModelsAssumption DEF AddProvider, Listed, NoDefault
<1>8. editing' = new /\ status' = "idle" /\ about' = 0 /\ UNCHANGED <<tries, timers, strayed>>
  BY DEF AddProvider, new
<1>9. DialogInv'
  BY <1>2, <1>4, <1>8, ModelsAssumption DEF DialogInv, TriesAreShownOwn
<1> QED
  BY <1>7, <1>9

\* The default after a deletion is listed, if a provider is enabled.
LEMMA DefaultAmongRest ==
    ASSUME NEW rest, rest \in [DOMAIN rest -> ProviderOf], DOMAIN rest \subseteq Nat,
           \E q \in DOMAIN rest : rest[q].enabled,
           NEW d \in DefaultAmong(rest)
    PROVE  /\ d \in Nat \X (Models \cup {"none"})
           /\ d[1] \in DOMAIN rest /\ (d[2] = "none" \/ d[2] \in rest[d[1]].models)
<1> DEFINE on == {p \in DOMAIN rest : rest[p].enabled}
           first == CHOOSE p \in on : \A q \in on : p <= q
<1>1. first \in on
  <2>1. on \subseteq Nat /\ on # {}
    OBVIOUS
  <2> HIDE DEF on
  <2> QED
    BY <2>1, LeastOf
<1>2. d \in IF rest[first].models = {} THEN {<<first, "none">>} ELSE {first} \X rest[first].models
  BY DEF DefaultAmong
<1> HIDE DEF first
<1>3. first \in DOMAIN rest /\ first \in Nat /\ rest[first].models \subseteq Models
  BY <1>1 DEF ProviderOf
<1> QED
  BY <1>2, <1>3

LEMMA DeleteProviderKeeps == ASSUME ModelsInv, DeleteProvider PROVE ModelsInv'
<1> USE DEF ModelsInv, ListInv
<1>1. PICK p \in DOMAIN offered \ BuiltIn :
         LET rest == [q \in DOMAIN offered \ {p} |-> offered[q]] IN
         /\ offered' = rest
         /\ default' \in IF default[1] = p THEN DefaultAmong(rest) ELSE {default}
         /\ dangling' = (dangling \/ (default[1] = p /\ \A q \in DOMAIN rest : ~rest[q].enabled))
         /\ editing' = IF editing = p THEN 0 ELSE editing
         /\ IF editing = p THEN status' = "idle" /\ about' = 0 ELSE UNCHANGED <<status, about>>
  BY DEF DeleteProvider
<1> DEFINE rest == [q \in DOMAIN offered \ {p} |-> offered[q]]
<1>2. /\ modelChanges' = modelChanges + 1 /\ modelChanges' \in 0 .. MaxModelChanges
      /\ UNCHANGED <<bare, tries, timers, strayed>>
  BY ModelsAssumption DEF DeleteProvider, Changes
<1>3. /\ DOMAIN rest = DOMAIN offered \ {p} /\ rest \in [DOMAIN rest -> ProviderOf]
      /\ \A q \in DOMAIN rest : rest[q] = offered[q]
      /\ DOMAIN rest \subseteq 1 .. Cardinality(BuiltIn) + modelChanges /\ DOMAIN rest \subseteq Nat
  BY ModelsAssumption
<1>4. /\ offered' = rest /\ default' \in IF default[1] = p THEN DefaultAmong(rest) ELSE {default}
      /\ dangling' = (dangling \/ (default[1] = p /\ \A q \in DOMAIN rest : ~rest[q].enabled))
  BY <1>1
<1> HIDE DEF rest
<1>5. EnabledHaveKeys'
  BY <1>2, <1>3, <1>4 DEF EnabledHaveKeys
<1>6. ASSUME default[1] = p, \E q \in DOMAIN rest : rest[q].enabled
      PROVE  default' \in Nat \X (Models \cup {"none"}) /\ Listed'
  <2>1. default' \in DefaultAmong(rest)
    BY <1>4, <1>6
  <2>2. /\ default' \in Nat \X (Models \cup {"none"})
        /\ default'[1] \in DOMAIN rest /\ (default'[2] = "none" \/ default'[2] \in rest[default'[1]].models)
    BY <1>3, <1>6, <2>1, DefaultAmongRest
  <2> QED
    BY <1>4, <2>2 DEF Listed
<1>7. ASSUME default[1] = p, \A q \in DOMAIN rest : ~rest[q].enabled
      PROVE  default' \in Nat \X (Models \cup {"none"}) /\ Listed'
  <2>1. default' = default /\ dangling' = TRUE
    BY <1>4, <1>7 DEF DefaultAmong
  <2> QED
    BY <2>1 DEF Listed
<1>8. ASSUME default[1] # p
      PROVE  default' \in Nat \X (Models \cup {"none"}) /\ Listed'
  <2>1. default' = default /\ dangling' = dangling
    BY <1>4, <1>8
  <2>2. default[1] \in DOMAIN offered => default[1] \in DOMAIN rest /\ rest[default[1]] = offered[default[1]]
    BY <1>3, <1>8
  <2> QED
    BY <1>4, <2>1, <2>2 DEF Listed, NoDefault
<1>9. ListInv'
  <2>1. dangling' \in BOOLEAN
    BY <1>4
  <2> QED
    BY <1>2, <1>3, <1>4, <1>5, <1>6, <1>7, <1>8, <2>1, ModelsAssumption
<1>10. DialogInv'
  BY <1>1, <1>2, <1>3, <1>4, ModelsAssumption DEF DialogInv, TriesAreShownOwn
<1> QED
  BY <1>9, <1>10

LEMMA PickDefaultKeeps == ASSUME ModelsInv, PickDefault PROVE ModelsInv'
<1> USE DEF ModelsInv, ListInv
<1>0. PICK p \in DOMAIN offered : \E m \in offered[p].models : default' = <<p, m>>
  BY DEF PickDefault
<1>1. PICK m \in offered[p].models : default' = <<p, m>>
  BY <1>0
<1>2. /\ modelChanges' = modelChanges + 1 /\ modelChanges' \in 0 .. MaxModelChanges
  BY ModelsAssumption DEF PickDefault, Changes
<1>3. p \in Nat /\ m \in Models
  BY ModelsAssumption DEF ProviderOf
<1>4. Listed' /\ default' \in Nat \X (Models \cup {"none"}) /\ EnabledHaveKeys'
  BY <1>1, <1>3 DEF PickDefault, Listed, EnabledHaveKeys
<1>5. ListInv'
  <2>1. dangling' \in BOOLEAN
    BY DEF PickDefault
  <2> QED
    BY <1>2, <1>4, <2>1, ModelsAssumption DEF PickDefault
<1>6. DialogInv'
  BY <1>2, ModelsAssumption DEF PickDefault, DialogInv, dialogVars, TriesAreShownOwn
<1> QED
  BY <1>5, <1>6

LEMMA DialogKeeps ==
    ASSUME ModelsInv, OpenDialog \/ TryConnection \/ TryAnswered \/ StatusCleared
    PROVE  ModelsInv'
<1> USE DEF ModelsInv
<1>1. CASE OpenDialog
  <2>1. ListInv'
    BY <1>1 DEF OpenDialog, listVars, ListInv, EnabledHaveKeys, Listed
  <2>2. DialogInv'
    BY <1>1 DEF OpenDialog, listVars, DialogInv, StatusReset, TriesAreShownOwn
  <2> QED
    BY <2>1, <2>2
<1>2. CASE TryConnection
  <2>1. /\ modelChanges' = modelChanges + 1 /\ modelChanges' \in 0 .. MaxModelChanges
        /\ UNCHANGED <<offered, default, bare, dangling, editing, strayed>>
    BY <1>2, ModelsAssumption DEF TryConnection, Changes, ListInv
  <2>2. ListInv'
    BY <2>1, ModelsAssumption DEF ListInv, EnabledHaveKeys, Listed
  <2>3. editing \in Nat /\ about' = editing
    BY <1>2, ModelsAssumption DEF TryConnection, ListInv, DialogInv
  <2>4. tries' \subseteq Nat \X (1 .. modelChanges')
    BY <1>2, <2>1, <2>3, ModelsAssumption DEF TryConnection, ListInv, DialogInv
  <2>5. status' \in {"idle", "loading", "success", "error"} /\ timers' \in Nat
    BY <1>2 DEF TryConnection, DialogInv
  <2>6. DialogInv'
    BY <2>1, <2>3, <2>4, <2>5 DEF DialogInv, TriesAreShownOwn
  <2> QED
    BY <2>2, <2>6
<1>3. CASE TryAnswered
  <2>1. ListInv'
    BY <1>3 DEF TryAnswered, listVars, ListInv, EnabledHaveKeys, Listed
  <2>2. PICK x \in tries : /\ tries' = tries \ {x} /\ about' = x[1]
                           /\ strayed' = (strayed \/ editing # x[1] \/ status # "loading" \/ tries' # {})
    BY <1>3 DEF TryAnswered
  <2>3. UNCHANGED <<offered, modelChanges, editing>> /\ status' \in {"success", "error"} /\ timers' = timers + 1
    BY <1>3 DEF TryAnswered, listVars
  <2>4. strayed' \/ about' = editing
    BY <2>2
  <2>5. TriesAreShownOwn'
    BY <2>3, <2>4 DEF TriesAreShownOwn
  <2>6. strayed' \in BOOLEAN
    BY <2>2
  <2>7. DialogInv'
    BY <2>2, <2>3, <2>5, <2>6 DEF DialogInv
  <2> QED
    BY <2>1, <2>7
<1>4. CASE StatusCleared
  <2>1. ListInv'
    BY <1>4 DEF StatusCleared, listVars, ListInv, EnabledHaveKeys, Listed
  <2>2. DialogInv'
    BY <1>4 DEF StatusCleared, listVars, DialogInv, TriesAreShownOwn
  <2> QED
    BY <2>1, <2>2
<1> QED
  BY <1>1, <1>2, <1>3, <1>4

LEMMA ModelsKeep == ASSUME ModelsInv, [ModelsNext]_modelVars PROVE ModelsInv'
<1>1. CASE UNCHANGED modelVars
  BY <1>1 DEF modelVars, ModelsInv, ListInv, DialogInv, EnabledHaveKeys, Listed, TriesAreShownOwn
<1> QED
  BY <1>1, EditKeyKeeps, ToggleProviderKeeps, EditModelsKeeps, AddProviderKeeps, DeleteProviderKeeps,
     PickDefaultKeeps, DialogKeeps DEF ModelsNext

\* What the settings' properties say of the models follows.
LEMMA ModelsShow ==
    ASSUME ModelsInv PROVE ModelsTypeOK /\ EnabledHaveKeys /\ DefaultIsListed /\ TriesAreShownOwn
<1> USE DEF ModelsInv, ListInv
<1>1. \A p \in DOMAIN offered : /\ p \in Nat \ {0} /\ offered[p].enabled \in BOOLEAN /\ offered[p].key \in BOOLEAN
                                /\ offered[p].models \subseteq Models
  BY ModelsAssumption DEF ProviderOf
<1>2. ModelsTypeOK
  BY <1>1, ModelsAssumption DEF ModelsTypeOK, DialogInv
<1>3. DefaultIsListed
  <2>1. ASSUME ModelConfig # NoDefault PROVE default # NoDefault
    BY <2>1 DEF ModelConfig
  <2> QED
    BY <2>1 DEF DefaultIsListed, NoDefault, Listed
<1> QED
  BY <1>2, <1>3 DEF DialogInv

\* For any providers and models: an enabled provider has a key, the default is
\* a model of a listed provider, and a try's outcome is shown with the provider
\* that was tried, apart from the exceptions each of them names
\* (ModelSettings.tsx, useAgent.ts getModelConfig).
THEOREM ModelsHold == ModelsSpec => [](ModelsTypeOK /\ EnabledHaveKeys /\ DefaultIsListed /\ TriesAreShownOwn)
<1>1. ModelsInit => ModelsInv
  BY ModelsStart
<1>2. ModelsInv /\ [ModelsNext]_modelVars => ModelsInv'
  BY ModelsKeep
<1>3. ModelsInv => ModelsTypeOK /\ EnabledHaveKeys /\ DefaultIsListed /\ TriesAreShownOwn
  BY ModelsShow
<1> QED
  BY <1>1, <1>2, <1>3, PTL DEF ModelsSpec
-----------------------------------------------------------------------------
(* McpConfig: the requests are numbered, the file is written for the       *)
(* oldest, and the newest has the list.                                    *)

PostOf == [names : SUBSET Servers, whole : SUBSET Servers, n : 1 .. MaxEdits, state : {"sent", "writing"}]
OldestWrites == \A p, q \in posts : p.state = "writing" /\ q # p => p.n < q.n
NewestPost(p) == \A q \in posts : q.n <= p.n
TellsList(p) == CompleteByAll(listed) \subseteq p.whole /\ p.whole \subseteq Complete(listed)
NewestTells == posts # {} => \E p \in posts : TellsList(p) /\ NewestPost(p)

PostsInv ==
    /\ posts \subseteq PostOf /\ edits \in 0 .. MaxEdits
    /\ \A p \in posts : p.n <= edits /\ p.whole \subseteq p.names
    /\ \A p, q \in posts : p.n = q.n => p = q

PageInv ==
    /\ form \in {"absent", "wrapped", "direct", "broken"} /\ opened \in {"loading", "open", "failed"}
    /\ inFile \in [names : SUBSET Servers, runs : SUBSET Servers, kept : SUBSET Servers]
    /\ inFile.kept \subseteq inFile.names
    /\ foreign \subseteq Servers /\ listed \subseteq Servers \X Servers \X BOOLEAN
    /\ unsure \in BOOLEAN

McpInv == /\ PostsInv /\ PageInv
          /\ opened = "open" /\ ~unsure => RunsHaveListedServers /\ OldestWrites /\ NewestTells

LEMMA McpStarts == ASSUME McpInit PROVE McpInv
<1>1. PICK names, runs, still \in SUBSET Servers :
        /\ still \subseteq runs /\ runs \subseteq names
        /\ inFile = IF form \in {"absent", "broken"} THEN NoServers ELSE FileOf(names, runs, still)
  BY DEF McpInit
<1>2. /\ inFile \in [names : SUBSET Servers, runs : SUBSET Servers, kept : SUBSET Servers]
      /\ inFile.kept \subseteq inFile.names
  BY <1>1 DEF NoServers, FileOf
<1>3. /\ posts = {} /\ edits \in 0 .. MaxEdits /\ listed = {} /\ opened = "loading" /\ unsure = FALSE
      /\ form \in {"absent", "wrapped", "direct", "broken"} /\ foreign \subseteq Servers
  BY McpAssumption DEF McpInit
<1> QED
  BY <1>2, <1>3 DEF McpInv, PostsInv, PageInv

\* The page's list is the file's, with what it keeps of each server.
LEMMA McpPageShows ==
    ASSUME McpInv, form = "wrapped"
    PROVE  /\ PageServers \subseteq Servers \X Servers \X BOOLEAN
           /\ Complete(PageServers) = inFile.kept /\ CompleteByAll(PageServers) = inFile.kept
<1> DEFINE row(t) == <<t, t, t \in inFile.kept>>
<1>1. inFile.names \subseteq Servers /\ inFile.kept \subseteq inFile.names
  BY DEF McpInv, PageInv
<1>2. PageServers = {row(t) : t \in inFile.names}
  BY DEF PageServers
<1>3. \A t : row(t)[1] = t /\ row(t)[2] = t /\ row(t)[3] = (t \in inFile.kept)
  BY Zenon
<1>4. \A t \in inFile.names : row(t) \in Servers \X Servers \X BOOLEAN
  <2> SUFFICES ASSUME NEW t \in inFile.names PROVE row(t) \in Servers \X Servers \X BOOLEAN
    OBVIOUS
  <2>1. t \in Servers /\ (t \in inFile.kept) \in BOOLEAN
    BY <1>1, SMT
  <2> QED
    BY <2>1, Zenon
<1> HIDE DEF row
<1>5. \A t : t \in NamesOf(PageServers) <=> t \in inFile.names
  <2>1. ASSUME NEW t, t \in NamesOf(PageServers) PROVE t \in inFile.names
    <3>1. PICK s \in PageServers : t = s[2]
      BY <2>1, Zenon DEF NamesOf
    <3>2. PICK u \in inFile.names : s = row(u)
      BY <1>2, Zenon
    <3> QED
      BY <1>3, <3>1, <3>2, Zenon
  <2>2. ASSUME NEW t, t \in inFile.names PROVE t \in NamesOf(PageServers)
    <3>1. row(t) \in PageServers /\ row(t)[2] = t
      BY <1>2, <1>3, <2>2, Zenon
    <3> QED
      BY <3>1, Zenon DEF NamesOf
  <2> QED
    BY <2>1, <2>2
<1>6. \A s \in PageServers : s[3] = (s[2] \in inFile.kept)
  <2> SUFFICES ASSUME NEW s \in PageServers PROVE s[3] = (s[2] \in inFile.kept)
    OBVIOUS
  <2>1. PICK t \in inFile.names : s = row(t)
    BY <1>2, Zenon
  <2>2. s[2] = t /\ s[3] = (t \in inFile.kept)
    BY <1>3, <2>1, Zenon
  <2> QED
    BY <2>2, Zenon
<1>7. \A t \in inFile.names : \E s \in PageServers : s[2] = t
  BY <1>2, <1>3, Zenon
<1>8. PageServers \subseteq Servers \X Servers \X BOOLEAN
  BY <1>2, <1>4, Zenon
<1>9. Complete(PageServers) = inFile.kept
  <2>1. \A t : t \in Complete(PageServers) <=>
              t \in NamesOf(PageServers) /\ \E s \in PageServers : s[2] = t /\ s[3]
    BY Zenon DEF Complete
  <2>2. ASSUME NEW t PROVE t \in Complete(PageServers) <=> t \in inFile.kept
    <3>1. CASE t \in inFile.names
      <4>1. (\E s \in PageServers : s[2] = t /\ s[3]) <=> t \in inFile.kept
        BY <1>6, <1>7, <3>1, Zenon
      <4>2. t \in NamesOf(PageServers)
        BY <1>5, <3>1, Zenon
      <4> QED
        BY <2>1, <4>1, <4>2, Zenon
    <3>2. CASE t \notin inFile.names
      <4>1. t \notin NamesOf(PageServers) /\ t \notin inFile.kept
        BY <1>1, <1>5, <3>2, Zenon
      <4> QED
        BY <2>1, <4>1, Zenon
    <3> QED
      BY <3>1, <3>2
  <2> QED
    BY <2>2, Zenon
<1>10. CompleteByAll(PageServers) = inFile.kept
  <2>1. \A t : t \in CompleteByAll(PageServers) <=>
              t \in NamesOf(PageServers) /\ \A s \in PageServers : s[2] = t => s[3]
    BY Zenon DEF CompleteByAll
  <2>2. ASSUME NEW t PROVE t \in CompleteByAll(PageServers) <=> t \in inFile.kept
    <3>1. CASE t \in inFile.names
      <4>1. (\A s \in PageServers : s[2] = t => s[3]) <=> t \in inFile.kept
        BY <1>6, <1>7, <3>1, Zenon
      <4>2. t \in NamesOf(PageServers)
        BY <1>5, <3>1, Zenon
      <4> QED
        BY <2>1, <4>1, <4>2, Zenon
    <3>2. CASE t \notin inFile.names
      <4>1. t \notin NamesOf(PageServers) /\ t \notin inFile.kept
        BY <1>1, <1>5, <3>2, Zenon
      <4> QED
        BY <2>1, <4>1, Zenon
    <3> QED
      BY <3>1, <3>2
  <2> QED
    BY <2>2, Zenon
<1> QED
  BY <1>8, <1>9, <1>10

LEMMA OpenedKeeps == ASSUME McpInv, Opened PROVE McpInv'
<1>1. PostsInv' /\ UNCHANGED <<form, inFile, foreign, posts, edits>> /\ AgentServers' = AgentServers
  BY DEF McpInv, Opened, PostsInv, AgentServers
<1>2. /\ Complete({}) = {} /\ CompleteByAll({}) = {}
      /\ form # "wrapped" => PageServers = {}
  BY DEF Complete, CompleteByAll, NamesOf, PageServers
<1>3. PageServers \subseteq Servers \X Servers \X BOOLEAN
  BY <1>2, McpPageShows
<1>4. CASE opened' = "open" /\ listed' = PageServers /\ unsure' = (ReadOtherwise \/ posts # {})
  <2>1. PICK S : S = PageServers
    OBVIOUS
  <2>2. PageInv'
    <3>1. unsure' \in BOOLEAN /\ listed' \subseteq Servers \X Servers \X BOOLEAN
      BY <1>3, <1>4
    <3> QED
      BY <1>1, <1>4, <3>1 DEF McpInv, PageInv
  <2>3. ASSUME ~unsure' PROVE RunsHaveListedServers' /\ OldestWrites' /\ NewestTells'
    <3>1. ~ReadOtherwise /\ posts = {} /\ posts' = {}
      BY <1>1, <1>4, <2>3
    <3>2. CompleteByAll(PageServers) \subseteq AgentServers /\ AgentServers \subseteq Complete(PageServers)
      <4>1. CASE form = "wrapped"
        <5>1. inFile.runs = inFile.kept /\ AgentServers = inFile.runs
          BY <3>1, <4>1 DEF ReadOtherwise, AgentServers
        <5> QED
          BY <4>1, <5>1, McpPageShows
      <4>2. CASE form = "direct"
        BY <1>2, <3>1, <4>2 DEF ReadOtherwise, AgentServers
      <4>3. CASE form \in {"absent", "broken"}
        BY <1>2, <4>3 DEF AgentServers
      <4> QED
        BY <4>1, <4>2, <4>3 DEF McpInv, PageInv
    <3>3. CompleteByAll(listed') \subseteq AgentServers' /\ AgentServers' \subseteq Complete(listed')
      BY <1>1, <1>4, <3>2
    <3> QED
      BY <3>1, <3>3 DEF RunsHaveListedServers, OldestWrites, NewestTells, Complete, CompleteByAll, NamesOf
  <2> QED
    BY <1>1, <2>2, <2>3 DEF McpInv
<1>5. CASE opened' = "failed" /\ listed' = {} /\ unsure' = TRUE
  BY <1>1, <1>5 DEF McpInv, PageInv
<1> QED
  BY <1>4, <1>5 DEF Opened

LEMMA OpenTabKeeps == ASSUME McpInv, OpenTab PROVE McpInv'
  BY McpAssumption DEF McpInv, OpenTab, PostsInv, PageInv, PostOf

\* A save carries the whole list, and is the newest request.
LEMMA SaveKeeps ==
    ASSUME McpInv, NEW S \in SUBSET (Servers \X Servers \X BOOLEAN), SaveServers(S) PROVE McpInv'
<1>0. PICK W \in SUBSET Complete(S) :
        /\ CompleteByAll(S) \subseteq W
        /\ posts' = posts \cup {[names |-> NamesOf(S), whole |-> W, n |-> edits', state |-> "sent"]}
  <2>1. PICK saved \in SavedServers(S) : posts' = posts \cup
              {[names |-> saved.names, whole |-> saved.whole, n |-> edits', state |-> "sent"]}
    BY DEF SaveServers
  <2>2. PICK W \in SUBSET Complete(S) : CompleteByAll(S) \subseteq W /\ saved = [names |-> NamesOf(S), whole |-> W]
    BY DEF SavedServers
  <2> QED
    BY <2>1, <2>2
<1> DEFINE post == [names |-> NamesOf(S), whole |-> W, n |-> edits', state |-> "sent"]
<1>1. /\ edits' = edits + 1 /\ edits' \in 1 .. MaxEdits /\ listed' = S /\ opened # "loading"
      /\ posts' = posts \cup {post}
      /\ UNCHANGED <<form, inFile, foreign, opened, unsure>>
  BY <1>0, McpAssumption DEF SaveServers, McpInv, PostsInv
<1>2. /\ post \in PostOf /\ post.n = edits' /\ post.whole = W /\ post.state = "sent"
      /\ post.whole \subseteq post.names
  <2>1. NamesOf(S) \subseteq Servers /\ W \subseteq NamesOf(S)
    BY DEF NamesOf, Complete
  <2> QED
    BY <1>1, <2>1 DEF PostOf
<1> HIDE DEF post
<1>3. \A p \in posts : p.n < post.n /\ p.n \in Nat
  BY <1>1, <1>2 DEF McpInv, PostsInv, PostOf
<1>4. PostsInv'
  BY <1>1, <1>2, <1>3 DEF McpInv, PostsInv
<1>5. PageInv'
  BY <1>1 DEF McpInv, PageInv
<1>6. ASSUME OldestWrites PROVE OldestWrites'
  BY <1>1, <1>2, <1>3, <1>6 DEF OldestWrites
<1>7. NewestTells'
  <2>1. post \in posts' /\ CompleteByAll(listed') \subseteq post.whole /\ post.whole \subseteq Complete(listed')
    BY <1>0, <1>1, <1>2
  <2>2. \A q \in posts' : q.n <= post.n
    BY <1>1, <1>2, <1>3
  <2> QED
    BY <2>1, <2>2 DEF NewestTells, NewestPost, TellsList, Complete, CompleteByAll, NamesOf
<1>8. RunsHaveListedServers'
  BY <1>1 DEF RunsHaveListedServers
<1> QED
  BY <1>1, <1>4, <1>5, <1>6, <1>7, <1>8 DEF McpInv

LEMMA EditsKeep ==
    ASSUME McpInv, ImportServers \/ AddServer \/ EditServer \/ DeleteServer PROVE McpInv'
<1> USE DEF McpInv, PageInv
<1>1. CASE ImportServers
  <2>1. PICK names \in SUBSET Servers : \E whole \in SUBSET names, old \in SUBSET listed :
          SaveServers((listed \ old) \cup {<<t, t, t \in whole>> : t \in names})
    BY <1>1 DEF ImportServers
  <2>2. PICK whole \in SUBSET names, old \in SUBSET listed :
          SaveServers((listed \ old) \cup {<<t, t, t \in whole>> : t \in names})
    BY <2>1
  <2>3. ASSUME NEW t \in names PROVE <<t, t, t \in whole>> \in Servers \X Servers \X BOOLEAN
    <3>1. t \in Servers /\ (t \in whole) \in BOOLEAN
      BY SMT
    <3> QED
      BY <3>1, Zenon
  <2>4. {<<t, t, t \in whole>> : t \in names} \subseteq Servers \X Servers \X BOOLEAN
    BY <2>3, Zenon
  <2>5. (listed \ old) \cup {<<t, t, t \in whole>> : t \in names} \in SUBSET (Servers \X Servers \X BOOLEAN)
    BY <2>4, Zenon
  <2> QED
    BY <2>2, <2>5, SaveKeeps
<1>2. CASE AddServer
  <2>1. PICK t \in Servers, whole \in BOOLEAN : SaveServers(listed \cup {<<t, t, whole>>})
    BY <1>2 DEF AddServer
  <2>2. listed \cup {<<t, t, whole>>} \in SUBSET (Servers \X Servers \X BOOLEAN)
    OBVIOUS
  <2> QED
    BY <2>1, <2>2, SaveKeeps
<1>3. CASE EditServer
  <2>1. PICK s \in listed, t \in Servers, whole \in BOOLEAN :
          SaveServers((listed \ {s}) \cup {<<s[1], t, whole>>})
    BY <1>3 DEF EditServer
  <2>2. (listed \ {s}) \cup {<<s[1], t, whole>>} \in SUBSET (Servers \X Servers \X BOOLEAN)
    OBVIOUS
  <2> QED
    BY <2>1, <2>2, SaveKeeps
<1>4. CASE DeleteServer
  BY <1>4, SaveKeeps DEF DeleteServer
<1> QED
  BY <1>1, <1>2, <1>3, <1>4

LEMMA WriteBeginsKeeps == ASSUME McpInv, WriteBegins PROVE McpInv'
<1>1. PICK p \in posts :
        /\ p.state = "sent"
        /\ posts' = (posts \ {p}) \cup {[p EXCEPT !.state = "writing"]}
        /\ unsure' = (unsure \/ \E q \in posts \ {p} : q.n < p.n \/ q.state = "writing")
  BY DEF WriteBegins
<1> DEFINE w == [p EXCEPT !.state = "writing"]
<1>2. p \in PostOf /\ w \in PostOf /\ w.names = p.names /\ w.whole = p.whole /\ w.n = p.n /\ w.state = "writing"
  BY DEF McpInv, PostsInv, PostOf
<1>3. posts' = (posts \ {p}) \cup {w}
  BY <1>1
<1> HIDE DEF w
<1>4. form' = "broken" /\ inFile' = NoServers /\ UNCHANGED <<foreign, listed, opened, edits>>
  BY DEF WriteBegins
<1>5. PostsInv'
  BY <1>2, <1>3, <1>4 DEF McpInv, PostsInv
<1>6. unsure' \in BOOLEAN /\ (~unsure' => ~unsure /\ \A q \in posts \ {p} : ~(q.n < p.n) /\ q.state # "writing")
  BY <1>1 DEF McpInv, PageInv
<1>7. PageInv'
  <2>1. /\ inFile' \in [names : SUBSET Servers, runs : SUBSET Servers, kept : SUBSET Servers]
        /\ inFile'.kept \subseteq inFile'.names
    BY <1>4 DEF NoServers, FileOf
  <2> QED
    BY <1>4, <1>6, <2>1 DEF McpInv, PageInv
<1>8. ASSUME ~unsure', opened = "open" PROVE RunsHaveListedServers' /\ OldestWrites' /\ NewestTells'
  <2>1. OldestWrites /\ NewestTells /\ \A q \in posts \ {p} : ~(q.n < p.n) /\ q.state # "writing"
    BY <1>6, <1>8 DEF McpInv
  <2>2. \A q \in posts \ {p} : q.n \in Nat /\ p.n \in Nat /\ q.n # p.n
    BY DEF McpInv, PostsInv, PostOf
  <2>3. \A q \in posts \ {p} : w.n < q.n
    BY <1>2, <2>1, <2>2
  <2>4. OldestWrites'
    BY <1>2, <1>3, <2>1, <2>3 DEF OldestWrites
  <2>5. PICK l \in posts : TellsList(l) /\ \A q \in posts : q.n <= l.n
    BY <2>1 DEF NewestTells, NewestPost
  <2>6. \E x \in posts' : x.whole = l.whole /\ \A q \in posts' : q.n <= x.n
    <3>1. CASE l = p
      <4>1. w \in posts' /\ w.whole = l.whole /\ \A q \in posts' : q.n <= w.n
        BY <1>2, <1>3, <2>2, <2>5, <3>1
      <4> QED
        BY <4>1
    <3>2. CASE l # p
      <4>1. l \in posts' /\ \A q \in posts' : q.n <= l.n
        BY <1>2, <1>3, <2>5, <3>2
      <4> QED
        BY <4>1
    <3> QED
      BY <3>1, <3>2
  <2>7. NewestTells'
    <3>1. PICK x \in posts' : x.whole = l.whole /\ \A q \in posts' : q.n <= x.n
      BY <2>6
    <3>2. Complete(listed') = Complete(listed) /\ CompleteByAll(listed') = CompleteByAll(listed)
      BY <1>4
    <3>3. TellsList(x)'
      BY <2>5, <3>1, <3>2 DEF TellsList, Complete, CompleteByAll, NamesOf
    <3> QED
      BY <3>1, <3>3 DEF NewestTells, NewestPost
  <2>8. RunsHaveListedServers'
    BY <1>3 DEF RunsHaveListedServers
  <2> QED
    BY <2>4, <2>7, <2>8
<1> QED
  BY <1>4, <1>5, <1>7, <1>8 DEF McpInv

LEMMA WriteEndsKeeps == ASSUME McpInv, WriteEnds PROVE McpInv'
<1>1. PICK p \in posts : /\ p.state = "writing" /\ posts' = posts \ {p}
                         /\ inFile' = FileOf(p.names, p.whole, p.whole)
  BY DEF WriteEnds
<1>2. form' = "wrapped" /\ UNCHANGED <<foreign, listed, opened, edits, unsure>>
  BY DEF WriteEnds
<1>3. p.names \subseteq Servers /\ p.whole \subseteq p.names
  BY DEF McpInv, PostsInv, PostOf
<1>4. PostsInv'
  BY <1>1, <1>2 DEF McpInv, PostsInv
<1>5. PageInv' /\ AgentServers' = p.whole
  <2>1. /\ inFile' \in [names : SUBSET Servers, runs : SUBSET Servers, kept : SUBSET Servers]
        /\ inFile'.kept \subseteq inFile'.names /\ inFile'.runs = p.whole
    BY <1>1, <1>3 DEF FileOf
  <2> QED
    BY <1>2, <2>1 DEF McpInv, PageInv, AgentServers
<1>6. ASSUME ~unsure, opened = "open" PROVE RunsHaveListedServers' /\ OldestWrites' /\ NewestTells'
  <2>1. OldestWrites /\ NewestTells
    BY <1>6 DEF McpInv
  <2>2. PICK l \in posts : TellsList(l) /\ \A q \in posts : q.n <= l.n
    BY <2>1 DEF NewestTells, NewestPost
  <2>3. OldestWrites'
    BY <1>1, <2>1 DEF OldestWrites
  <2>4. ASSUME posts' # {} PROVE l # p
    BY <1>1, <2>1, <2>2, <2>4 DEF OldestWrites, McpInv, PostsInv, PostOf
  <2>5. Complete(listed') = Complete(listed) /\ CompleteByAll(listed') = CompleteByAll(listed)
    BY <1>2
  <2>6. NewestTells'
    <3>1. ASSUME posts' # {} PROVE l \in posts' /\ \A q \in posts' : q.n <= l.n
      BY <1>1, <2>2, <2>4, <3>1
    <3>2. TellsList(l)'
      BY <2>2, <2>5 DEF TellsList, Complete, CompleteByAll, NamesOf
    <3> QED
      BY <3>1, <3>2 DEF NewestTells, NewestPost
  <2>7. RunsHaveListedServers'
    <3>1. ASSUME posts' = {}
          PROVE  CompleteByAll(listed') \subseteq AgentServers' /\ AgentServers' \subseteq Complete(listed')
      <4>1. l = p
        BY <1>1, <3>1
      <4> QED
        BY <1>5, <2>2, <2>5, <4>1 DEF TellsList
    <3> QED
      BY <3>1 DEF RunsHaveListedServers, Complete, CompleteByAll, NamesOf
  <2> QED
    BY <2>3, <2>6, <2>7
<1> QED
  BY <1>2, <1>4, <1>5, <1>6 DEF McpInv

LEMMA PostFailsKeeps == ASSUME McpInv, PostFails PROVE McpInv'
  BY DEF McpInv, PostFails, PostsInv, PageInv

LEMMA McpKeeps == ASSUME McpInv, [McpNext]_mcpVars PROVE McpInv'
<1>1. CASE UNCHANGED mcpVars
  BY <1>1 DEF mcpVars, McpInv, PostsInv, PageInv, OldestWrites, NewestTells, NewestPost, TellsList,
      RunsHaveListedServers, AgentServers, Complete, CompleteByAll, NamesOf
<1> QED
  BY <1>1, OpenedKeeps, OpenTabKeeps, EditsKeep, WriteBeginsKeeps, WriteEndsKeeps, PostFailsKeeps DEF McpNext

LEMMA McpShows == ASSUME McpInv PROVE McpTypeOK /\ RunsHaveListedServers
<1>1. \A p \in posts : p.names \subseteq Servers /\ p.whole \subseteq p.names /\ p.n \in 1 .. MaxEdits /\ p.state \in {"sent", "writing"}
  BY DEF McpInv, PostsInv, PostOf
<1>2. McpTypeOK
  BY <1>1 DEF McpInv, PostsInv, PageInv, McpTypeOK
<1> QED
  BY <1>2 DEF McpInv, RunsHaveListedServers

\* For any servers and any number of edits, an agent's run gets the servers that
\* the page lists with a command or URL, and no others, once the requests are
\* over, unless the page does not show the file as a run reads it or requests
\* were lost, overtaken or overlapped (MCPSettings.tsx, api/mcp.ts,
\* shared/mcp/loader.ts).
THEOREM McpHolds == McpSpec => [](McpTypeOK /\ RunsHaveListedServers)
<1>1. McpInit => McpInv
  BY McpStarts
<1>2. McpInv /\ [McpNext]_mcpVars => McpInv'
  BY McpKeeps
<1>3. McpInv => McpTypeOK /\ RunsHaveListedServers
  BY McpShows
<1> QED
  BY <1>1, <1>2, <1>3, PTL DEF McpSpec
-----------------------------------------------------------------------------
(* ShellSettings: whatever phase the program is in, either nothing is      *)
(* saved, or everything is, or the newest save will save it.               *)

Value == 0 .. MaxChanges + 2
SaveOf == [object : Objects, done : 0 .. 2]
Memory == {<<>>} \cup {<<o>> : o \in Objects}

StoreInv ==
    /\ \A k \in DOMAIN rows : k \in {"model", "rest"} /\ rows[k] \in Value
    /\ storage \in Memory /\ cache \in Memory /\ window \in Objects /\ asked \in Objects
    /\ phase \in {"off", "hydrating", "storing", "up", "clearing", "leaving"}
    /\ saves \in Seq(SaveOf) /\ syncs \subseteq Value \X Nat
    /\ told \in Value /\ changes \in 2 .. MaxChanges + 2 /\ muddled \in BOOLEAN /\ missed \in BOOLEAN
    /\ asked.rest # 0
    /\ \A m \in syncs : m[2] <= changes
    /\ phase \in {"hydrating", "storing", "up"} => cache # <<>>

\* Nothing was saved yet, or it was cleared.
Blank == [Defaults EXCEPT !.rest = 1]
Fresh == rows = <<>> /\ storage = <<>> /\ asked = Blank

\* Everything was saved.
RowsSaved == \A k \in {"model", "rest"} : k \in DOMAIN rows /\ rows[k] = asked[k]
Saved == saves = <<>> /\ storage = <<asked>> /\ RowsSaved

\* The rows have what the newest save wrote, and it saves what was asked.
Saving ==
    LET n == Len(saves) IN
    /\ n > 0 /\ saves[n].object = asked
    /\ \A i, j \in 1 .. n : i < j => saves[j].done <= saves[i].done
    /\ saves[n].done >= 1 => "model" \in DOMAIN rows /\ rows["model"] = asked["model"]
    /\ saves[n].done >= 2 => "rest" \in DOMAIN rows /\ rows["rest"] = asked["rest"]

SavedOrSaving ==
    \/ phase = "off" /\ saves = <<>> /\ (Fresh \/ Saved)
    \/ phase = "hydrating" /\ saves = <<>> /\ cache = <<asked>> /\ (Fresh \/ Saved)
    \/ phase \in {"storing", "up"} /\ cache = <<asked>> /\ (Saved \/ Saving)
    \/ phase = "clearing" /\ saves = <<>> /\ rows = <<>> /\ asked = Blank
    \/ phase = "leaving" /\ ((saves = <<>> /\ Fresh) \/ Saved \/ Saving)

\* The backend has the model, or the newest request carries it.
NewestCarries == \E m \in syncs : m[1] = asked.model /\ \A n \in syncs : n = m \/ n[2] < m[2]
ToldOrTelling ==
    IF phase \in {"off", "hydrating"} THEN syncs = {} /\ asked.model \in {0, told}
    ELSE (syncs = {} /\ told = asked.model) \/ NewestCarries

SettingsInv == StoreInv /\ (~muddled => SavedOrSaving /\ (~missed => ToldOrTelling))

-----------------------------------------------------------------------------
LEMMA ObjectFacts ==
    /\ Defaults \in Objects /\ Blank \in Objects /\ Blank.model = 0 /\ Blank.rest = 1
    /\ DOMAIN Defaults = {"model", "rest"}
    /\ \A o \in Objects : o.model \in Value /\ o.rest \in Value /\ o["model"] = o.model /\ o["rest"] = o.rest
  BY SettingsAssumption DEF Defaults, Objects, Blank, Value

LEMMA SettingsStarts == ASSUME SettingsInit PROVE SettingsInv
<1>1. saves = <<>> /\ saves \in Seq(SaveOf) /\ DOMAIN rows = {}
  BY DEF SettingsInit
<1>2. StoreInv
  <2>1. /\ storage \in Memory /\ cache \in Memory /\ window \in Objects /\ asked \in Objects /\ asked.rest # 0
    BY ObjectFacts DEF SettingsInit, Memory, Blank
  <2>2. told \in Value /\ changes \in 2 .. MaxChanges + 2
    BY SettingsAssumption DEF SettingsInit, Value
  <2>3. muddled \in BOOLEAN /\ missed \in BOOLEAN
    BY DEF SettingsInit
  <2> QED
    BY <1>1, <2>1, <2>2, <2>3 DEF SettingsInit, StoreInv
<1>3. SavedOrSaving
  BY DEF SettingsInit, SavedOrSaving, Fresh, Blank
<1>4. ToldOrTelling
  BY ObjectFacts DEF SettingsInit, ToldOrTelling, Blank
<1> QED
  BY <1>2, <1>3, <1>4 DEF SettingsInv

\* What start-up loads: the defaults at first, else what was asked.
LEMMA LoadedFacts ==
    ASSUME StoreInv
    PROVE  /\ Loaded \in Objects
           /\ Fresh => Loaded = Defaults
           /\ Saved => Loaded = asked
<1>1. CASE DOMAIN rows # {}
  <2>1. Loaded = [k \in DOMAIN Defaults |-> IF k \in DOMAIN rows THEN rows[k] ELSE Defaults[k]]
    BY <1>1 DEF Loaded
  <2>2. Loaded \in Objects
    BY <2>1, ObjectFacts DEF StoreInv, Objects, Value
  <2>3. ~Fresh
    BY <1>1 DEF Fresh
  <2>4. ASSUME Saved PROVE Loaded = asked
    <3>1. \A k \in {"model", "rest"} : Loaded[k] = asked[k]
      BY <2>1, <2>4, ObjectFacts DEF Saved, RowsSaved
    <3> QED
      BY <2>2, <3>1 DEF StoreInv, Objects
  <2> QED
    BY <2>2, <2>3, <2>4
<1>2. CASE DOMAIN rows = {}
  <2>1. Loaded = IF storage # <<>> THEN storage[1] ELSE Defaults
    BY <1>2 DEF Loaded
  <2> QED
    BY <1>2, <2>1, ObjectFacts DEF StoreInv, Memory, Fresh, Saved, RowsSaved
<1> QED
  BY <1>1, <1>2

LEMMA StartKeeps == ASSUME SettingsInv, Start PROVE SettingsInv'
<1> DEFINE o == [Loaded EXCEPT !.rest = IF @ = 0 THEN 1 ELSE @]
<1>1. /\ phase = "off" /\ phase' = "hydrating" /\ cache' = <<o>>
      /\ UNCHANGED <<rows, storage, window, saves, syncs, told, changes, asked, muddled, missed>>
  BY DEF Start
<1>2. o \in Objects /\ (Fresh \/ Saved => o = asked)
  <2>1. Loaded \in Objects /\ (Fresh => Loaded = Defaults) /\ (Saved => Loaded = asked)
    BY LoadedFacts DEF SettingsInv
  <2>2. o \in Objects
    BY <2>1, SettingsAssumption DEF Objects
  <2>3. ASSUME Saved PROVE o = asked
    BY <2>1, <2>3 DEF SettingsInv, StoreInv, Objects
  <2>4. ASSUME Fresh PROVE o = asked
    BY <2>1, <2>4 DEF Fresh, Blank, Defaults
  <2> QED
    BY <2>2, <2>3, <2>4
<1> HIDE DEF o
<1>3. StoreInv'
  BY <1>1, <1>2 DEF SettingsInv, StoreInv, Memory
<1>4. ASSUME ~muddled PROVE SavedOrSaving'
  BY <1>1, <1>2, <1>4 DEF SettingsInv, SavedOrSaving, Fresh, Saved, RowsSaved
<1>5. ASSUME ~muddled, ~missed PROVE ToldOrTelling'
  BY <1>1, <1>5 DEF SettingsInv, ToldOrTelling
<1> QED
  BY <1>1, <1>3, <1>4, <1>5 DEF SettingsInv

LEMMA SaveTypes ==
    ASSUME NEW s \in Seq(SaveOf), NEW i \in 1 .. Len(s)
    PROVE  s[i] \in SaveOf /\ s[i].done \in 0 .. 2 /\ s[i].object \in Objects
<1>1. s[i] \in SaveOf
  OBVIOUS
<1> QED
  BY <1>1 DEF SaveOf

\* A save of what is asked comes after those under way.
LEMMA SaveAdded ==
    ASSUME StoreInv, saves = <<>> \/ Saving,
           saves' \in Seq(SaveOf), Len(saves') > Len(saves),
           \A i \in 1 .. Len(saves) : saves'[i] = saves[i],
           \A i \in Len(saves) + 1 .. Len(saves') : saves'[i].object = asked' /\ saves'[i].done = 0
    PROVE  Saving'
<1>1. Len(saves) \in Nat /\ Len(saves') \in Nat /\ Len(saves') \in Len(saves) + 1 .. Len(saves')
  BY DEF StoreInv
<1>2. \A i \in 1 .. Len(saves) : saves[i].done \in 0 .. 2
  BY SaveTypes DEF StoreInv
<1>3. \A i, j \in 1 .. Len(saves) : i < j => saves[j].done <= saves[i].done
  BY <1>1 DEF Saving
<1>4. \A i, j \in 1 .. Len(saves') : i < j => saves'[j].done <= saves'[i].done
  BY <1>1, <1>2, <1>3
<1> QED
  BY <1>1, <1>4 DEF Saving

LEMMA HydratedKeeps == ASSUME SettingsInv, Hydrated PROVE SettingsInv'
<1>1. PICK c \in Objects : cache = <<c>>
  BY DEF SettingsInv, StoreInv, Memory, Hydrated
<1>2. PICK m \in {0, told} :
        /\ cache' = <<IF cache[1].model = 0 THEN [cache[1] EXCEPT !.model = m] ELSE cache[1]>>
        /\ asked' = IF asked.model = 0 /\ cache[1].model = 0 THEN [asked EXCEPT !.model = m] ELSE asked
        /\ missed' = (missed \/ (cache[1].model = 0 /\ m # told))
  BY DEF Hydrated
<1> DEFINE d == IF c.model = 0 THEN [c EXCEPT !.model = m] ELSE c
<1>3. /\ phase = "hydrating" /\ phase' = "storing" /\ cache' = <<d>>
      /\ saves' = IF d # Loaded THEN <<[object |-> d, done |-> 0]>> ELSE <<>>
      /\ UNCHANGED <<rows, storage, window, syncs, told, changes, muddled>>
  BY <1>1, <1>2 DEF Hydrated
<1>4. m \in Value /\ told \in Value
  BY SettingsAssumption DEF SettingsInv, StoreInv, Value
<1>5. d \in Objects /\ d.rest = c.rest /\ d.model = (IF c.model = 0 THEN m ELSE c.model)
  BY <1>4 DEF Objects, Value
<1>6. asked \in Objects /\ asked' \in Objects /\ asked'.rest # 0
  BY <1>1, <1>2, <1>4 DEF SettingsInv, StoreInv, Objects, Value
<1>7. asked = c => asked' = d
  BY <1>1, <1>2
<1>8. saves' \in Seq(SaveOf) /\ missed' \in BOOLEAN
  <2>1. [object |-> d, done |-> 0] \in SaveOf
    BY <1>5 DEF SaveOf
  <2> HIDE DEF d
  <2>2. saves' \in Seq(SaveOf)
    BY <1>3, <2>1
  <2>3. missed' \in BOOLEAN
    BY <1>2 DEF SettingsInv, StoreInv
  <2> QED
    BY <2>2, <2>3
<1> HIDE DEF d
<1>9. StoreInv'
  BY <1>3, <1>5, <1>6, <1>8 DEF SettingsInv, StoreInv, Memory
<1>10. ASSUME ~muddled PROVE SavedOrSaving'
  <2>1. saves = <<>> /\ asked = c /\ (Fresh \/ Saved)
    BY <1>1, <1>3, <1>10 DEF SettingsInv, SavedOrSaving
  <2>2. asked' = d /\ cache' = <<asked'>>
    BY <1>3, <1>7, <2>1
  <2>3. CASE d # Loaded
    <3>1. saves' = <<[object |-> d, done |-> 0]>>
      BY <1>3, <2>3
    <3>2. Saving'
      BY <1>8, <2>1, <2>2, <3>1, SaveAdded DEF SettingsInv
    <3> QED
      BY <1>3, <2>2, <3>2 DEF SavedOrSaving
  <2>4. CASE d = Loaded
    <3>1. ~Fresh
      <4>1. ASSUME Fresh PROVE FALSE
        <5>1. d = Defaults /\ c = Blank
          BY <2>1, <2>4, <4>1, LoadedFacts DEF SettingsInv, Fresh
        <5> QED
          BY <1>5, <5>1, ObjectFacts DEF Defaults
      <4> QED
        BY <4>1
    <3>2. Saved /\ d = asked
      BY <2>1, <2>4, <3>1, LoadedFacts DEF SettingsInv
    <3>3. Saved'
      BY <1>3, <2>2, <2>4, <3>2 DEF Saved, RowsSaved
    <3> QED
      BY <1>3, <2>2, <3>3 DEF SavedOrSaving
  <2> QED
    BY <2>3, <2>4
<1>11. ASSUME ~muddled, ~missed' PROVE ToldOrTelling'
  <2>1. ~missed /\ asked = c /\ syncs = {} /\ asked.model \in {0, told}
    BY <1>1, <1>2, <1>3, <1>11 DEF SettingsInv, SavedOrSaving, ToldOrTelling
  <2>2. c.model = 0 => m = told
    BY <1>1, <1>2, <1>11
  <2>3. asked'.model = told
    BY <1>5, <1>7, <2>1, <2>2
  <2> QED
    BY <1>3, <2>1, <2>3 DEF ToldOrTelling
<1> QED
  BY <1>2, <1>3, <1>9, <1>10, <1>11 DEF SettingsInv

LEMMA StartedKeeps == ASSUME SettingsInv, Started PROVE SettingsInv'
<1>1. /\ phase = "storing" /\ saves = <<>> /\ phase' = "up" /\ window' = cache[1]
      /\ UNCHANGED <<rows, storage, cache, saves, syncs, told, changes, asked, muddled, missed>>
  BY DEF Started
<1>2. window' \in Objects
  BY <1>1 DEF SettingsInv, StoreInv, Memory
<1>3. StoreInv'
  BY <1>1, <1>2 DEF SettingsInv, StoreInv
<1>4. ASSUME ~muddled PROVE SavedOrSaving'
  BY <1>1, <1>4 DEF SettingsInv, SavedOrSaving, Saved, RowsSaved, Saving
<1>5. ASSUME ~muddled, ~missed PROVE ToldOrTelling'
  BY <1>1, <1>5 DEF SettingsInv, ToldOrTelling, NewestCarries
<1> QED
  BY <1>1, <1>3, <1>4, <1>5 DEF SettingsInv

-----------------------------------------------------------------------------
\* One row of a save: it is not overtaken, so it writes no row again that a
\* newer save wrote.
LEMMA SaveRowKeeps == ASSUME SettingsInv, SaveRow PROVE SettingsInv'
<1>1. PICK i \in DOMAIN saves :
         LET s == saves[i] IN
         /\ s.done < 2
         /\ rows' = [k \in DOMAIN rows \cup {SettingKeys[s.done + 1]} |->
                       IF k = SettingKeys[s.done + 1] THEN s.object[k] ELSE rows[k]]
         /\ saves' = [saves EXCEPT ![i].done = @ + 1]
         /\ muddled' = (muddled \/ Overtakes(i))
  BY DEF SaveRow
<1> DEFINE key == SettingKeys[saves[i].done + 1]
           n == Len(saves)
<1>2. UNCHANGED <<storage, cache, window, phase, syncs, told, changes, asked, missed>>
  BY DEF SaveRow
<1>3. /\ saves \in Seq(SaveOf) /\ n \in Nat /\ i \in 1 .. n /\ saves[i] \in SaveOf /\ saves[i].done \in 0 .. 1
      /\ saves # <<>>
  <2>1. saves \in Seq(SaveOf) /\ n \in Nat /\ i \in 1 .. n /\ saves # <<>>
    BY <1>1 DEF SettingsInv, StoreInv
  <2>2. saves[i] \in SaveOf /\ saves[i].done \in 0 .. 2
    BY <2>1, SaveTypes
  <2> QED
    BY <1>1, <2>1, <2>2
<1>4. /\ key \in {"model", "rest"} /\ (saves[i].done = 0 => key = "model") /\ (saves[i].done = 1 => key = "rest")
      /\ saves[i].object \in Objects /\ saves[i].object[key] \in Value
  BY <1>3 DEF SettingKeys, SaveOf, Objects, Value
<1>5. rows' = [k \in DOMAIN rows \cup {key} |-> IF k = key THEN saves[i].object[k] ELSE rows[k]]
  BY <1>1
<1>6. /\ saves' \in Seq(SaveOf) /\ Len(saves') = n
      /\ saves'[i].done = saves[i].done + 1 /\ saves'[i].object = saves[i].object
      /\ \A j \in 1 .. n : j # i => saves'[j] = saves[j]
  <2>1. saves' = [saves EXCEPT ![i].done = @ + 1]
    BY <1>1
  <2>2. [saves[i] EXCEPT !.done = @ + 1] \in SaveOf
    BY <1>3 DEF SaveOf
  <2> QED
    BY <1>3, <2>1, <2>2 DEF SaveOf
<1>7. muddled' \in BOOLEAN /\ (~muddled' => ~muddled /\ ~Overtakes(i))
  BY <1>1 DEF SettingsInv, StoreInv
<1> HIDE DEF key
<1>8. /\ key \in DOMAIN rows' /\ rows'[key] = saves[i].object[key]
      /\ \A k \in DOMAIN rows : k \in DOMAIN rows' /\ (k # key => rows'[k] = rows[k])
      /\ \A k \in DOMAIN rows' : k \in {"model", "rest"} /\ rows'[k] \in Value
  BY <1>4, <1>5 DEF SettingsInv, StoreInv
<1>9. StoreInv'
  BY <1>2, <1>6, <1>7, <1>8 DEF SettingsInv, StoreInv
<1>10. ASSUME ~muddled' PROVE Saving' /\ SavedOrSaving'
  <2>1. Saving /\ phase \in {"storing", "up", "leaving"} /\ (phase \in {"storing", "up"} => cache = <<asked>>)
    BY <1>3, <1>7, <1>10 DEF SettingsInv, SavedOrSaving, Saved
  <2>2. \A j \in 1 .. i - 1 : saves[j].done > saves[i].done
    <3>1. \A j \in 1 .. i - 1 : saves[j].done \in 0 .. 2 /\ ~(saves[j].done <= saves[i].done)
      BY <1>3, <1>7, <1>10, SaveTypes DEF Overtakes
    <3> QED
      BY <1>3, <3>1
  <2>3. \A a, b \in 1 .. n : a < b => saves'[b].done <= saves'[a].done
    <3>1. \A a, b \in 1 .. n : a < b => saves[b].done <= saves[a].done
      BY <2>1 DEF Saving
    <3>2. \A a \in 1 .. n : saves[a].done \in 0 .. 2
      BY <1>3, SaveTypes
    <3> QED
      BY <1>3, <1>6, <2>2, <3>1, <3>2
  <2>4. n > 0 /\ saves'[n].object = asked /\ saves[n].object = asked
    BY <1>3, <1>6, <2>1 DEF Saving
  <2>5. CASE i = n
    <3>1. saves'[n].done >= 1 => "model" \in DOMAIN rows' /\ rows'["model"] = asked["model"]
      BY <1>3, <1>4, <1>6, <1>8, <2>1, <2>4, <2>5 DEF Saving
    <3>2. saves'[n].done >= 2 => "rest" \in DOMAIN rows' /\ rows'["rest"] = asked["rest"]
      BY <1>3, <1>4, <1>6, <1>8, <2>1, <2>4, <2>5 DEF Saving
    <3> QED
      BY <1>2, <1>6, <2>1, <2>3, <2>4, <3>1, <3>2 DEF Saving, SavedOrSaving
  <2>6. CASE i # n
    <3>1. saves'[n] = saves[n] /\ saves[n].done <= saves[i].done
      BY <1>3, <1>6, <2>1, <2>6 DEF Saving
    <3>2. saves[n].done \in 0 .. 2
      BY <1>3, <2>4, SaveTypes
    <3>3. saves[n].done >= 1 => key = "rest"
      BY <1>3, <1>4, <3>1, <3>2
    <3>4. ~(saves[n].done >= 2)
      BY <1>3, <3>1, <3>2
    <3>5. saves'[n].done >= 1 => "model" \in DOMAIN rows' /\ rows'["model"] = asked["model"]
      BY <1>8, <2>1, <3>1, <3>3 DEF Saving
    <3> QED
      BY <1>2, <1>6, <2>1, <2>3, <2>4, <3>1, <3>4, <3>5 DEF Saving, SavedOrSaving
  <2> QED
    BY <2>5, <2>6
<1>11. ASSUME ~muddled', ~missed PROVE ToldOrTelling'
  BY <1>2, <1>7, <1>11 DEF SettingsInv, ToldOrTelling, NewestCarries
<1> QED
  BY <1>2, <1>9, <1>10, <1>11 DEF SettingsInv

\* The oldest save ends; the newest ends last, with every row written.
LEMMA SaveEndsKeeps == ASSUME SettingsInv, SaveEnds PROVE SettingsInv'
<1>1. PICK i \in DOMAIN saves :
         /\ saves[i].done = 2
         /\ storage' = Stored(saves[i])
         /\ saves' = [j \in 1 .. Len(saves) - 1 |-> IF j < i THEN saves[j] ELSE saves[j + 1]]
         /\ muddled' = (muddled \/ \E j \in 1 .. i - 1 : TRUE)
  BY DEF SaveEnds
<1> DEFINE n == Len(saves)
<1>2. UNCHANGED <<rows, cache, window, phase, syncs, told, changes, asked, missed>>
  BY DEF SaveEnds
<1>3. /\ saves \in Seq(SaveOf) /\ n \in Nat /\ i \in 1 .. n /\ saves # <<>> /\ saves[i].object \in Objects
  <2>1. saves \in Seq(SaveOf) /\ n \in Nat /\ i \in 1 .. n /\ saves # <<>>
    BY <1>1 DEF SettingsInv, StoreInv
  <2> QED
    BY <2>1, SaveTypes
<1>4. /\ saves' \in Seq(SaveOf) /\ Len(saves') = n - 1
      /\ \A j \in 1 .. n - 1 : saves'[j] = IF j < i THEN saves[j] ELSE saves[j + 1]
  BY <1>1, <1>3
<1>5. storage' = <<saves[i].object>> /\ storage' \in Memory
  BY <1>1, <1>3 DEF Stored, Memory
<1>6. muddled' \in BOOLEAN /\ (~muddled' => ~muddled /\ i = 1)
  <2>1. muddled' \in BOOLEAN /\ (~muddled' => ~muddled /\ 1 \notin 1 .. i - 1)
    BY <1>1 DEF SettingsInv, StoreInv
  <2>2. 1 \in 1 .. i - 1 \/ i = 1
    BY <1>3
  <2> QED
    BY <2>1, <2>2
<1>7. StoreInv'
  BY <1>2, <1>4, <1>5, <1>6 DEF SettingsInv, StoreInv
<1>8. ASSUME ~muddled' PROVE SavedOrSaving'
  <2>1. Saving /\ phase \in {"storing", "up", "leaving"} /\ (phase \in {"storing", "up"} => cache = <<asked>>)
    BY <1>3, <1>6, <1>8 DEF SettingsInv, SavedOrSaving, Saved
  <2>2. i = 1
    BY <1>6, <1>8
  <2>3. CASE n = 1
    <3>1. saves' = <<>>
      BY <1>4, <2>3
    <3>2. saves[1].done = 2 /\ saves[1].object = asked
      BY <1>1, <2>1, <2>2, <2>3 DEF Saving
    <3>3. Saved'
      BY <1>2, <1>5, <2>1, <2>2, <2>3, <3>1, <3>2 DEF Saving, Saved, RowsSaved
    <3> QED
      BY <1>2, <2>1, <3>3 DEF SavedOrSaving
  <2>4. CASE n # 1
    <3>1. n - 1 \in Nat \ {0} /\ saves'[n - 1] = saves[n]
      BY <1>3, <1>4, <2>2, <2>4
    <3>2. \A a, b \in 1 .. n - 1 : a < b => saves'[b].done <= saves'[a].done
      <4>1. \A a, b \in 1 .. n : a < b => saves[b].done <= saves[a].done
        BY <2>1 DEF Saving
      <4>2. \A a \in 1 .. n - 1 : saves'[a] = saves[a + 1] /\ a + 1 \in 1 .. n
        BY <1>3, <1>4, <2>2
      <4>3. \A a, b \in 1 .. n - 1 : a < b => a + 1 < b + 1
        BY <1>3
      <4> QED
        BY <4>1, <4>2, <4>3
    <3>3. Saving'
      BY <1>2, <1>4, <2>1, <3>1, <3>2 DEF Saving
    <3> QED
      BY <1>2, <2>1, <3>3 DEF SavedOrSaving
  <2> QED
    BY <2>3, <2>4
<1>9. ASSUME ~muddled', ~missed PROVE ToldOrTelling'
  BY <1>2, <1>6, <1>9 DEF SettingsInv, ToldOrTelling, NewestCarries
<1> QED
  BY <1>2, <1>7, <1>8, <1>9 DEF SettingsInv

LEMMA SaveFailsKeeps == ASSUME SettingsInv, SaveFails PROVE SettingsInv'
<1>1. PICK i \in DOMAIN saves : saves' = [saves EXCEPT ![i].done = 2]
  BY DEF SaveFails
<1>2. muddled' = TRUE /\ UNCHANGED <<rows, storage, cache, window, phase, syncs, told, changes, asked, missed>>
  BY DEF SaveFails
<1>3. saves \in Seq(SaveOf) /\ i \in 1 .. Len(saves)
  BY <1>1 DEF SettingsInv, StoreInv
<1>4. saves' \in Seq(SaveOf)
  <2>1. saves[i] \in SaveOf
    BY <1>3, SaveTypes
  <2>2. [saves[i] EXCEPT !.done = 2] \in SaveOf
    BY <2>1 DEF SaveOf
  <2> QED
    BY <1>1, <1>3, <2>2
<1> QED
  BY <1>2, <1>4 DEF SettingsInv, StoreInv

-----------------------------------------------------------------------------
\* A change's request is the newest.
LEMMA SyncTells ==
    ASSUME StoreInv, changes' = changes + 1, NEW m \in Value, syncs' = syncs \cup {<<m, changes'>>}
    PROVE  /\ syncs' \subseteq Value \X Nat /\ \A n \in syncs' : n[2] <= changes'
           /\ asked'.model = m => NewestCarries'
<1>1. \A n \in syncs : n[2] \in Nat /\ n[2] < changes'
  BY DEF StoreInv
<1>2. <<m, changes'>> \in syncs' /\ changes' \in Nat
  BY DEF StoreInv
<1>3. \A n \in syncs' : n = <<m, changes'>> \/ n[2] < changes'
  BY <1>1
<1>4. syncs' \subseteq Value \X Nat /\ \A n \in syncs' : n[2] <= changes'
  BY <1>1, <1>2 DEF StoreInv
<1> QED
  BY <1>2, <1>3, <1>4 DEF NewestCarries

\* What the next number of a change is.
LEMMA NextChange ==
    ASSUME StoreInv, CanChange
    PROVE  /\ changes' = changes + 1 /\ changes' \in 2 .. MaxChanges + 2 /\ changes' \in Value /\ changes' # 0
           /\ phase \in {"up", "clearing", "leaving"}
  BY SettingsAssumption DEF StoreInv, CanChange, Value

LEMMA ChangeInWindowKeeps ==
    ASSUME SettingsInv, NEW k \in {"model", "rest"}, ChangeInWindow(k) PROVE SettingsInv'
<1>1. /\ changes' = changes + 1 /\ changes' \in 2 .. MaxChanges + 2 /\ changes' \in Value /\ changes' # 0
      /\ phase \in {"up", "clearing", "leaving"}
  BY NextChange DEF SettingsInv, ChangeInWindow
<1> DEFINE o == [window EXCEPT ![k] = changes']
           s == [object |-> o, done |-> 0]
<1>2. /\ window' = o /\ cache' = <<o>> /\ storage' = <<o>> /\ saves' = Append(saves, s)
      /\ asked' = [asked EXCEPT ![k] = changes'] /\ syncs' = syncs \cup {<<cache'[1].model, changes'>>}
      /\ muddled' = (muddled \/ phase # "up" \/ <<window>> # cache)
      /\ UNCHANGED <<rows, phase, told, missed>>
  BY DEF ChangeInWindow, Save, Sync
<1>3. o \in Objects /\ asked' \in Objects /\ asked'.rest # 0 /\ (window = asked => o = asked')
  BY <1>1, <1>2 DEF SettingsInv, StoreInv, Objects, Value
<1> HIDE DEF o
<1>4. s \in SaveOf /\ s.object = o /\ s.done = 0
  BY <1>3 DEF SaveOf
<1> HIDE DEF s
<1>5. /\ saves \in Seq(SaveOf) /\ saves' \in Seq(SaveOf) /\ Len(saves) \in Nat /\ Len(saves') = Len(saves) + 1
      /\ saves'[Len(saves) + 1] = s /\ \A i \in 1 .. Len(saves) : saves'[i] = saves[i]
  BY <1>2, <1>4 DEF SettingsInv, StoreInv
<1>6. syncs' = syncs \cup {<<o.model, changes'>>} /\ o.model \in Value
  BY <1>2, <1>3, ObjectFacts
<1>7. syncs' \subseteq Value \X Nat /\ (\A n \in syncs' : n[2] <= changes') /\ (asked'.model = o.model => NewestCarries')
  BY <1>1, <1>6, SyncTells DEF SettingsInv
<1>8. muddled' \in BOOLEAN /\ (~muddled' => ~muddled /\ phase = "up" /\ <<window>> = cache)
  BY <1>2 DEF SettingsInv, StoreInv
<1>9. StoreInv'
  BY <1>1, <1>2, <1>3, <1>5, <1>7, <1>8 DEF SettingsInv, StoreInv, Memory
<1>10. ASSUME ~muddled' PROVE SavedOrSaving' /\ o = asked'
  <2>1. cache = <<asked>> /\ (Saved \/ Saving)
    BY <1>8, <1>10 DEF SettingsInv, SavedOrSaving
  <2>2. o = asked'
    BY <1>3, <1>8, <1>10, <2>1
  <2>3. \A i \in Len(saves) + 1 .. Len(saves') : saves'[i].object = asked' /\ saves'[i].done = 0
    BY <1>4, <1>5, <2>2
  <2>4. Saving'
    BY <1>5, <2>1, <2>3, SaveAdded DEF SettingsInv, Saved
  <2> QED
    BY <1>2, <1>8, <1>10, <2>2, <2>4 DEF SavedOrSaving
<1>11. ASSUME ~muddled', ~missed' PROVE ToldOrTelling'
  BY <1>2, <1>7, <1>8, <1>10, <1>11 DEF ToldOrTelling
<1> QED
  BY <1>9, <1>10, <1>11 DEF SettingsInv

LEMMA ChangeThemeKeeps == ASSUME SettingsInv, ChangeTheme PROVE SettingsInv'
<1>1. /\ changes' = changes + 1 /\ changes' \in 2 .. MaxChanges + 2 /\ changes' \in Value /\ changes' # 0
      /\ phase = "up"
  BY NextChange DEF SettingsInv, ChangeTheme
<1>2. PICK c \in Objects : cache = <<c>>
  BY <1>1 DEF SettingsInv, StoreInv, Memory
<1> DEFINE o == [c EXCEPT !.rest = changes']
           w == [window EXCEPT !.rest = changes']
           s == [object |-> o, done |-> 0]
           t == [object |-> w, done |-> 0]
<1>3. /\ window' = w /\ cache' = <<w>> /\ storage' = <<w>> /\ saves' = saves \o <<s, t>>
      /\ asked' = [asked EXCEPT !.rest = changes'] /\ syncs' = syncs \cup {<<cache'[1].model, changes'>>}
      /\ muddled' = (muddled \/ <<window>> # cache)
      /\ UNCHANGED <<rows, phase, told, missed>>
  BY <1>2 DEF ChangeTheme, Sync
<1>4. /\ o \in Objects /\ w \in Objects /\ asked' \in Objects /\ asked'.rest # 0
      /\ window = asked => w = asked'
      /\ c = asked => o = asked'
  BY <1>1, <1>3 DEF SettingsInv, StoreInv, Objects, Value
<1> HIDE DEF o, w
<1>5. s \in SaveOf /\ s.object = o /\ s.done = 0 /\ t \in SaveOf /\ t.object = w /\ t.done = 0
  BY <1>4 DEF SaveOf
<1> HIDE DEF s, t
<1>6. /\ saves \in Seq(SaveOf) /\ saves' \in Seq(SaveOf) /\ Len(saves) \in Nat /\ Len(saves') = Len(saves) + 2
      /\ saves'[Len(saves) + 1] = s /\ saves'[Len(saves) + 2] = t /\ \A i \in 1 .. Len(saves) : saves'[i] = saves[i]
  BY <1>3, <1>5 DEF SettingsInv, StoreInv
<1>7. syncs' = syncs \cup {<<w.model, changes'>>} /\ w.model \in Value
  BY <1>3, <1>4, ObjectFacts
<1>8. syncs' \subseteq Value \X Nat /\ (\A n \in syncs' : n[2] <= changes') /\ (asked'.model = w.model => NewestCarries')
  BY <1>1, <1>7, SyncTells DEF SettingsInv
<1>9. muddled' \in BOOLEAN /\ (~muddled' => ~muddled /\ window = c)
  BY <1>2, <1>3 DEF SettingsInv, StoreInv
<1>10. StoreInv'
  BY <1>1, <1>3, <1>4, <1>6, <1>8, <1>9 DEF SettingsInv, StoreInv, Memory
<1>11. ASSUME ~muddled' PROVE SavedOrSaving' /\ w = asked'
  <2>1. c = asked /\ (Saved \/ Saving)
    BY <1>1, <1>2, <1>9, <1>11 DEF SettingsInv, SavedOrSaving
  <2>2. o = asked' /\ w = asked'
    BY <1>4, <1>9, <1>11, <2>1
  <2>3. \A i \in Len(saves) + 1 .. Len(saves') : i = Len(saves) + 1 \/ i = Len(saves) + 2
    BY <1>6
  <2>4. \A i \in Len(saves) + 1 .. Len(saves') : saves'[i].object = asked' /\ saves'[i].done = 0
    BY <1>5, <1>6, <2>2, <2>3
  <2>5. Saving'
    BY <1>6, <2>1, <2>4, SaveAdded DEF SettingsInv, Saved
  <2> QED
    BY <1>1, <1>3, <2>2, <2>5 DEF SavedOrSaving
<1>12. ASSUME ~muddled', ~missed' PROVE ToldOrTelling'
  BY <1>1, <1>3, <1>8, <1>11, <1>12 DEF ToldOrTelling
<1> QED
  BY <1>10, <1>11, <1>12 DEF SettingsInv

LEMMA OpenWindowKeeps == ASSUME SettingsInv, OpenWindow PROVE SettingsInv'
<1>1. window' \in Objects
  BY ObjectFacts DEF SettingsInv, StoreInv, Memory, OpenWindow
<1>2. UNCHANGED <<rows, storage, cache, phase, saves, syncs, told, changes, asked, muddled, missed>>
  BY DEF OpenWindow
<1> QED
  BY <1>1, <1>2 DEF SettingsInv, StoreInv, SavedOrSaving, Fresh, Saved, RowsSaved, Saving, ToldOrTelling, NewestCarries

LEMMA ImportKeeps == ASSUME SettingsInv, Import PROVE SettingsInv'
<1>1. /\ changes' = changes + 1 /\ changes' \in 2 .. MaxChanges + 2 /\ changes' \in Value /\ changes' # 0
  BY NextChange DEF SettingsInv, Import
<1>2. /\ phase = "up" /\ phase' = "leaving" /\ asked' = [k \in DOMAIN asked |-> changes']
      /\ cache' = <<asked'>> /\ storage' = <<asked'>> /\ saves' = Append(saves, [object |-> asked', done |-> 0])
      /\ missed' = TRUE /\ UNCHANGED <<rows, window, syncs, told, muddled>>
  BY DEF Import, Save
<1>3. asked' \in Objects /\ asked'.rest # 0
  BY <1>1, <1>2 DEF SettingsInv, StoreInv, Objects, Value
<1> DEFINE s == [object |-> asked', done |-> 0]
<1>4. s \in SaveOf /\ s.object = asked' /\ s.done = 0
  BY <1>3 DEF SaveOf
<1>5. saves' = Append(saves, s)
  BY <1>2
<1> HIDE DEF s
<1>6. /\ saves \in Seq(SaveOf) /\ saves' \in Seq(SaveOf) /\ Len(saves) \in Nat /\ Len(saves') = Len(saves) + 1
      /\ saves'[Len(saves) + 1] = s /\ \A i \in 1 .. Len(saves) : saves'[i] = saves[i]
  BY <1>4, <1>5 DEF SettingsInv, StoreInv
<1>7. \A m \in syncs : m[2] <= changes'
  BY <1>1 DEF SettingsInv, StoreInv
<1>8. StoreInv'
  BY <1>1, <1>2, <1>3, <1>6, <1>7 DEF SettingsInv, StoreInv, Memory
<1>9. ASSUME ~muddled PROVE SavedOrSaving'
  <2>1. Saved \/ Saving
    BY <1>2, <1>9 DEF SettingsInv, SavedOrSaving
  <2>2. \A i \in Len(saves) + 1 .. Len(saves') : saves'[i].object = asked' /\ saves'[i].done = 0
    BY <1>4, <1>6
  <2>3. Saving'
    BY <1>6, <2>1, <2>2, SaveAdded DEF SettingsInv, Saved
  <2> QED
    BY <1>2, <2>3 DEF SavedOrSaving
<1> QED
  BY <1>2, <1>8, <1>9 DEF SettingsInv

LEMMA ClearKeeps == ASSUME SettingsInv, Clear PROVE SettingsInv'
<1>1. changes' = changes + 1 /\ changes' \in 2 .. MaxChanges + 2
  BY NextChange DEF SettingsInv, Clear
<1>2. /\ phase' = "clearing" /\ rows' = <<>> /\ asked' = Blank /\ missed' = TRUE
      /\ muddled' = (muddled \/ saves # <<>>)
      /\ UNCHANGED <<storage, cache, window, saves, syncs, told>>
  BY DEF Clear, Blank
<1>3. DOMAIN rows' = {} /\ muddled' \in BOOLEAN
  BY <1>2 DEF SettingsInv, StoreInv
<1>4. \A m \in syncs : m[2] <= changes'
  BY <1>1 DEF SettingsInv, StoreInv
<1>5. StoreInv'
  BY <1>1, <1>2, <1>3, <1>4, ObjectFacts DEF SettingsInv, StoreInv
<1>6. ~muddled' => SavedOrSaving'
  BY <1>2 DEF SavedOrSaving
<1> QED
  BY <1>2, <1>5, <1>6 DEF SettingsInv

LEMMA ClearEndsKeeps == ASSUME SettingsInv, ClearEnds PROVE SettingsInv'
<1>1. /\ phase = "clearing" /\ phase' = "leaving" /\ storage' = <<>> /\ cache' = <<>>
      /\ UNCHANGED <<rows, window, saves, syncs, told, changes, asked, muddled, missed>>
  BY DEF ClearEnds, ClearedStorage
<1>2. StoreInv'
  BY <1>1 DEF SettingsInv, StoreInv, Memory
<1>3. ASSUME ~muddled PROVE SavedOrSaving'
  BY <1>1, <1>3 DEF SettingsInv, SavedOrSaving, Fresh
<1>4. ASSUME ~muddled, ~missed PROVE ToldOrTelling'
  BY <1>1, <1>4 DEF SettingsInv, ToldOrTelling, NewestCarries
<1> QED
  BY <1>1, <1>2, <1>3, <1>4 DEF SettingsInv

LEMMA LeaveKeeps == ASSUME SettingsInv, Leave PROVE SettingsInv'
<1>1. /\ phase \in {"leaving", "up"} /\ phase' = "off" /\ cache' = <<>> /\ saves' = <<>> /\ syncs' = {}
      /\ muddled' = (muddled \/ saves # <<>>) /\ missed' = (missed \/ syncs # {})
      /\ UNCHANGED <<rows, storage, window, told, asked>>
  BY DEF Leave
<1>2. changes' \in 2 .. MaxChanges + 2
  BY SettingsAssumption DEF Leave, SettingsInv, StoreInv
<1>3. muddled' \in BOOLEAN /\ missed' \in BOOLEAN /\ saves' \in Seq(SaveOf)
  BY <1>1 DEF SettingsInv, StoreInv
<1>4. StoreInv'
  BY <1>1, <1>2, <1>3 DEF SettingsInv, StoreInv, Memory
<1>5. ASSUME ~muddled' PROVE SavedOrSaving'
  <2>1. ~muddled /\ saves = <<>>
    BY <1>1, <1>5
  <2>2. Saved \/ Fresh
    BY <1>1, <2>1 DEF SettingsInv, SavedOrSaving, Saving
  <2> QED
    BY <1>1, <2>2 DEF SavedOrSaving, Saved, RowsSaved, Fresh
<1>6. ASSUME ~muddled', ~missed' PROVE ToldOrTelling'
  <2>1. ~muddled /\ ~missed /\ syncs = {}
    BY <1>1, <1>6
  <2>2. told = asked.model
    BY <1>1, <2>1 DEF SettingsInv, ToldOrTelling, NewestCarries
  <2> QED
    BY <1>1, <2>2 DEF ToldOrTelling
<1> QED
  BY <1>4, <1>5, <1>6 DEF SettingsInv

-----------------------------------------------------------------------------
LEMMA BackendKeeps == ASSUME SettingsInv, BackendTold \/ BackendMissed PROVE SettingsInv'
<1>1. CASE BackendMissed
  <2>1. /\ syncs' \subseteq syncs /\ missed' = TRUE
        /\ UNCHANGED <<rows, storage, cache, window, phase, saves, told, changes, asked, muddled>>
    BY <1>1 DEF BackendMissed
  <2>2. StoreInv'
    BY <2>1 DEF SettingsInv, StoreInv
  <2>3. ~muddled => SavedOrSaving'
    BY <2>1 DEF SettingsInv, SavedOrSaving, Fresh, Saved, RowsSaved, Saving
  <2> QED
    BY <2>1, <2>2, <2>3 DEF SettingsInv
<1>2. CASE BackendTold
  <2>1. PICK m \in syncs : /\ syncs' = syncs \ {m} /\ told' = m[1]
                           /\ missed' = (missed \/ \E n \in syncs : n[2] < m[2])
    BY <1>2 DEF BackendTold
  <2>2. UNCHANGED <<rows, storage, cache, window, phase, saves, changes, asked, muddled>>
    BY <1>2 DEF BackendTold
  <2>3. told' \in Value /\ missed' \in BOOLEAN
    BY <2>1 DEF SettingsInv, StoreInv
  <2>4. StoreInv'
    BY <2>1, <2>2, <2>3 DEF SettingsInv, StoreInv
  <2>5. ~muddled => SavedOrSaving'
    BY <2>2 DEF SettingsInv, SavedOrSaving, Fresh, Saved, RowsSaved, Saving
  <2>6. ASSUME ~muddled, ~missed' PROVE ToldOrTelling'
    <3>1. ~missed /\ \A n \in syncs : ~(n[2] < m[2])
      BY <2>1, <2>6
    <3>2. phase \notin {"off", "hydrating"} /\ NewestCarries
      BY <2>1, <2>6, <3>1 DEF SettingsInv, ToldOrTelling
    <3>3. PICK x \in syncs : x[1] = asked.model /\ \A n \in syncs : n = x \/ n[2] < x[2]
      BY <3>2 DEF NewestCarries
    <3>4. CASE m = x
      <4>1. syncs' = {} /\ told' = asked'.model
        BY <2>1, <2>2, <3>1, <3>3, <3>4
      <4> QED
        BY <2>2, <3>2, <4>1 DEF ToldOrTelling
    <3>5. CASE m # x
      <4>1. NewestCarries'
        BY <2>1, <2>2, <3>3, <3>5 DEF NewestCarries
      <4> QED
        BY <2>2, <3>2, <4>1 DEF ToldOrTelling
    <3> QED
      BY <3>4, <3>5
  <2> QED
    BY <2>2, <2>4, <2>5, <2>6 DEF SettingsInv
<1> QED
  BY <1>1, <1>2

LEMMA SettingsKeep == ASSUME SettingsInv, [SettingsNext]_settingsVars PROVE SettingsInv'
<1>1. CASE UNCHANGED settingsVars
  BY <1>1 DEF settingsVars, SettingsInv, StoreInv, SavedOrSaving, Fresh, Saved, RowsSaved, Saving,
     ToldOrTelling, NewestCarries
<1> QED
  BY <1>1, StartKeeps, HydratedKeeps, StartedKeeps, SaveRowKeeps, SaveEndsKeeps, SaveFailsKeeps,
     ChangeInWindowKeeps, ChangeThemeKeeps, OpenWindowKeeps, ImportKeeps, ClearKeeps, ClearEndsKeeps,
     LeaveKeeps, BackendKeeps DEF SettingsNext

LEMMA SettingsShow == ASSUME SettingsInv PROVE SettingsTypeOK /\ SettingsAsAsked
<1>1. SettingsTypeOK
  <2>1. \A i \in DOMAIN saves : saves[i].object \in Objects /\ saves[i].done \in 0 .. 2
    BY SaveTypes DEF SettingsInv, StoreInv
  <2>2. \A m \in syncs : m[1] \in 0 .. MaxChanges + 2
    BY DEF SettingsInv, StoreInv, Value
  <2> QED
    BY <2>1, <2>2 DEF SettingsInv, StoreInv, SettingsTypeOK, Memory, Value
<1>2. SettingsAsAsked
  <2>1. SUFFICES ASSUME phase = "up", saves = <<>>, ~muddled
                 PROVE  /\ cache = <<asked>> /\ storage = <<asked>>
                        /\ \A k \in DOMAIN asked : k \in DOMAIN rows /\ rows[k] = asked[k]
                        /\ syncs = {} /\ ~missed => told = asked.model
    BY DEF SettingsAsAsked
  <2>2. cache = <<asked>> /\ Saved
    BY <2>1 DEF SettingsInv, SavedOrSaving, Saving
  <2>3. DOMAIN asked = {"model", "rest"}
    BY DEF SettingsInv, StoreInv, Objects
  <2>4. syncs = {} /\ ~missed => told = asked.model
    BY <2>1 DEF SettingsInv, ToldOrTelling, NewestCarries
  <2> QED
    BY <2>2, <2>3, <2>4 DEF Saved, RowsSaved
<1> QED
  BY <1>1, <1>2

\* For any number of changes, clears, imports and restarts, memory, the rows and
\* localStorage hold the settings as the user left them once no save is under
\* way, and the backend the model, apart from the exceptions the property names
\* (shared/db/settings.ts).
THEOREM SettingsHold == SettingsSpec => [](SettingsTypeOK /\ SettingsAsAsked)
<1>1. SettingsInit => SettingsInv
  BY SettingsStarts
<1>2. SettingsInv /\ [SettingsNext]_settingsVars => SettingsInv'
  BY SettingsKeep
<1>3. SettingsInv => SettingsTypeOK /\ SettingsAsAsked
  BY SettingsShow
<1> QED
  BY <1>1, <1>2, <1>3, PTL DEF SettingsSpec

-----------------------------------------------------------------------------
(* ShellStore: what a table has after a write.                             *)

RowType == [Fields -> 0 .. MaxCalls]
Tables == UNION {[D -> RowType] : D \in SUBSET StoreTasks}
DbType == [tasks : Tables, rows : SUBSET ({"message", "file"} \X StoreTasks)]
StoredCall == [kind : Kinds \cup {"none"}, pc : {"idle", "go", "put", "rows", "shown", "set", "each", "first"},
               store : Stores, task : StoreTasks, stamp : 0 .. MaxCalls,
               copy : {<<>>} \cup RowType \cup Tables \cup SUBSET StoreTasks]

LEMMA TableOf ==
    ASSUME NEW tab \in Tables
    PROVE  /\ DOMAIN tab \subseteq StoreTasks /\ tab = [t \in DOMAIN tab |-> tab[t]]
           /\ \A t \in DOMAIN tab : tab[t] \in RowType /\ DOMAIN tab[t] = Fields /\ \A f \in Fields : tab[t][f] \in 0 .. MaxCalls
<1>1. PICK D \in SUBSET StoreTasks : tab \in [D -> RowType]
  BY DEF Tables
<1> QED
  BY <1>1 DEF RowType

LEMMA TableWith ==
    ASSUME NEW D \in SUBSET StoreTasks, NEW tab \in [D -> RowType]
    PROVE  tab \in Tables
BY DEF Tables

LEMMA PutIs ==
    ASSUME NEW tab \in Tables, NEW t \in StoreTasks, NEW row \in RowType
    PROVE  /\ Put(tab, t, row) \in Tables /\ DOMAIN Put(tab, t, row) = DOMAIN tab \cup {t}
           /\ Put(tab, t, row)[t] = row /\ \A u \in DOMAIN tab \ {t} : Put(tab, t, row)[u] = tab[u]
<1>1. Put(tab, t, row) \in [DOMAIN tab \cup {t} -> RowType]
  BY TableOf DEF Put
<1>2. DOMAIN tab \cup {t} \in SUBSET StoreTasks
  BY TableOf
<1>3. Put(tab, t, row) \in Tables
  BY <1>1, <1>2, TableWith
<1> QED
  BY <1>3 DEF Put

LEMMA WithoutIs ==
    ASSUME NEW tab \in Tables, NEW t \in StoreTasks
    PROVE  /\ Without(tab, t) \in Tables /\ DOMAIN Without(tab, t) = DOMAIN tab \ {t}
           /\ \A u \in DOMAIN tab \ {t} : Without(tab, t)[u] = tab[u]
<1>1. Without(tab, t) \in [DOMAIN tab \ {t} -> RowType]
  BY TableOf DEF Without
<1>2. DOMAIN tab \ {t} \in SUBSET StoreTasks
  BY TableOf
<1>3. Without(tab, t) \in Tables
  BY <1>1, <1>2, TableWith
<1> QED
  BY <1>3 DEF Without

LEMMA FieldIs == ASSUME NEW k PROVE Field(k) \in Fields
BY DEF Field, Fields

LEMMA WrittenIs ==
    ASSUME NEW tab \in Tables, NEW call, call.task \in StoreTasks, call.stamp \in 0 .. MaxCalls
    PROVE  /\ Written(tab, call) \in Tables /\ DOMAIN Written(tab, call) = DOMAIN tab
           /\ \A u \in DOMAIN tab : u # call.task => Written(tab, call)[u] = tab[u]
           /\ call.task \in DOMAIN tab => Written(tab, call)[call.task] = [tab[call.task] EXCEPT ![Field(call.kind)] = call.stamp]
<1>1. CASE call.task \notin DOMAIN tab
  BY <1>1 DEF Written
<1>2. CASE call.task \in DOMAIN tab
  <2> DEFINE row == [tab[call.task] EXCEPT ![Field(call.kind)] = call.stamp]
             W == [tab EXCEPT ![call.task] = row]
  <2>1. Written(tab, call) = W
    BY <1>2 DEF Written
  <2>2. row \in RowType
    BY <1>2, TableOf, FieldIs DEF RowType
  <2>3. DOMAIN W = DOMAIN tab /\ W[call.task] = row /\ \A u \in DOMAIN tab : u # call.task => W[u] = tab[u]
    BY <1>2
  <2>4. W \in [DOMAIN tab -> RowType]
    BY <1>2, <2>2, TableOf
  <2>5. W \in Tables
    BY <2>4, TableOf, TableWith
  <2> HIDE DEF row, W
  <2> QED
    BY <2>1, <2>3, <2>5 DEF row
<1> QED
  BY <1>1, <1>2

LEMMA MergedIs ==
    ASSUME NEW tab \in Tables, list \in Tables, page \in StoreTasks
    PROVE  /\ Merged(tab) \in Tables /\ DOMAIN Merged(tab) = DOMAIN tab \cup ({page} \cap DOMAIN list)
           /\ \A u \in DOMAIN tab : Merged(tab)[u] = tab[u]
<1>1. CASE page \in DOMAIN list \ DOMAIN tab
  <2>1. list[page] \in RowType
    BY <1>1, TableOf
  <2> DEFINE M == Put(tab, page, list[page])
  <2>2. M \in Tables /\ DOMAIN M = DOMAIN tab \cup {page} /\ \A u \in DOMAIN tab \ {page} : M[u] = tab[u]
    BY <2>1, PutIs
  <2>3. Merged(tab) = M
    BY <1>1 DEF Merged
  <2> HIDE DEF M
  <2> QED
    BY <1>1, <2>2, <2>3
<1>2. CASE page \notin DOMAIN list \ DOMAIN tab
  BY <1>2 DEF Merged
<1> QED
  BY <1>1, <1>2

LEMMA EmptyIs == Empty \in Tables /\ DOMAIN Empty = {} /\ NewRow \in RowType
<1>1. NewRow \in RowType
  BY StoreAssumption DEF NewRow, RowType
<1>2. Empty \in [{} -> RowType]
  BY DEF Empty
<1> QED
  BY <1>1, <1>2, TableWith

LEMMA PutNewIs ==
    ASSUME NEW tab \in Tables, NEW t \in StoreTasks
    PROVE  /\ Put(tab, t, NewRow) \in Tables /\ DOMAIN Put(tab, t, NewRow) = DOMAIN tab \cup {t}
           /\ Put(tab, t, NewRow)[t] = NewRow /\ \A u \in DOMAIN tab \ {t} : Put(tab, t, NewRow)[u] = tab[u]
<1>1. NewRow \in RowType
  BY EmptyIs
<1> QED
  BY <1>1, PutIs

-----------------------------------------------------------------------------
(* What a step does: the tables of one store, one call, and the history.   *)

DbIs(s, T, R) == /\ db' \in [Stores -> DbType] /\ db'[s].tasks = T /\ db'[s].rows = R
                 /\ \A u \in Stores : u # s => db'[u] = db[u]
KeptIs(s, T) == /\ kept' \in [Stores -> Tables] /\ kept'[s] = T
                /\ \A u \in Stores : u # s => kept'[u] = kept[u]
CallIs(c, r) == /\ calls' \in [StoreCallers -> StoredCall] /\ calls'[c] = r
                /\ \A d \in StoreCallers : d # c => calls'[d] = calls[d]

\* What the call under way at a point of it holds.
CallShape(r) ==
    /\ r.kind = "none" <=> r.pc = "idle"
    /\ r.kind = "create" => r.pc = "go"
    /\ r.kind \in {"message", "file"} => r.pc = "go"
    /\ r.kind = "load" => r.pc \in {"go", "set"}
    /\ r.kind \in Updates => r.pc \in {"go", "put", "shown"}
    /\ r.kind = "delete" => r.pc \in {"go", "rows", "shown"}
    /\ r.kind = "clear" => r.pc \in {"go", "each", "first", "rows"}
    /\ r.pc = "put" => r.store = "idb" /\ r.copy \in RowType
    /\ r.pc = "rows" => r.store = "idb"
    /\ r.pc = "set" => r.copy \in Tables
    /\ r.kind = "clear" /\ r.pc # "go" => r.copy \in SUBSET StoreTasks

StoreTypes ==
    /\ env \in {"tauri", "browser"} /\ linked \in BOOLEAN
    /\ db \in [Stores -> DbType] /\ kept \in [Stores -> Tables]
    /\ calls \in [StoreCallers -> StoredCall] /\ \A c \in StoreCallers : CallShape(calls[c])
    /\ started \in 0 .. MaxCalls /\ genTitle \in 0 .. MaxCalls
    /\ list \in Tables /\ page \in StoreTasks
    /\ born \subseteq StoreTasks /\ titled \subseteq StoreTasks /\ raced \subseteq StoreTasks /\ astray \in BOOLEAN

LEMMA DbSet ==
    ASSUME db \in [Stores -> DbType], NEW s \in Stores, NEW T \in Tables, db' = [db EXCEPT ![s].tasks = T]
    PROVE  DbIs(s, T, db[s].rows)
<1>1. db[s] \in DbType
  OBVIOUS
<1>2. [db[s] EXCEPT !.tasks = T] \in DbType /\ [db[s] EXCEPT !.tasks = T].tasks = T /\ [db[s] EXCEPT !.tasks = T].rows = db[s].rows
  BY <1>1 DEF DbType
<1>3. db' = [db EXCEPT ![s] = [db[s] EXCEPT !.tasks = T]]
  OBVIOUS
<1> QED
  BY <1>2, <1>3 DEF DbIs

LEMMA DbRows ==
    ASSUME db \in [Stores -> DbType], NEW s \in Stores, NEW R \in SUBSET ({"message", "file"} \X StoreTasks),
           db' = [db EXCEPT ![s].rows = R]
    PROVE  DbIs(s, db[s].tasks, R)
<1>1. db[s] \in DbType
  OBVIOUS
<1>2. [db[s] EXCEPT !.rows = R] \in DbType /\ [db[s] EXCEPT !.rows = R].rows = R /\ [db[s] EXCEPT !.rows = R].tasks = db[s].tasks
  BY <1>1 DEF DbType
<1>3. db' = [db EXCEPT ![s] = [db[s] EXCEPT !.rows = R]]
  OBVIOUS
<1> QED
  BY <1>2, <1>3 DEF DbIs

LEMMA CallSet ==
    ASSUME calls \in [StoreCallers -> StoredCall], NEW c \in StoreCallers, NEW r \in StoredCall, Becomes(c, r)
    PROVE  CallIs(c, r)
BY DEF Becomes, CallIs

LEMMA KeptSet ==
    ASSUME kept \in [Stores -> Tables], NEW s \in Stores, NEW T \in Tables, kept' = [kept EXCEPT ![s] = T]
    PROVE  KeptIs(s, T)
BY DEF KeptIs

\* A call begun now, and one that goes on to its next point.
NewCall(k, s, t) == [NoCall EXCEPT !.kind = k, !.pc = "go", !.store = s, !.task = t, !.stamp = started + 1]

LEMMA NoCallIs ==
    ASSUME page \in StoreTasks
    PROVE  NoCall \in StoredCall /\ CallShape(NoCall) /\ NoCall.kind = "none" /\ NoCall.pc = "idle"
<1>1. (CHOOSE t \in StoreTasks : TRUE) \in StoreTasks
  OBVIOUS
<1> QED
  BY <1>1, StoreAssumption DEF NoCall, StoredCall, CallShape, Kinds, Updates, Stores

LEMMA NewCallIs ==
    ASSUME StoreTypes, started < MaxCalls, NEW k \in Kinds, NEW s \in Stores, NEW t \in StoreTasks
    PROVE  /\ NewCall(k, s, t) \in StoredCall /\ CallShape(NewCall(k, s, t))
           /\ NewCall(k, s, t).kind = k /\ NewCall(k, s, t).pc = "go" /\ NewCall(k, s, t).store = s
           /\ NewCall(k, s, t).task = t
<1>1. started + 1 \in 0 .. MaxCalls
  <2>1. started \in 0 .. MaxCalls
    BY DEF StoreTypes
  <2> QED
    BY <2>1, StoreAssumption
<1>2. NoCall \in StoredCall
  BY NoCallIs DEF StoreTypes
<1>4. LET m == NewCall(k, s, t) IN
      m \in StoredCall /\ m.kind = k /\ m.pc = "go" /\ m.store = s /\ m.task = t
  BY <1>1, <1>2 DEF NewCall, StoredCall
<1>3. k # "none"
  BY DEF Kinds, Updates
<1> QED
  BY <1>3, <1>4 DEF CallShape

LEMMA CallTypes ==
    ASSUME StoreTypes, NEW c \in StoreCallers
    PROVE  /\ calls[c] \in StoredCall /\ CallShape(calls[c]) /\ calls[c].store \in Stores /\ calls[c].task \in StoreTasks
           /\ calls[c].stamp \in 0 .. MaxCalls /\ db[calls[c].store] \in DbType
           /\ db[calls[c].store].tasks \in Tables /\ kept[calls[c].store] \in Tables
           /\ db[calls[c].store].rows \in SUBSET ({"message", "file"} \X StoreTasks)
BY DEF StoreTypes, StoredCall, DbType

AtPoint(r, p) == [r EXCEPT !.pc = p]
AtPointWith(r, p, x) == [r EXCEPT !.pc = p, !.copy = x]
Points == {"go", "put", "rows", "shown", "set", "each", "first"}
Copies == {<<>>} \cup RowType \cup Tables \cup SUBSET StoreTasks

\* A call goes on: its types and what it holds.
LEMMA Moved ==
    ASSUME NEW call \in StoredCall, NEW p \in Points
    PROVE  /\ AtPoint(call, p) \in StoredCall /\ AtPoint(call, p).kind = call.kind
           /\ AtPoint(call, p).pc = p /\ AtPoint(call, p).store = call.store
           /\ AtPoint(call, p).task = call.task /\ AtPoint(call, p).stamp = call.stamp /\ AtPoint(call, p).copy = call.copy
BY DEF StoredCall, AtPoint, Points

LEMMA MovedWith ==
    ASSUME NEW call \in StoredCall, NEW p \in Points, NEW x,
           x = <<>> \/ x \in RowType \/ x \in Tables \/ x \in SUBSET StoreTasks
    PROVE  /\ AtPointWith(call, p, x) \in StoredCall /\ AtPointWith(call, p, x).kind = call.kind /\ AtPointWith(call, p, x).pc = p
           /\ AtPointWith(call, p, x).store = call.store /\ AtPointWith(call, p, x).task = call.task
           /\ AtPointWith(call, p, x).stamp = call.stamp /\ AtPointWith(call, p, x).copy = x
<1>1. x \in Copies
  BY DEF Copies
<1> QED
  BY <1>1 DEF StoredCall, AtPointWith, Points, Copies

LEMMA PointsAre == /\ "put" \in Points /\ "shown" \in Points /\ "set" \in Points /\ "each" \in Points
                   /\ "go" \in Points /\ "rows" \in Points /\ "first" \in Points
BY DEF Points

LEMMA Linked == ASSUME StoreTypes, NEW s, Connects(s) PROVE linked' \in BOOLEAN
BY DEF Connects, StoreTypes

LEMMA Counted ==
    ASSUME StoreTypes, started < MaxCalls, started' = started + 1
    PROVE  started' \in 0 .. MaxCalls
<1>1. started \in 0 .. MaxCalls
  BY DEF StoreTypes
<1> QED
  BY <1>1, StoreAssumption

LEMMA ShapesStay ==
    ASSUME StoreTypes, NEW c \in StoreCallers, NEW r \in StoredCall, CallIs(c, r), CallShape(r)
    PROVE  calls' \in [StoreCallers -> StoredCall] /\ \A d \in StoreCallers : CallShape(calls'[d])
BY DEF CallIs, StoreTypes

LEMMA StoreTypesStart == ASSUME StoreInit PROVE StoreTypes
<1>1. NewRow \in RowType /\ Empty \in Tables
  BY EmptyIs
<1>2. list \in [born -> RowType]
  BY <1>1 DEF StoreInit
<1>3. list \in Tables
  BY <1>2, TableWith DEF StoreInit
<1>4. kept \in [Stores -> Tables]
  BY <1>1, <1>3 DEF StoreInit
<1>5. db \in [Stores -> DbType]
  BY <1>4 DEF StoreInit, DbType
<1>6. NoCall \in StoredCall /\ CallShape(NoCall)
  BY NoCallIs DEF StoreInit
<1>7. calls \in [StoreCallers -> StoredCall] /\ \A c \in StoreCallers : CallShape(calls[c])
  BY <1>6 DEF StoreInit
<1>8. started \in 0 .. MaxCalls /\ genTitle \in 0 .. MaxCalls
  BY StoreAssumption DEF StoreInit
<1> QED
  BY <1>3, <1>4, <1>5, <1>7, <1>8 DEF StoreInit, StoreTypes

LEMMA StartCallDoes ==
    ASSUME StoreTypes, NEW c \in StoreCallers, StartCall(c)
    PROVE  /\ UNCHANGED <<env, db, list, page, born, titled, kept, raced>>
           /\ StoreTypes' /\ calls[c].pc = "idle"
           /\ \E kind \in Kinds, t \in StoreTasks, s \in Stores :
                /\ kind \notin {"title", "create"}
                /\ kind \in {"rename", "favorite", "delete"} => t \in DOMAIN list
                /\ kind \in {"status", "message", "file"} => \E u \in Stores : t \in DOMAIN kept[u]
                /\ CallIs(c, NewCall(kind, s, t))
                /\ astray' = (astray \/ s # Home)
<1>1. PICK kind \in (Updates \ {"title"}) \cup {"delete", "message", "file", "load", "clear"},
           t \in StoreTasks, s \in Stores :
         /\ kind \in {"rename", "favorite", "delete"} => t \in DOMAIN list
         /\ kind \in {"status", "message", "file"} => \E u \in Stores : t \in DOMAIN kept[u]
         /\ Connects(s) /\ Becomes(c, NewCall(kind, s, t)) /\ astray' = (astray \/ s # Home)
  BY DEF StartCall, NewCall
<1>2. kind \in Kinds /\ kind \notin {"title", "create"}
  BY <1>1 DEF Kinds, Updates
<1>3. calls[c].pc = "idle" /\ started < MaxCalls /\ started' = started + 1
      /\ UNCHANGED <<env, db, list, page, genTitle, born, titled, kept, raced>>
  BY DEF StartCall
<1>4. CallIs(c, NewCall(kind, s, t)) /\ CallShape(NewCall(kind, s, t)) /\ NewCall(kind, s, t) \in StoredCall
  BY <1>1, <1>2, <1>3, NewCallIs, CallSet DEF StoreTypes
<1>5. linked' \in BOOLEAN /\ started' \in 0 .. MaxCalls
  BY <1>1, <1>3, Linked, Counted DEF StoreTypes
<1>6. StoreTypes'
  BY <1>1, <1>3, <1>4, <1>5, ShapesStay DEF StoreTypes
<1> QED
  BY <1>1, <1>2, <1>3, <1>4, <1>6

LEMMA StartCreateDoes ==
    ASSUME StoreTypes, NEW c \in StoreCallers, StartCreate(c)
    PROVE  /\ UNCHANGED <<env, db, titled, kept, raced>>
           /\ StoreTypes' /\ calls[c].pc = "idle"
           /\ \E t \in StoreTasks \ born, s \in Stores :
                /\ born' = born \cup {t}
                /\ CallIs(c, NewCall("create", s, t))
                /\ list' = Put(list, t, NewRow)
                /\ astray' = (astray \/ s # Home)
<1>1. PICK t \in StoreTasks \ born, s \in Stores :
         /\ Connects(s) /\ born' = born \cup {t} /\ Becomes(c, NewCall("create", s, t))
         /\ page' = t /\ list' = Put(list, t, NewRow) /\ astray' = (astray \/ s # Home)
  BY DEF StartCreate, NewCall
<1>3. calls[c].pc = "idle" /\ started < MaxCalls /\ started' = started + 1
      /\ UNCHANGED <<env, db, genTitle, titled, kept, raced>>
  BY DEF StartCreate
<1>4. CallIs(c, NewCall("create", s, t)) /\ CallShape(NewCall("create", s, t)) /\ NewCall("create", s, t) \in StoredCall
  BY <1>1, <1>3, NewCallIs, CallSet DEF StoreTypes, Kinds
<1>5. linked' \in BOOLEAN /\ started' \in 0 .. MaxCalls /\ list' \in Tables
  BY <1>1, <1>3, Linked, Counted, PutIs, EmptyIs DEF StoreTypes
<1>6. StoreTypes'
  BY <1>1, <1>3, <1>4, <1>5, ShapesStay DEF StoreTypes
<1> QED
  BY <1>1, <1>3, <1>4, <1>6

LEMMA StartTitleDoes ==
    ASSUME StoreTypes, NEW c \in StoreCallers, StartTitle(c)
    PROVE  /\ UNCHANGED <<env, db, list, page, born, kept, raced, astray>>
           /\ StoreTypes' /\ calls[c].pc = "idle"
           /\ \E s \in Stores : \E t \in DOMAIN kept[s] :
                t \in StoreTasks /\ CallIs(c, NewCall("title", s, t))
<1>1. PICK s \in Stores : \E t \in DOMAIN kept[s] \ titled :
         /\ Connects(s) /\ titled' = titled \cup {t} /\ Becomes(c, NewCall("title", s, t))
  BY DEF StartTitle, NewCall
<1>2. PICK t \in DOMAIN kept[s] \ titled :
         /\ Connects(s) /\ titled' = titled \cup {t} /\ Becomes(c, NewCall("title", s, t))
  BY <1>1
<1>3. calls[c].pc = "idle" /\ started < MaxCalls /\ started' = started + 1
      /\ UNCHANGED <<env, db, list, page, genTitle, born, kept, raced, astray>>
  BY DEF StartTitle
<1>4. t \in StoreTasks
  BY TableOf DEF StoreTypes
<1>5. CallIs(c, NewCall("title", s, t)) /\ CallShape(NewCall("title", s, t)) /\ NewCall("title", s, t) \in StoredCall
  BY <1>2, <1>3, <1>4, NewCallIs, CallSet DEF StoreTypes, Kinds, Updates
<1>6. linked' \in BOOLEAN /\ started' \in 0 .. MaxCalls
  BY <1>2, <1>3, Linked, Counted
<1>7. StoreTypes'
  BY <1>2, <1>3, <1>4, <1>5, <1>6, ShapesStay DEF StoreTypes
<1> QED
  BY <1>2, <1>3, <1>4, <1>5, <1>7

LEMMA CreateTaskDoes ==
    ASSUME StoreTypes, NEW c \in StoreCallers, CreateTask(c)
    PROVE  LET r == calls[c] IN
           /\ UNCHANGED <<env, list, page, born, titled>>
           /\ Races(c, r.task) /\ Stales(c)
           /\ StoreTypes' /\ r.kind = "create"
           /\ DbIs(r.store, Put(db[r.store].tasks, r.task, NewRow), db[r.store].rows)
           /\ KeptIs(r.store, Put(kept[r.store], r.task, NewRow))
           /\ CallIs(c, [r EXCEPT !.kind = "load"])
<1> DEFINE r == calls[c]
           m == [r EXCEPT !.kind = "load"]
<1>1. /\ r.kind = "create" /\ r.pc = "go"
      /\ db' = [db EXCEPT ![r.store].tasks = Put(db[r.store].tasks, r.task, NewRow)]
      /\ kept' = [kept EXCEPT ![r.store] = Put(kept[r.store], r.task, NewRow)]
      /\ Becomes(c, m) /\ Races(c, r.task) /\ Stales(c)
      /\ UNCHANGED <<env, linked, started, list, page, genTitle, born, titled>>
  BY DEF CreateTask
<1>2. r \in StoredCall /\ r.store \in Stores /\ r.task \in StoreTasks /\ db[r.store].tasks \in Tables /\ kept[r.store] \in Tables
  BY CallTypes
<1>3. m \in StoredCall /\ m.kind = "load" /\ m.pc = "go"
  BY <1>1, <1>2 DEF StoredCall, Kinds
<1>4. CallShape(m)
  BY <1>3 DEF CallShape, Updates
<1> HIDE DEF r, m
<1>5. DbIs(r.store, Put(db[r.store].tasks, r.task, NewRow), db[r.store].rows)
  BY <1>1, <1>2, PutIs, EmptyIs, DbSet DEF StoreTypes
<1>6. KeptIs(r.store, Put(kept[r.store], r.task, NewRow))
  BY <1>1, <1>2, PutIs, EmptyIs, KeptSet DEF StoreTypes
<1>7. CallIs(c, m)
  BY <1>1, <1>3, CallSet DEF StoreTypes
<1>8. raced' \subseteq StoreTasks /\ astray' \in BOOLEAN
  BY <1>1, <1>2 DEF Races, Stales, StoreTypes
<1>9. StoreTypes'
  BY <1>1, <1>3, <1>4, <1>5, <1>6, <1>7, <1>8, ShapesStay DEF StoreTypes, DbIs, KeptIs
<1> QED
  BY <1>1, <1>5, <1>6, <1>7, <1>9 DEF r, m

LEMMA UpdateRowDoes ==
    ASSUME StoreTypes, NEW c \in StoreCallers, UpdateRow(c)
    PROVE  LET r == calls[c] IN
           /\ UNCHANGED <<env, list, page, born, titled, raced>>
           /\ Stales(c)
           /\ StoreTypes' /\ r.kind \in Updates /\ r.pc = "go" /\ r.store = "sqlite"
           /\ DbIs(r.store, Written(db[r.store].tasks, r), db[r.store].rows)
           /\ KeptIs(r.store, Written(kept[r.store], r))
           /\ CallIs(c, AtPoint(r, "shown"))
<1> DEFINE r == calls[c]
           m == AtPoint(r, "shown")
<1>1. /\ r.kind \in Updates /\ r.pc = "go" /\ r.store = "sqlite"
      /\ db' = [db EXCEPT ![r.store].tasks = Written(db[r.store].tasks, r)]
      /\ kept' = [kept EXCEPT ![r.store] = Written(kept[r.store], r)]
      /\ Becomes(c, m) /\ Stales(c)
      /\ UNCHANGED <<env, linked, started, list, page, genTitle, born, titled, raced>>
  BY DEF UpdateRow, AtPoint, AtPointWith
<1>2. r \in StoredCall /\ r.store \in Stores /\ r.task \in StoreTasks /\ r.stamp \in 0 .. MaxCalls
      /\ db[r.store].tasks \in Tables /\ kept[r.store] \in Tables
  BY CallTypes
<1>3. m \in StoredCall /\ m.kind = r.kind /\ m.pc = "shown"
  BY <1>2, Moved DEF Points
<1>4. CallShape(m)
  BY <1>1, <1>3 DEF CallShape, Updates
<1> HIDE DEF r, m
<1>5. DbIs(r.store, Written(db[r.store].tasks, r), db[r.store].rows)
  BY <1>1, <1>2, WrittenIs, DbSet DEF StoreTypes
<1>6. KeptIs(r.store, Written(kept[r.store], r))
  BY <1>1, <1>2, WrittenIs, KeptSet DEF StoreTypes
<1>7. CallIs(c, m)
  BY <1>1, <1>3, CallSet DEF StoreTypes
<1>8. astray' \in BOOLEAN
  BY <1>1 DEF Stales, StoreTypes
<1>9. StoreTypes'
  BY <1>1, <1>3, <1>4, <1>5, <1>6, <1>7, <1>8, ShapesStay DEF StoreTypes, DbIs, KeptIs
<1> QED
  BY <1>1, <1>5, <1>6, <1>7, <1>9 DEF r, m

\* A row is not what a read that found none returns.
LEMMA RowsAreSome == ASSUME NEW row \in RowType PROVE row # <<>>
<1>1. "title" \in DOMAIN row
  BY DEF RowType, Fields
<1>2. DOMAIN <<>> = 1 .. 0
  OBVIOUS
<1> QED
  BY <1>1, <1>2

LEMMA ReadRowDoes ==
    ASSUME StoreTypes, NEW c \in StoreCallers, ReadRow(c)
    PROVE  LET r == calls[c]  T == db[r.store].tasks IN
           /\ UNCHANGED <<env, db, list, page, born, titled, kept, raced>>
           /\ Stales(c)
           /\ StoreTypes' /\ r.kind \in Updates /\ r.pc = "go" /\ r.store = "idb"
           /\ IF r.task \in DOMAIN T THEN CallIs(c, AtPointWith(r, "put", T[r.task]))
              ELSE CallIs(c, AtPoint(r, "shown"))
<1> DEFINE r == calls[c]
           T == db[r.store].tasks
           m == IF r.task \in DOMAIN T THEN AtPointWith(r, "put", T[r.task]) ELSE AtPoint(r, "shown")
<1>1. /\ r.kind \in Updates /\ r.pc = "go" /\ r.store = "idb" /\ Stales(c)
      /\ UNCHANGED <<env, linked, db, started, list, page, genTitle, born, titled, kept, raced>>
      /\ Becomes(c, IF Read(T, r.task) = <<>> THEN AtPoint(r, "shown")
                    ELSE AtPointWith(r, "put", Read(T, r.task)))
  BY DEF ReadRow, AtPoint, AtPointWith
<1>2. r \in StoredCall /\ T \in Tables
  BY CallTypes
<1>3. Becomes(c, m)
  <2>1. CASE r.task \in DOMAIN T
    <3>1. T[r.task] # <<>> /\ Read(T, r.task) = T[r.task]
      BY <1>2, <2>1, TableOf, RowsAreSome DEF Read
    <3> QED
      BY <1>1, <2>1, <3>1
  <2>2. CASE r.task \notin DOMAIN T
    BY <1>1, <2>2 DEF Read
  <2> QED
    BY <2>1, <2>2
<1>4. m \in StoredCall /\ m.kind = r.kind /\ m.store = r.store /\ m.pc \in {"put", "shown"} /\ (m.pc = "put" => m.copy \in RowType)
  <2>1. CASE r.task \in DOMAIN T
    <3>1. T[r.task] \in RowType
      BY <1>2, <2>1, TableOf
    <3>2. m = AtPointWith(r, "put", T[r.task]) /\ r \in StoredCall
      BY <1>2, <2>1
    <3> DEFINE row == T[r.task]
    <3>3. row \in RowType /\ "put" \in Points
      BY <3>1, PointsAre
    <3> HIDE DEF r, T, m, row
    <3>4. LET n == AtPointWith(r, "put", row) IN
          n \in StoredCall /\ n.kind = r.kind /\ n.store = r.store /\ n.pc = "put" /\ n.copy = row
      BY <3>2, <3>3, MovedWith
    <3> QED
      BY <3>1, <3>2, <3>4 DEF row
  <2>2. CASE r.task \notin DOMAIN T
    <3> HIDE DEF r, T
    <3> QED
      BY <1>2, <2>2, Moved DEF Points
  <2> QED
    BY <2>1, <2>2
<1>5. CallShape(m)
  BY <1>1, <1>4 DEF CallShape, Updates
<1> HIDE DEF m
<1>6. CallIs(c, m)
  BY <1>3, <1>4, CallSet DEF StoreTypes
<1>7. astray' \in BOOLEAN
  BY <1>1 DEF Stales, StoreTypes
<1>8. StoreTypes'
  BY <1>1, <1>4, <1>5, <1>6, <1>7, ShapesStay DEF StoreTypes
<1> QED
  BY <1>1, <1>6, <1>8 DEF m

LEMMA PutRowDoes ==
    ASSUME StoreTypes, NEW c \in StoreCallers, PutRow(c)
    PROVE  LET r == calls[c] IN
           /\ UNCHANGED <<env, list, page, born, titled>>
           /\ Races(c, r.task) /\ Stales(c)
           /\ StoreTypes' /\ r.kind \in Updates /\ r.pc = "put" /\ r.store = "idb" /\ r.copy \in RowType
           /\ DbIs(r.store, Put(db[r.store].tasks, r.task, [r.copy EXCEPT ![Field(r.kind)] = r.stamp]), db[r.store].rows)
           /\ KeptIs(r.store, Written(kept[r.store], r))
           /\ CallIs(c, AtPointWith(r, "shown", <<>>))
<1> DEFINE r == calls[c]
           m == AtPointWith(r, "shown", <<>>)
           row == [r.copy EXCEPT ![Field(r.kind)] = r.stamp]
<1>1. /\ r.pc = "put"
      /\ db' = [db EXCEPT ![r.store].tasks = Put(db[r.store].tasks, r.task, row)]
      /\ kept' = [kept EXCEPT ![r.store] = Written(kept[r.store], r)]
      /\ Becomes(c, m) /\ Races(c, r.task) /\ Stales(c)
      /\ UNCHANGED <<env, linked, started, list, page, genTitle, born, titled>>
  BY DEF PutRow, AtPoint, AtPointWith
<1>2. r \in StoredCall /\ CallShape(r) /\ r.store \in Stores /\ r.task \in StoreTasks /\ r.stamp \in 0 .. MaxCalls
      /\ db[r.store].tasks \in Tables /\ kept[r.store] \in Tables
  BY CallTypes
<1>3. m \in StoredCall /\ m.kind = r.kind /\ m.pc = "shown"
  <2>1. r \in StoredCall
    BY <1>2
  <2> HIDE DEF r
  <2> QED
    BY <2>1, MovedWith, PointsAre
<1>4. r.kind \in Updates /\ r.store = "idb" /\ r.copy \in RowType
  <2>1. r.kind \in Kinds \cup {"none"}
    BY <1>2 DEF StoredCall
  <2> QED
    BY <1>1, <1>2, <2>1 DEF CallShape, Kinds
<1>5. CallShape(m)
  BY <1>3, <1>4 DEF CallShape, Updates
<1>6. row \in RowType
  BY <1>2, <1>4, FieldIs DEF RowType
<1> HIDE DEF r, m, row
<1>7. DbIs(r.store, Put(db[r.store].tasks, r.task, row), db[r.store].rows)
  BY <1>1, <1>2, <1>6, PutIs, DbSet DEF StoreTypes
<1>8. KeptIs(r.store, Written(kept[r.store], r))
  BY <1>1, <1>2, WrittenIs, KeptSet DEF StoreTypes
<1>9. CallIs(c, m)
  BY <1>1, <1>3, CallSet DEF StoreTypes
<1>10. raced' \subseteq StoreTasks /\ astray' \in BOOLEAN
  BY <1>1, <1>2 DEF Races, Stales, StoreTypes
<1>11. StoreTypes'
  BY <1>1, <1>3, <1>5, <1>7, <1>8, <1>9, <1>10, ShapesStay DEF StoreTypes, DbIs, KeptIs
<1> QED
  BY <1>1, <1>4, <1>7, <1>8, <1>9, <1>11 DEF r, m, row

LEMMA DeleteTaskDoes ==
    ASSUME StoreTypes, NEW c \in StoreCallers, DeleteTask(c)
    PROVE  LET r == calls[c]  p == IF r.store = "idb" THEN "rows" ELSE IF r.kind = "clear" THEN "each" ELSE "shown" IN
           /\ UNCHANGED <<env, list, page, born, titled>>
           /\ Races(c, r.task) /\ Stales(c)
           /\ StoreTypes'
           /\ (r.kind = "clear" /\ r.pc = "first") \/ (r.kind = "delete" /\ r.pc = "go")
           /\ DbIs(r.store, Without(db[r.store].tasks, r.task), Cascades(r.store, db[r.store].rows, r.task))
           /\ KeptIs(r.store, Without(kept[r.store], r.task))
           /\ CallIs(c, AtPoint(r, p))
<1> DEFINE r == calls[c]
           p == IF r.store = "idb" THEN "rows" ELSE IF r.kind = "clear" THEN "each" ELSE "shown"
           m == AtPoint(r, p)
           T == Without(db[r.store].tasks, r.task)
           R == Cascades(r.store, db[r.store].rows, r.task)
<1>1. /\ r.pc = "first" \/ (r.kind = "delete" /\ r.pc = "go")
      /\ db' = [db EXCEPT ![r.store] = [tasks |-> T, rows |-> R]]
      /\ kept' = [kept EXCEPT ![r.store] = Without(kept[r.store], r.task)]
      /\ Becomes(c, m) /\ Races(c, r.task) /\ Stales(c)
      /\ UNCHANGED <<env, linked, started, list, page, genTitle, born, titled>>
  BY DEF DeleteTask, AtPoint, AtPointWith
<1>2. r \in StoredCall /\ CallShape(r) /\ r.store \in Stores /\ r.task \in StoreTasks /\ r.kind \in Kinds \cup {"none"}
      /\ db[r.store].tasks \in Tables /\ kept[r.store] \in Tables
      /\ db[r.store].rows \in SUBSET ({"message", "file"} \X StoreTasks)
  BY CallTypes DEF StoredCall
<1>3. m \in StoredCall /\ m.kind = r.kind /\ m.pc = p /\ m.store = r.store /\ m.copy = r.copy
  BY <1>2, Moved DEF Points
<1>4. (r.kind = "clear" /\ r.pc = "first") \/ (r.kind = "delete" /\ r.pc = "go")
  BY <1>1, <1>2 DEF CallShape, Kinds, Updates
<1>5. CallShape(m)
  BY <1>2, <1>3, <1>4 DEF CallShape, Updates
<1>6. T \in Tables /\ R \in SUBSET ({"message", "file"} \X StoreTasks)
  BY <1>2, WithoutIs DEF Cascades
<1> HIDE DEF r, p, m, T, R
<1>7. DbIs(r.store, T, R)
  <2>1. [tasks |-> T, rows |-> R] \in DbType
    BY <1>6 DEF DbType
  <2> QED
    BY <1>1, <1>2, <2>1 DEF DbIs, StoreTypes
<1>8. KeptIs(r.store, Without(kept[r.store], r.task))
  BY <1>1, <1>2, WithoutIs, KeptSet DEF StoreTypes
<1>9. CallIs(c, m)
  BY <1>1, <1>3, CallSet DEF StoreTypes
<1>10. raced' \subseteq StoreTasks /\ astray' \in BOOLEAN
  BY <1>1, <1>2 DEF Races, Stales, StoreTypes
<1>11. StoreTypes'
  BY <1>1, <1>3, <1>5, <1>7, <1>8, <1>9, <1>10, ShapesStay DEF StoreTypes, DbIs, KeptIs
<1> QED
  BY <1>1, <1>4, <1>7, <1>8, <1>9, <1>11 DEF r, p, m, T, R

LEMMA DeleteMessagesDoes ==
    ASSUME StoreTypes, NEW c \in StoreCallers, DeleteMessages(c)
    PROVE  LET r == calls[c] IN
           /\ StoreTypes' /\ r.pc = "rows" /\ r.store = "idb" /\ r.kind \in {"delete", "clear"}
           /\ DbIs(r.store, db[r.store].tasks, db[r.store].rows \ {<<"message", r.task>>})
           /\ CallIs(c, AtPoint(r, IF r.kind = "clear" THEN "each" ELSE "shown"))
           /\ UNCHANGED <<env, list, page, born, titled, kept, raced, astray>>
<1> DEFINE r == calls[c]
           m == AtPoint(r, IF r.kind = "clear" THEN "each" ELSE "shown")
<1>1. /\ r.pc = "rows"
      /\ db' = [db EXCEPT ![r.store].rows = db[r.store].rows \ {<<"message", r.task>>}]
      /\ Becomes(c, m)
      /\ UNCHANGED <<env, linked, started, list, page, genTitle, born, titled, kept, raced, astray>>
  BY DEF DeleteMessages, AtPoint, AtPointWith
<1>2. r \in StoredCall /\ CallShape(r) /\ r.store \in Stores /\ r.kind \in Kinds \cup {"none"}
      /\ db[r.store].rows \in SUBSET ({"message", "file"} \X StoreTasks)
  BY CallTypes DEF StoredCall
<1>3. m \in StoredCall /\ m.kind = r.kind /\ m.pc = (IF r.kind = "clear" THEN "each" ELSE "shown") /\ m.copy = r.copy
  BY <1>2, Moved DEF Points
<1>4. r.kind \in {"delete", "clear"} /\ r.store = "idb"
  BY <1>1, <1>2 DEF CallShape, Kinds, Updates
<1>5. CallShape(m)
  BY <1>1, <1>2, <1>3, <1>4 DEF CallShape, Updates
<1> HIDE DEF r, m
<1>6. DbIs(r.store, db[r.store].tasks, db[r.store].rows \ {<<"message", r.task>>})
  BY <1>1, <1>2, DbRows DEF StoreTypes
<1>7. CallIs(c, m)
  BY <1>1, <1>3, CallSet DEF StoreTypes
<1>8. StoreTypes'
  BY <1>1, <1>3, <1>5, <1>6, <1>7, ShapesStay DEF StoreTypes, DbIs
<1> QED
  BY <1>1, <1>4, <1>6, <1>7, <1>8 DEF r, m

LEMMA CreateRowDoes ==
    ASSUME StoreTypes, NEW c \in StoreCallers, NEW kind \in {"message", "file"}, CreateRow(c, kind)
    PROVE  LET r == calls[c] IN
           /\ StoreTypes' /\ r.kind = kind /\ r.pc = "go"
           /\ \E R : /\ R = db[r.store].rows \/ (Accepts(r.store, r.task) /\ R = db[r.store].rows \cup {<<kind, r.task>>})
                     /\ DbIs(r.store, db[r.store].tasks, R)
           /\ CallIs(c, NoCall)
           /\ UNCHANGED <<env, list, page, born, titled, kept, astray>>
           /\ raced' = IF r.task \in DOMAIN db[r.store].tasks THEN raced ELSE raced \cup {r.task}
<1> DEFINE r == calls[c]
           R == IF Accepts(r.store, r.task) THEN db[r.store].rows \cup {<<kind, r.task>>} ELSE db[r.store].rows
<1>1. /\ r.kind = kind /\ r.pc = "go"
      /\ db' = IF Accepts(r.store, r.task) THEN [db EXCEPT ![r.store].rows = db[r.store].rows \cup {<<kind, r.task>>}] ELSE db
      /\ raced' = IF r.task \in DOMAIN db[r.store].tasks THEN raced ELSE raced \cup {r.task}
      /\ Becomes(c, NoCall)
      /\ UNCHANGED <<env, linked, started, list, page, genTitle, born, titled, kept, astray>>
  BY DEF CreateRow, Ends
<1>2. r.store \in Stores /\ r.task \in StoreTasks /\ db[r.store].rows \in SUBSET ({"message", "file"} \X StoreTasks)
  BY CallTypes
<1>3. NoCall \in StoredCall /\ CallShape(NoCall)
  BY NoCallIs DEF StoreTypes
<1> HIDE DEF r
<1>4. DbIs(r.store, db[r.store].tasks, R)
  <2>1. CASE Accepts(r.store, r.task)
    <3>1. R = db[r.store].rows \cup {<<kind, r.task>>} /\ R \in SUBSET ({"message", "file"} \X StoreTasks)
      BY <1>2, <2>1
    <3>2. db' = [db EXCEPT ![r.store].rows = R]
      BY <1>1, <2>1, <3>1
    <3> QED
      BY <1>2, <3>1, <3>2, DbRows DEF StoreTypes
  <2>2. CASE ~Accepts(r.store, r.task)
    BY <1>1, <2>2 DEF DbIs, StoreTypes
  <2> QED
    BY <2>1, <2>2
<1>5. CallIs(c, NoCall)
  BY <1>1, <1>3, CallSet DEF StoreTypes
<1>6. StoreTypes'
  BY <1>1, <1>2, <1>3, <1>4, <1>5, ShapesStay DEF StoreTypes, DbIs
<1> QED
  BY <1>1, <1>4, <1>5, <1>6 DEF r

LEMMA ShowCallDoes ==
    ASSUME StoreTypes, NEW c \in StoreCallers, ShowCall(c)
    PROVE  LET r == calls[c] IN
           /\ UNCHANGED <<env, db, page, born, titled, kept, raced>>
           /\ Stales(c)
           /\ StoreTypes' /\ r.pc = "shown" /\ r.kind \in {"rename", "favorite", "delete", "status"}
           /\ list' = CASE r.kind = "delete" -> Without(list, r.task)
                        [] r.kind = "status" -> list
                        [] r.kind = "rename" /\ r.task \notin DOMAIN db[r.store].tasks -> list
                        [] OTHER -> Written(list, r)
           /\ CallIs(c, NoCall)
<1> DEFINE r == calls[c]
<1>1. /\ r.pc = "shown" /\ r.kind \in {"rename", "favorite", "delete", "status"}
      /\ list' = CASE r.kind = "delete" -> Without(list, r.task)
                   [] r.kind = "status" -> list
                   [] r.kind = "rename" /\ r.task \notin DOMAIN db[r.store].tasks -> list
                   [] OTHER -> Written(list, r)
      /\ Becomes(c, NoCall) /\ Stales(c)
      /\ UNCHANGED <<env, linked, db, started, page, genTitle, born, titled, kept, raced>>
  BY DEF ShowCall, Ends
<1>2. r.task \in StoreTasks /\ r.stamp \in 0 .. MaxCalls /\ list \in Tables
  BY CallTypes DEF StoreTypes
<1>3. NoCall \in StoredCall /\ CallShape(NoCall)
  BY NoCallIs DEF StoreTypes
<1> HIDE DEF r
<1>4. list' \in Tables
  <2>1. Without(list, r.task) \in Tables /\ Written(list, r) \in Tables
    BY <1>2, WithoutIs, WrittenIs
  <2> QED
    BY <1>1, <1>2, <2>1
<1>5. CallIs(c, NoCall)
  BY <1>1, <1>3, CallSet DEF StoreTypes
<1>6. astray' \in BOOLEAN
  BY <1>1 DEF Stales, StoreTypes
<1>7. StoreTypes'
  BY <1>1, <1>3, <1>4, <1>5, <1>6, ShapesStay DEF StoreTypes
<1> QED
  BY <1>1, <1>5, <1>7 DEF r

LEMMA ShowTitleDoes ==
    ASSUME StoreTypes, NEW c \in StoreCallers, ShowTitle(c)
    PROVE  LET r == calls[c] IN
           /\ UNCHANGED <<env, db, page, born, titled, kept, raced>>
           /\ StoreTypes' /\ r.pc = "shown" /\ r.kind = "title"
           /\ list' \in Tables /\ (page = r.task => list' = Written(list, r))
           /\ astray' = (astray \/ page # r.task \/ \E d \in StoreCallers \ {c} : Overlaps(r, calls[d]))
           /\ CallIs(c, NoCall) /\ DOMAIN list' = DOMAIN list
<1> DEFINE r == calls[c]
           q == [r EXCEPT !.task = page]
<1>1. /\ r.pc = "shown" /\ r.kind = "title" /\ genTitle' = r.stamp /\ list' = Written(list, q)
      /\ Becomes(c, NoCall)
      /\ astray' = (astray \/ page # r.task \/ \E d \in StoreCallers \ {c} : Overlaps(r, calls[d]))
      /\ UNCHANGED <<env, linked, db, started, page, born, titled, kept, raced>>
  BY DEF ShowTitle, Ends
<1>2. r \in StoredCall /\ r.stamp \in 0 .. MaxCalls /\ list \in Tables /\ page \in StoreTasks
  BY CallTypes DEF StoreTypes
<1>3. q.task = page /\ q.stamp = r.stamp /\ (page = r.task => q = r)
  BY <1>2 DEF StoredCall
<1>4. NoCall \in StoredCall /\ CallShape(NoCall)
  BY NoCallIs DEF StoreTypes
<1> HIDE DEF r, q
<1>5. list' \in Tables /\ DOMAIN list' = DOMAIN list
  BY <1>1, <1>2, <1>3, WrittenIs
<1>6. CallIs(c, NoCall)
  BY <1>1, <1>4, CallSet DEF StoreTypes
<1>7. astray' \in BOOLEAN
  BY <1>1 DEF StoreTypes
<1>8. StoreTypes'
  BY <1>1, <1>2, <1>4, <1>5, <1>6, <1>7, ShapesStay DEF StoreTypes
<1> QED
  BY <1>1, <1>3, <1>5, <1>6, <1>8 DEF r, q

LEMMA LoadAllDoes ==
    ASSUME StoreTypes, NEW c \in StoreCallers, LoadAllTasks(c)
    PROVE  LET r == calls[c] IN
           /\ UNCHANGED <<env, db, list, page, born, titled, kept, raced, astray>>
           /\ StoreTypes' /\ r.kind = "load" /\ r.pc = "go"
           /\ CallIs(c, AtPointWith(r, "set", db[r.store].tasks))
<1> DEFINE r == calls[c]
           m == AtPointWith(r, "set", db[r.store].tasks)
<1>1. /\ r.kind = "load" /\ r.pc = "go" /\ Becomes(c, m)
      /\ UNCHANGED <<env, linked, db, started, list, page, genTitle, born, titled, kept, raced, astray>>
  BY DEF LoadAllTasks, AtPoint, AtPointWith
<1>2. r \in StoredCall /\ db[r.store].tasks \in Tables
  BY CallTypes
<1>3. m \in StoredCall /\ m.kind = "load" /\ m.pc = "set" /\ m.copy \in Tables
  <2> DEFINE T == db[r.store].tasks
  <2>1. r \in StoredCall /\ T \in Tables /\ r.kind = "load"
    BY <1>1, <1>2
  <2>2. m = AtPointWith(r, "set", T) /\ "set" \in Points
    BY PointsAre
  <2> HIDE DEF r, T, m
  <2>3. LET n == AtPointWith(r, "set", T) IN n \in StoredCall /\ n.kind = r.kind /\ n.pc = "set" /\ n.copy = T
    BY <2>1, <2>2, MovedWith
  <2> QED
    BY <2>1, <2>2, <2>3
<1>4. CallShape(m)
  BY <1>3 DEF CallShape, Updates
<1> HIDE DEF m
<1>5. CallIs(c, m)
  BY <1>1, <1>3, CallSet DEF StoreTypes
<1>6. StoreTypes'
  BY <1>1, <1>3, <1>4, <1>5, ShapesStay DEF StoreTypes
<1> QED
  BY <1>1, <1>5, <1>6 DEF m

LEMMA SetListDoes ==
    ASSUME StoreTypes, NEW c \in StoreCallers, SetList(c)
    PROVE  LET r == calls[c] IN
           /\ UNCHANGED <<env, db, page, born, titled, kept, raced, astray>>
           /\ StoreTypes' /\ r.pc = "set" /\ r.kind = "load" /\ r.copy \in Tables
           /\ list' = Merged(r.copy) /\ CallIs(c, NoCall)
<1> DEFINE r == calls[c]
<1>1. /\ r.pc = "set" /\ list' = Merged(r.copy) /\ Becomes(c, NoCall)
      /\ UNCHANGED <<env, linked, db, started, page, genTitle, born, titled, kept, raced, astray>>
  BY DEF SetList, Ends
<1>2. r.kind = "load" /\ r.copy \in Tables
  <2>1. r.kind \in Kinds \cup {"none"} /\ CallShape(r)
    BY CallTypes DEF StoredCall
  <2> QED
    BY <1>1, <2>1 DEF CallShape, Kinds, Updates
<1>3. NoCall \in StoredCall /\ CallShape(NoCall)
  BY NoCallIs DEF StoreTypes
<1> HIDE DEF r
<1>4. list' \in Tables
  BY <1>1, <1>2, MergedIs DEF StoreTypes
<1>5. CallIs(c, NoCall)
  BY <1>1, <1>3, CallSet DEF StoreTypes
<1>6. StoreTypes'
  BY <1>1, <1>3, <1>4, <1>5, ShapesStay DEF StoreTypes
<1> QED
  BY <1>1, <1>2, <1>5, <1>6 DEF r

LEMMA NavigateDoes ==
    ASSUME StoreTypes, NEW c \in StoreCallers, Navigate(c)
    PROVE  /\ UNCHANGED <<env, db, born, titled, kept, raced>>
           /\ StoreTypes' /\ calls[c].pc = "idle"
           /\ \E t \in StoreTasks, s \in Stores : CallIs(c, NewCall("load", s, t)) /\ astray' = (astray \/ s # Home)
           /\ DOMAIN list' = DOMAIN list
<1>1. PICK t \in DOMAIN list \ {page}, s \in Stores :
         /\ Connects(s) /\ page' = t
         /\ list' = IF genTitle # 0 THEN [list EXCEPT ![t]["title"] = genTitle] ELSE list
         /\ Becomes(c, NewCall("load", s, t)) /\ astray' = (astray \/ s # Home)
  BY DEF Navigate, NewCall
<1>2. calls[c].pc = "idle" /\ started < MaxCalls /\ started' = started + 1
      /\ UNCHANGED <<env, db, genTitle, born, titled, kept, raced>>
  BY DEF Navigate
<1>3. t \in StoreTasks /\ list[t] \in RowType /\ genTitle \in 0 .. MaxCalls
  BY TableOf DEF StoreTypes
<1>4. list' \in Tables /\ DOMAIN list' = DOMAIN list
  <2>1. [list[t] EXCEPT !["title"] = genTitle] \in RowType
    BY <1>3 DEF RowType
  <2>2. [list EXCEPT ![t]["title"] = genTitle] \in [DOMAIN list -> RowType]
    BY <2>1, TableOf DEF StoreTypes
  <2> QED
    BY <1>1, <2>2, TableOf, TableWith DEF StoreTypes
<1>5. CallIs(c, NewCall("load", s, t)) /\ CallShape(NewCall("load", s, t)) /\ NewCall("load", s, t) \in StoredCall
  BY <1>1, <1>2, <1>3, NewCallIs, CallSet DEF StoreTypes, Kinds
<1>6. linked' \in BOOLEAN /\ started' \in 0 .. MaxCalls
  BY <1>1, <1>2, Linked, Counted
<1>7. StoreTypes'
  BY <1>1, <1>2, <1>3, <1>4, <1>5, <1>6, ShapesStay DEF StoreTypes
<1> QED
  BY <1>1, <1>2, <1>3, <1>4, <1>5, <1>7

LEMMA ClearBeginsDoes ==
    ASSUME StoreTypes, NEW c \in StoreCallers, ClearBegins(c)
    PROVE  LET r == calls[c] IN
           /\ UNCHANGED <<env, db, list, page, born, titled, kept, raced, astray>>
           /\ StoreTypes' /\ r.kind = "clear" /\ r.pc = "go"
           /\ CallIs(c, AtPointWith(r, "each", DOMAIN db[r.store].tasks))
<1> DEFINE r == calls[c]
           m == AtPointWith(r, "each", DOMAIN db[r.store].tasks)
<1>1. /\ r.kind = "clear" /\ r.pc = "go" /\ Becomes(c, m)
      /\ UNCHANGED <<env, linked, db, started, list, page, genTitle, born, titled, kept, raced, astray>>
  BY DEF ClearBegins, AtPoint, AtPointWith
<1>2. r \in StoredCall /\ DOMAIN db[r.store].tasks \in SUBSET StoreTasks
  BY CallTypes, TableOf
<1>3. m \in StoredCall /\ m.kind = "clear" /\ m.pc = "each" /\ m.copy \in SUBSET StoreTasks
  BY <1>1, <1>2, MovedWith, PointsAre
<1>4. CallShape(m)
  BY <1>3 DEF CallShape, Updates
<1> HIDE DEF m
<1>5. CallIs(c, m)
  BY <1>1, <1>3, CallSet DEF StoreTypes
<1>6. StoreTypes'
  BY <1>1, <1>3, <1>4, <1>5, ShapesStay DEF StoreTypes
<1> QED
  BY <1>1, <1>5, <1>6 DEF m

LEMMA ClearTaskDoes ==
    ASSUME StoreTypes, NEW c \in StoreCallers, ClearTask(c)
    PROVE  LET r == calls[c] IN
           /\ UNCHANGED <<env, list, page, born, titled, kept, raced, astray>>
           /\ StoreTypes' /\ r.pc = "each" /\ r.kind = "clear"
           /\ \E t \in r.copy : /\ DbIs(r.store, db[r.store].tasks, db[r.store].rows \ {<<"message", t>>})
                                /\ CallIs(c, [r EXCEPT !.pc = "first", !.task = t, !.copy = @ \ {t}])
<1> DEFINE r == calls[c]
<1>1. PICK t \in r.copy :
         /\ db' = [db EXCEPT ![r.store].rows = db[r.store].rows \ {<<"message", t>>}]
         /\ Becomes(c, [r EXCEPT !.pc = "first", !.task = t, !.copy = r.copy \ {t}])
  BY DEF ClearTask
<1> DEFINE m == [r EXCEPT !.pc = "first", !.task = t, !.copy = r.copy \ {t}]
<1>2. r.pc = "each" /\ UNCHANGED <<env, linked, started, list, page, genTitle, born, titled, kept, raced, astray>>
  BY DEF ClearTask
<1>3. /\ r \in StoredCall /\ CallShape(r) /\ r.kind \in Kinds \cup {"none"} /\ r.store \in Stores
      /\ db[r.store].rows \in SUBSET ({"message", "file"} \X StoreTasks)
  BY CallTypes DEF StoredCall
<1>4. r.kind = "clear" /\ r.copy \in SUBSET StoreTasks
  BY <1>2, <1>3 DEF CallShape, Kinds, Updates
<1>5. m \in StoredCall /\ m.kind = "clear" /\ m.pc = "first" /\ m.copy \in SUBSET StoreTasks
  BY <1>1, <1>3, <1>4 DEF StoredCall
<1>6. CallShape(m)
  BY <1>5 DEF CallShape, Updates
<1> HIDE DEF r, m
<1>7. DbIs(r.store, db[r.store].tasks, db[r.store].rows \ {<<"message", t>>})
  BY <1>1, <1>3, DbRows DEF StoreTypes
<1>8. CallIs(c, m)
  BY <1>1, <1>5, CallSet DEF StoreTypes, m
<1>9. StoreTypes'
  BY <1>2, <1>5, <1>6, <1>7, <1>8, ShapesStay DEF StoreTypes, DbIs
<1> QED
  BY <1>1, <1>2, <1>4, <1>7, <1>8, <1>9 DEF r, m

LEMMA ReloadDoes ==
    ASSUME StoreTypes, NEW c \in StoreCallers, Reload(c)
    PROVE  /\ StoreTypes' /\ list' = Empty
           /\ calls'[c].kind = "load" /\ calls'[c].pc = "go" /\ calls'[c].store = Home
           /\ \A d \in StoreCallers : d # c => calls'[d] = NoCall
           /\ UNCHANGED <<env, db, page, born, titled, kept, astray>>
           /\ raced' = raced \cup {calls[d].task : d \in {e \in StoreCallers : calls[e].pc = "rows"}}
<1> DEFINE m == [NoCall EXCEPT !.kind = "load", !.pc = "go", !.store = Home]
<1>1. /\ calls' = [d \in StoreCallers |-> IF d = c THEN m ELSE NoCall]
      /\ linked' = (env = "tauri") /\ list' = Empty /\ genTitle' = 0
      /\ raced' = raced \cup {calls[d].task : d \in {e \in StoreCallers : calls[e].pc = "rows"}}
      /\ UNCHANGED <<env, db, page, born, titled, kept, astray>>
      /\ UNCHANGED started \/ (started < MaxCalls /\ started' = started + 1)
  BY DEF Reload
<1>2. NoCall \in StoredCall /\ CallShape(NoCall)
  BY NoCallIs DEF StoreTypes
<1>3. m \in StoredCall /\ m.kind = "load" /\ m.pc = "go" /\ m.store = Home
  BY <1>2 DEF StoredCall, Kinds, Home, Stores
<1>4. CallShape(m)
  BY <1>3 DEF CallShape, Updates
<1> HIDE DEF m
<1>5. calls' \in [StoreCallers -> StoredCall] /\ \A d \in StoreCallers : CallShape(calls'[d])
  BY <1>1, <1>2, <1>3, <1>4
<1>6. started' \in 0 .. MaxCalls /\ genTitle' \in 0 .. MaxCalls
  BY <1>1, StoreAssumption DEF StoreTypes
<1>7. raced' \subseteq StoreTasks
  BY <1>1 DEF StoreTypes, StoredCall
<1>8. StoreTypes'
  BY <1>1, <1>5, <1>6, <1>7, EmptyIs DEF StoreTypes
<1> QED
  BY <1>1, <1>3, <1>8

LEMMA NewCallHas ==
    ASSUME NEW k, NEW s, NEW t
    PROVE  /\ NewCall(k, s, t).kind = k /\ NewCall(k, s, t).pc = "go" /\ NewCall(k, s, t).store = s
           /\ NewCall(k, s, t).task = t
BY DEF NewCall, NoCall

LEMMA NoCallHas == NoCall.kind = "none" /\ NoCall.pc = "idle"
BY DEF NoCall

-----------------------------------------------------------------------------
(* Tasks that are listed, stored or worked on have been created.           *)

CallBorn(r, B) ==
    /\ r.kind \in Updates \cup {"delete", "create"} => r.task \in B
    /\ r.pc = "set" => DOMAIN r.copy \subseteq B

BornInv ==
    /\ titled \subseteq born /\ DOMAIN list \subseteq born
    /\ \A s \in Stores : DOMAIN kept[s] \subseteq born /\ DOMAIN db[s].tasks \subseteq born
    /\ \A c \in StoreCallers : CallBorn(calls[c], born)

LEMMA CallsBorn ==
    ASSUME BornInv, NEW c \in StoreCallers, NEW r, CallIs(c, r), born \subseteq born', CallBorn(r, born')
    PROVE  \A d \in StoreCallers : CallBorn(calls'[d], born')
BY DEF BornInv, CallIs, CallBorn

LEMMA BornStart == ASSUME StoreInit PROVE BornInv
<1>1. DOMAIN list = born /\ DOMAIN Empty = {}
  BY EmptyIs DEF StoreInit
<1>2. \A s \in Stores : kept[s] \in {list, Empty} /\ db[s].tasks = kept[s]
  BY DEF StoreInit
<1> QED
  BY <1>1, <1>2, NoCallHas DEF StoreInit, BornInv, CallBorn, Updates

LEMMA BornKeep == ASSUME StoreTypes, BornInv, [StoreNext]_storeVars PROVE BornInv'
<1>0. CASE UNCHANGED storeVars
  BY <1>0 DEF storeVars, BornInv
<1> SUFFICES ASSUME NEW c \in StoreCallers,
                    \/ StartCall(c) \/ StartCreate(c) \/ StartTitle(c) \/ CreateTask(c)
                    \/ UpdateRow(c) \/ ReadRow(c) \/ PutRow(c) \/ DeleteTask(c) \/ DeleteMessages(c)
                    \/ CreateMessage(c) \/ CreateFile(c)
                    \/ ShowCall(c) \/ ShowTitle(c) \/ LoadAllTasks(c) \/ SetList(c) \/ Navigate(c)
                    \/ ClearBegins(c) \/ ClearTask(c) \/ Reload(c)
             PROVE  BornInv'
  BY <1>0 DEF StoreNext
<1> DEFINE r == calls[c]
<1>t. /\ r \in StoredCall /\ CallShape(r) /\ CallBorn(r, born) /\ r.store \in Stores /\ r.task \in StoreTasks
      /\ r.stamp \in 0 .. MaxCalls /\ db[r.store].tasks \in Tables /\ kept[r.store] \in Tables /\ list \in Tables
  BY CallTypes DEF BornInv, StoreTypes
<1>1. CASE StartCall(c)
  <2>1. PICK kind \in Kinds, t \in StoreTasks, s \in Stores :
                /\ kind \notin {"title", "create"}
                /\ kind \in {"rename", "favorite", "delete"} => t \in DOMAIN list
                /\ kind \in {"status", "message", "file"} => \E u \in Stores : t \in DOMAIN kept[u]
                /\ CallIs(c, NewCall(kind, s, t))
    BY <1>1, StartCallDoes
  <2>2. UNCHANGED <<env, db, list, page, born, titled, kept, raced>>
    BY <1>1, StartCallDoes
  <2>3. kind \in Updates \cup {"delete", "create"} => t \in born
    BY <2>1 DEF BornInv, Updates
  <2>4. CallBorn(NewCall(kind, s, t), born')
    BY <2>2, <2>3, NewCallHas DEF CallBorn
  <2> QED
    BY <2>1, <2>2, <2>4, CallsBorn DEF BornInv
<1>2. CASE StartCreate(c)
  <2>1. PICK t \in StoreTasks \ born, s \in Stores :
                /\ born' = born \cup {t}
                /\ CallIs(c, NewCall("create", s, t))
                /\ list' = Put(list, t, NewRow)
    BY <1>2, StartCreateDoes
  <2>2. UNCHANGED <<env, db, titled, kept, raced>>
    BY <1>2, StartCreateDoes
  <2>3. CallBorn(NewCall("create", s, t), born')
    BY <2>1, NewCallHas DEF CallBorn
  <2>4. DOMAIN list' = DOMAIN list \cup {t}
    BY <1>t, <2>1, PutIs, EmptyIs
  <2>5. born \subseteq born'
    BY <2>1
  <2> QED
    BY <2>1, <2>2, <2>3, <2>4, <2>5, CallsBorn DEF BornInv
<1>3. CASE StartTitle(c)
  <2>1. PICK s \in Stores : \E t \in DOMAIN kept[s] : t \in StoreTasks /\ CallIs(c, NewCall("title", s, t))
    BY <1>3, StartTitleDoes
  <2>2. PICK t \in DOMAIN kept[s] : t \in StoreTasks /\ CallIs(c, NewCall("title", s, t))
    BY <2>1
  <2>3. UNCHANGED <<env, db, list, page, born, kept, raced, astray>>
    BY <1>3, StartTitleDoes
  <2>4. CallBorn(NewCall("title", s, t), born')
    BY <2>2, <2>3, NewCallHas DEF CallBorn, BornInv
  <2>5. titled' \subseteq born
    BY <1>3 DEF StartTitle, BornInv
  <2> QED
    BY <2>2, <2>3, <2>4, <2>5, CallsBorn DEF BornInv
<1>4. CASE CreateTask(c)
  <2> DEFINE m == [r EXCEPT !.kind = "load"]
  <2>1. /\ UNCHANGED <<env, list, page, born, titled>> /\ r.kind = "create" /\ CallIs(c, m)
        /\ DbIs(r.store, Put(db[r.store].tasks, r.task, NewRow), db[r.store].rows)
        /\ KeptIs(r.store, Put(kept[r.store], r.task, NewRow))
    BY <1>4, CreateTaskDoes
  <2>2. m.kind = "load" /\ m.pc = r.pc /\ m.copy = r.copy
    BY <1>t DEF StoredCall
  <2>3. r.task \in born /\ r.pc = "go"
    BY <1>t, <2>1 DEF CallBorn, CallShape
  <2>4. CallBorn(m, born')
    BY <2>2, <2>3 DEF CallBorn, Updates
  <2>5. /\ DOMAIN Put(db[r.store].tasks, r.task, NewRow) \subseteq born
        /\ DOMAIN Put(kept[r.store], r.task, NewRow) \subseteq born
    <3> DEFINE T == db[r.store].tasks
               K == kept[r.store]
    <3>1. T \in Tables /\ K \in Tables /\ DOMAIN T \subseteq born /\ DOMAIN K \subseteq born /\ r.task \in StoreTasks
      BY <1>t DEF BornInv
    <3> HIDE DEF T, K, r
    <3>2. DOMAIN Put(T, r.task, NewRow) = DOMAIN T \cup {r.task}
      BY <3>1, PutNewIs
    <3>3. DOMAIN Put(K, r.task, NewRow) = DOMAIN K \cup {r.task}
      BY <3>1, PutNewIs
    <3> QED
      BY <2>3, <3>1, <3>2, <3>3 DEF T, K
  <2> HIDE DEF r, m
  <2> QED
    BY <2>1, <2>4, <2>5, CallsBorn DEF BornInv, DbIs, KeptIs
<1>5. CASE UpdateRow(c)
  <2> DEFINE m == AtPoint(r, "shown")
  <2>1. /\ UNCHANGED <<env, list, page, born, titled, raced>> /\ CallIs(c, m)
        /\ DbIs(r.store, Written(db[r.store].tasks, r), db[r.store].rows)
        /\ KeptIs(r.store, Written(kept[r.store], r))
    BY <1>5, UpdateRowDoes
  <2>2. CallBorn(m, born')
    BY <1>t, <2>1, Moved DEF CallBorn, Points
  <2>3. DOMAIN Written(db[r.store].tasks, r) = DOMAIN db[r.store].tasks /\ DOMAIN Written(kept[r.store], r) = DOMAIN kept[r.store]
    BY <1>t, WrittenIs
  <2> HIDE DEF m
  <2> QED
    BY <1>t, <2>1, <2>2, <2>3, CallsBorn DEF BornInv, DbIs, KeptIs
<1>6. CASE ReadRow(c)
  <2>1. /\ UNCHANGED <<env, db, list, page, born, titled, kept, raced>>
        /\ \E m : CallIs(c, m) /\ m.kind = r.kind /\ m.task = r.task /\ m.pc \in {"put", "shown"}
    <3> DEFINE T == db[r.store].tasks
    <3>1. CASE r.task \in DOMAIN T
      <4>1. CallIs(c, AtPointWith(r, "put", T[r.task])) /\ T[r.task] \in RowType
        BY <1>6, <1>t, <3>1, ReadRowDoes, TableOf
      <4>2. UNCHANGED <<env, db, list, page, born, titled, kept, raced>> /\ r \in StoredCall
        BY <1>6, <1>t, ReadRowDoes
      <4> HIDE DEF r, T
      <4> QED
        BY <4>1, <4>2, MovedWith, PointsAre
    <3>2. CASE r.task \notin DOMAIN T
      <4>1. CallIs(c, AtPoint(r, "shown"))
        BY <1>6, <3>2, ReadRowDoes
      <4> QED
        BY <1>6, <1>t, <4>1, Moved, ReadRowDoes DEF Points
    <3> QED
      BY <3>1, <3>2
  <2>2. PICK m : CallIs(c, m) /\ m.kind = r.kind /\ m.task = r.task /\ m.pc \in {"put", "shown"}
    BY <2>1
  <2>3. CallBorn(m, born')
    BY <1>t, <2>1, <2>2 DEF CallBorn
  <2> QED
    BY <2>1, <2>2, <2>3, CallsBorn DEF BornInv
<1>7. CASE PutRow(c)
  <2> DEFINE m == AtPointWith(r, "shown", <<>>)
             row == [r.copy EXCEPT ![Field(r.kind)] = r.stamp]
  <2>1. /\ UNCHANGED <<env, list, page, born, titled>> /\ CallIs(c, m) /\ r.kind \in Updates /\ r.copy \in RowType
        /\ DbIs(r.store, Put(db[r.store].tasks, r.task, row), db[r.store].rows)
        /\ KeptIs(r.store, Written(kept[r.store], r))
    BY <1>7, PutRowDoes
  <2>2. CallBorn(m, born')
    <3>1. r \in StoredCall /\ CallBorn(r, born) /\ born' = born /\ r.kind \in Updates
      BY <1>t, <2>1
    <3> HIDE DEF r
    <3> QED
      BY <3>1, MovedWith, PointsAre DEF CallBorn
  <2>3. row \in RowType
    BY <1>t, <2>1, FieldIs DEF RowType
  <2> HIDE DEF row, m
  <2>4. DOMAIN Put(db[r.store].tasks, r.task, row) = DOMAIN db[r.store].tasks \cup {r.task}
        /\ DOMAIN Written(kept[r.store], r) = DOMAIN kept[r.store]
    <3> DEFINE T == db[r.store].tasks
               K == kept[r.store]
    <3>1. T \in Tables /\ K \in Tables /\ r.task \in StoreTasks /\ r.stamp \in 0 .. MaxCalls
      BY <1>t
    <3> HIDE DEF T, K, r
    <3> DEFINE t == r.task
    <3>4. T \in Tables /\ t \in StoreTasks /\ row \in RowType
      BY <2>3, <3>1
    <3> HIDE DEF t
    <3>5. DOMAIN Put(T, t, row) = DOMAIN T \cup {t}
      BY <3>4, PutIs
    <3>2. DOMAIN Put(T, r.task, row) = DOMAIN T \cup {r.task}
      BY <3>5 DEF t
    <3>3. DOMAIN Written(K, r) = DOMAIN K
      BY <3>1, WrittenIs
    <3> QED
      BY <3>2, <3>3 DEF T, K
  <2>5. r.task \in born
    BY <1>t, <2>1 DEF CallBorn
  <2> HIDE DEF r
  <2> QED
    BY <1>t, <2>1, <2>2, <2>4, <2>5, CallsBorn DEF BornInv, DbIs, KeptIs
<1>8. CASE DeleteTask(c)
  <2> DEFINE p == IF r.store = "idb" THEN "rows" ELSE IF r.kind = "clear" THEN "each" ELSE "shown"
             m == AtPoint(r, p)
  <2>1. /\ UNCHANGED <<env, list, page, born, titled>> /\ CallIs(c, m)
        /\ DbIs(r.store, Without(db[r.store].tasks, r.task), Cascades(r.store, db[r.store].rows, r.task))
        /\ KeptIs(r.store, Without(kept[r.store], r.task))
    BY <1>8, DeleteTaskDoes
  <2>2. CallBorn(m, born')
    BY <1>t, <2>1, Moved DEF CallBorn, Points
  <2>3. DOMAIN Without(db[r.store].tasks, r.task) \subseteq DOMAIN db[r.store].tasks
        /\ DOMAIN Without(kept[r.store], r.task) \subseteq DOMAIN kept[r.store]
    <3> DEFINE T == db[r.store].tasks
               K == kept[r.store]
    <3>1. T \in Tables /\ K \in Tables /\ r.task \in StoreTasks
      BY <1>t
    <3> HIDE DEF T, K, r
    <3>2. DOMAIN Without(T, r.task) = DOMAIN T \ {r.task} /\ DOMAIN Without(K, r.task) = DOMAIN K \ {r.task}
      BY <3>1, WithoutIs
    <3> QED
      BY <3>2 DEF T, K
  <2> HIDE DEF r, m, p
  <2> QED
    BY <1>t, <2>1, <2>2, <2>3, CallsBorn DEF BornInv, DbIs, KeptIs
<1>9. CASE DeleteMessages(c)
  <2> DEFINE m == AtPoint(r, IF r.kind = "clear" THEN "each" ELSE "shown")
  <2>1. /\ DbIs(r.store, db[r.store].tasks, db[r.store].rows \ {<<"message", r.task>>}) /\ CallIs(c, m)
        /\ UNCHANGED <<env, list, page, born, titled, kept, raced, astray>>
    BY <1>9, DeleteMessagesDoes
  <2>2. CallBorn(m, born')
    BY <1>t, <2>1, Moved DEF CallBorn, Points
  <2> HIDE DEF r, m
  <2> QED
    BY <1>t, <2>1, <2>2, CallsBorn DEF BornInv, DbIs
<1>10. CASE CreateMessage(c) \/ CreateFile(c)
  <2>1. PICK kind \in {"message", "file"} : CreateRow(c, kind)
    BY <1>10 DEF CreateMessage, CreateFile
  <2>2. /\ \E R : DbIs(r.store, db[r.store].tasks, R)
        /\ CallIs(c, NoCall) /\ UNCHANGED <<env, list, page, born, titled, kept, astray>>
    BY <2>1, CreateRowDoes
  <2>3. CallBorn(NoCall, born')
    BY NoCallHas DEF CallBorn, Updates
  <2> HIDE DEF r
  <2> QED
    BY <1>t, <2>2, <2>3, CallsBorn DEF BornInv, DbIs
<1>11. CASE ShowCall(c)
  <2>1. /\ UNCHANGED <<env, db, page, born, titled, kept, raced>> /\ CallIs(c, NoCall)
        /\ list' \in {list, Without(list, r.task), Written(list, r)}
    BY <1>11, ShowCallDoes
  <2>2. CallBorn(NoCall, born')
    BY NoCallHas DEF CallBorn, Updates
  <2>3. DOMAIN list' \subseteq DOMAIN list
    <3>1. r.task \in StoreTasks /\ r.stamp \in 0 .. MaxCalls /\ list \in Tables
      BY <1>t
    <3> HIDE DEF r
    <3>2. DOMAIN Without(list, r.task) = DOMAIN list \ {r.task} /\ DOMAIN Written(list, r) = DOMAIN list
      BY <3>1, WithoutIs, WrittenIs
    <3> QED
      BY <2>1, <3>2
  <2> QED
    BY <2>1, <2>2, <2>3, CallsBorn DEF BornInv
<1>12. CASE ShowTitle(c)
  <2>1. /\ UNCHANGED <<env, db, page, born, titled, kept, raced>> /\ CallIs(c, NoCall) /\ DOMAIN list' = DOMAIN list
    BY <1>12, ShowTitleDoes
  <2>2. CallBorn(NoCall, born')
    BY NoCallHas DEF CallBorn, Updates
  <2> QED
    BY <2>1, <2>2, CallsBorn DEF BornInv
<1>13. CASE LoadAllTasks(c)
  <2> DEFINE m == AtPointWith(r, "set", db[r.store].tasks)
  <2>1. UNCHANGED <<env, db, list, page, born, titled, kept, raced, astray>> /\ r.kind = "load" /\ CallIs(c, m)
    BY <1>13, LoadAllDoes
  <2>2. CallBorn(m, born')
    <3> DEFINE T == db[r.store].tasks
    <3>1. r \in StoredCall /\ T \in Tables /\ DOMAIN T \subseteq born /\ r.kind = "load" /\ born' = born
      BY <1>t, <2>1 DEF BornInv
    <3>3. m = AtPointWith(r, "set", T) /\ "set" \in Points
      BY PointsAre
    <3> HIDE DEF r, T, m
    <3>4. LET n == AtPointWith(r, "set", T) IN n.kind = r.kind /\ n.copy = T
      BY <3>1, <3>3, MovedWith
    <3>2. m.kind = "load" /\ m.copy = T
      BY <3>1, <3>3, <3>4
    <3> QED
      BY <3>1, <3>2 DEF CallBorn, Updates
  <2> HIDE DEF m
  <2> QED
    BY <2>1, <2>2, CallsBorn DEF BornInv
<1>14. CASE SetList(c)
  <2>1. /\ UNCHANGED <<env, db, page, born, titled, kept, raced, astray>> /\ CallIs(c, NoCall)
        /\ r.pc = "set" /\ r.copy \in Tables /\ list' = Merged(r.copy)
    BY <1>14, SetListDoes
  <2>2. CallBorn(NoCall, born')
    BY NoCallHas DEF CallBorn, Updates
  <2>3. DOMAIN list' \subseteq DOMAIN r.copy \cup DOMAIN list
    BY <1>t, <2>1, MergedIs DEF StoreTypes
  <2>4. DOMAIN r.copy \subseteq born
    BY <1>t, <2>1 DEF CallBorn
  <2> QED
    BY <2>1, <2>2, <2>3, <2>4, CallsBorn DEF BornInv
<1>15. CASE Navigate(c)
  <2>1. PICK t \in StoreTasks, s \in Stores : CallIs(c, NewCall("load", s, t))
    BY <1>15, NavigateDoes
  <2>2. UNCHANGED <<env, db, born, titled, kept, raced>> /\ DOMAIN list' = DOMAIN list
    BY <1>15, NavigateDoes
  <2>3. CallBorn(NewCall("load", s, t), born')
    BY NewCallHas DEF CallBorn, Updates
  <2> QED
    BY <2>1, <2>2, <2>3, CallsBorn DEF BornInv
<1>16. CASE ClearBegins(c)
  <2> DEFINE m == AtPointWith(r, "each", DOMAIN db[r.store].tasks)
  <2>1. UNCHANGED <<env, db, list, page, born, titled, kept, raced, astray>> /\ r.kind = "clear" /\ CallIs(c, m)
    BY <1>16, ClearBeginsDoes
  <2>2. DOMAIN db[r.store].tasks \in SUBSET StoreTasks
    BY <1>t, TableOf
  <2>3. CallBorn(m, born')
    <3> DEFINE D == DOMAIN db[r.store].tasks
    <3>1. r \in StoredCall /\ r.kind = "clear" /\ D \in SUBSET StoreTasks
      BY <1>t, <2>1, <2>2
    <3> HIDE DEF r, D
    <3>2. m.kind = "clear" /\ m.pc = "each"
      BY <3>1, MovedWith, PointsAre DEF D
    <3> QED
      BY <3>2 DEF CallBorn, Updates
  <2> HIDE DEF m
  <2> QED
    BY <2>1, <2>3, CallsBorn DEF BornInv
<1>17. CASE ClearTask(c)
  <2>1. PICK t \in r.copy : /\ DbIs(r.store, db[r.store].tasks, db[r.store].rows \ {<<"message", t>>})
                            /\ CallIs(c, [r EXCEPT !.pc = "first", !.task = t, !.copy = @ \ {t}])
    BY <1>17, ClearTaskDoes
  <2>2. UNCHANGED <<env, list, page, born, titled, kept, raced, astray>> /\ r.kind = "clear"
    BY <1>17, ClearTaskDoes
  <2> DEFINE m == [r EXCEPT !.pc = "first", !.task = t, !.copy = r.copy \ {t}]
  <2>3. m.kind = r.kind /\ m.pc = "first"
    BY <1>t DEF StoredCall
  <2>4. CallBorn(m, born')
    BY <2>2, <2>3 DEF CallBorn, Updates
  <2> HIDE DEF r, m
  <2> QED
    BY <1>t, <2>1, <2>2, <2>4, CallsBorn DEF BornInv, DbIs, m
<1>18. CASE Reload(c)
  <2>1. /\ list' = Empty /\ UNCHANGED <<env, db, page, born, titled, kept, astray>>
        /\ calls'[c].kind = "load" /\ calls'[c].pc = "go" /\ \A d \in StoreCallers : d # c => calls'[d] = NoCall
    BY <1>18, ReloadDoes
  <2>2. \A d \in StoreCallers : CallBorn(calls'[d], born')
    BY <2>1, NoCallHas DEF CallBorn, Updates
  <2> QED
    BY <2>1, <2>2, EmptyIs DEF BornInv
<1> QED
  BY <1>1, <1>2, <1>3, <1>4, <1>5, <1>6, <1>7, <1>8, <1>9, <1>10, <1>11, <1>12, <1>13, <1>14, <1>15, <1>16, <1>17, <1>18

LEMMA StoreTypesKeep == ASSUME StoreTypes, [StoreNext]_storeVars PROVE StoreTypes'
<1>1. CASE UNCHANGED storeVars
  BY <1>1 DEF storeVars, StoreTypes
<1>2. CASE StoreNext
  <2>1. PICK c \in StoreCallers :
           \/ StartCall(c) \/ StartCreate(c) \/ StartTitle(c) \/ CreateTask(c)
           \/ UpdateRow(c) \/ ReadRow(c) \/ PutRow(c) \/ DeleteTask(c) \/ DeleteMessages(c)
           \/ CreateMessage(c) \/ CreateFile(c)
           \/ ShowCall(c) \/ ShowTitle(c) \/ LoadAllTasks(c) \/ SetList(c) \/ Navigate(c)
           \/ ClearBegins(c) \/ ClearTask(c) \/ Reload(c)
    BY <1>2 DEF StoreNext
  <2>2. CASE StartCall(c) \/ StartCreate(c) \/ StartTitle(c) \/ CreateTask(c)
    BY <2>2, StartCallDoes, StartCreateDoes, StartTitleDoes, CreateTaskDoes
  <2>3. CASE UpdateRow(c) \/ ReadRow(c) \/ PutRow(c) \/ DeleteTask(c) \/ DeleteMessages(c)
    BY <2>3, UpdateRowDoes, ReadRowDoes, PutRowDoes, DeleteTaskDoes, DeleteMessagesDoes
  <2>4. CASE CreateMessage(c) \/ CreateFile(c)
    BY <2>4, CreateRowDoes DEF CreateMessage, CreateFile
  <2>5. CASE ShowCall(c) \/ ShowTitle(c) \/ LoadAllTasks(c) \/ SetList(c)
    BY <2>5, ShowCallDoes, ShowTitleDoes, LoadAllDoes, SetListDoes
  <2>6. CASE Navigate(c) \/ ClearBegins(c) \/ ClearTask(c) \/ Reload(c)
    BY <2>6, NavigateDoes, ClearBeginsDoes, ClearTaskDoes, ReloadDoes
  <2> QED
    BY <2>1, <2>2, <2>3, <2>4, <2>5, <2>6
<1> QED
  BY <1>1, <1>2

-----------------------------------------------------------------------------
(* Writes stay: an update's copy is the row, unless a write came between.  *)

CopyIsRow(r, T) == r.pc = "put" /\ r.task \notin raced => r.task \in DOMAIN T /\ r.copy = T[r.task]
WritesInv == WritesStay /\ \A c \in StoreCallers : CopyIsRow(calls[c], db["idb"].tasks)

\* One store's tables agree with what the calls one after the other leave.
Agree(t, T, K) == (t \in DOMAIN T <=> t \in DOMAIN K) /\ (t \in DOMAIN K => T[t] = K[t])

\* A step that leaves the tasks alone.
LEMMA TasksAlone ==
    ASSUME StoreTypes, WritesInv, NEW c \in StoreCallers, NEW r, CallIs(c, r), raced \subseteq raced', UNCHANGED kept,
           \A s \in Stores : db'[s].tasks = db[s].tasks,
           r.pc = "put" /\ r.task \notin raced' => r.task \in DOMAIN db["idb"].tasks /\ r.copy = db["idb"].tasks[r.task]
    PROVE  WritesInv'
<1>1. "idb" \in Stores
  BY DEF Stores
<1>2. db'["idb"].tasks = db["idb"].tasks
  BY <1>1
<1>3. WritesStay'
  BY DEF WritesInv, WritesStay
<1>4. ASSUME NEW d \in StoreCallers PROVE CopyIsRow(calls[d], db["idb"].tasks)'
  BY <1>2 DEF WritesInv, CopyIsRow, CallIs
<1> QED
  BY <1>3, <1>4 DEF WritesInv

\* A step that writes one task of one store, in both alike.
LEMMA TaskWritten ==
    ASSUME StoreTypes, WritesInv, NEW c \in StoreCallers, NEW r, CallIs(c, r), r.pc # "put",
           NEW s \in Stores, NEW t \in StoreTasks, NEW T, NEW K,
           db'[s].tasks = T, kept'[s] = K, \A u \in Stores : u # s => db'[u] = db[u] /\ kept'[u] = kept[u],
           \A u \in StoreTasks : u # t => (u \in DOMAIN T <=> u \in DOMAIN db[s].tasks) /\ (u \in DOMAIN T => T[u] = db[s].tasks[u]),
           \A u \in StoreTasks : u # t => (u \in DOMAIN K <=> u \in DOMAIN kept[s]) /\ (u \in DOMAIN K => K[u] = kept[s][u]),
           t \notin raced' => Agree(t, T, K),
           raced \subseteq raced', s # "idb" \/ Races(c, t), calls[c].store = s
    PROVE  WritesInv'
<1>1. WritesStay'
  <2> SUFFICES ASSUME NEW u \in Stores, NEW v \in StoreTasks \ raced' PROVE Agree(v, db'[u].tasks, kept'[u])
    BY DEF WritesStay, Agree
  <2>1. v \notin raced /\ Agree(v, db[u].tasks, kept[u])
    BY DEF WritesInv, WritesStay, Agree
  <2>2. CASE u # s
    BY <2>1, <2>2
  <2>3. CASE u = s /\ v # t
    BY <2>1, <2>3 DEF Agree
  <2>4. CASE u = s /\ v = t
    BY <2>4
  <2> QED
    BY <2>2, <2>3, <2>4
<1>2. ASSUME NEW d \in StoreCallers PROVE CopyIsRow(calls[d], db["idb"].tasks)'
  <2> SUFFICES ASSUME calls'[d].pc = "put", calls'[d].task \notin raced'
               PROVE  calls'[d].task \in DOMAIN db'["idb"].tasks /\ calls'[d].copy = db'["idb"].tasks[calls'[d].task]
    BY DEF CopyIsRow
  <2>1. d # c /\ calls'[d] = calls[d]
    BY DEF CallIs
  <2>2. calls[d].task \in DOMAIN db["idb"].tasks /\ calls[d].copy = db["idb"].tasks[calls[d].task]
    BY <2>1 DEF WritesInv, CopyIsRow
  <2>3. calls[d].store = "idb" /\ calls[d].task \in StoreTasks
    BY <2>1, CallTypes DEF CallShape
  <2>4. CASE s # "idb"
    BY <2>1, <2>2, <2>4 DEF Stores
  <2>5. CASE s = "idb"
    <3>1. calls[d].task # t
      BY <2>1, <2>3, <2>5 DEF Races
    <3> QED
      BY <2>1, <2>2, <2>3, <2>5, <3>1
  <2> QED
    BY <2>4, <2>5
<1> QED
  BY <1>1, <1>2 DEF WritesInv

LEMMA WritesStart == ASSUME StoreInit PROVE WritesInv
<1>1. \A s \in Stores : db[s].tasks = kept[s]
  BY DEF StoreInit
<1>2. \A c \in StoreCallers : calls[c].pc = "idle"
  BY NoCallHas DEF StoreInit
<1> QED
  BY <1>1, <1>2 DEF WritesInv, WritesStay, CopyIsRow

LEMMA RowsOnly ==
    ASSUME StoreTypes, NEW s \in Stores, NEW R, DbIs(s, db[s].tasks, R)
    PROVE  \A u \in Stores : db'[u].tasks = db[u].tasks
BY DEF DbIs

LEMMA WritesKeep == ASSUME StoreTypes, WritesInv, [StoreNext]_storeVars PROVE WritesInv'
<1>0. CASE UNCHANGED storeVars
  <2>1. UNCHANGED <<db, kept, calls, raced>>
    BY <1>0 DEF storeVars
  <2> QED
    BY <2>1 DEF WritesInv, WritesStay, CopyIsRow
<1> SUFFICES ASSUME NEW c \in StoreCallers,
                    \/ StartCall(c) \/ StartCreate(c) \/ StartTitle(c) \/ CreateTask(c)
                    \/ UpdateRow(c) \/ ReadRow(c) \/ PutRow(c) \/ DeleteTask(c) \/ DeleteMessages(c)
                    \/ CreateMessage(c) \/ CreateFile(c)
                    \/ ShowCall(c) \/ ShowTitle(c) \/ LoadAllTasks(c) \/ SetList(c) \/ Navigate(c)
                    \/ ClearBegins(c) \/ ClearTask(c) \/ Reload(c)
             PROVE  WritesInv'
  BY <1>0 DEF StoreNext
<1> DEFINE r == calls[c]
           D == db[r.store].tasks
           K == kept[r.store]
<1>t. /\ r \in StoredCall /\ CallShape(r) /\ r.store \in Stores /\ r.task \in StoreTasks
      /\ r.stamp \in 0 .. MaxCalls /\ D \in Tables /\ K \in Tables
  BY CallTypes
<1>w. r.task \notin raced => Agree(r.task, D, K)
  BY <1>t DEF WritesInv, WritesStay, Agree
<1>1. CASE StartCall(c) \/ StartCreate(c) \/ StartTitle(c) \/ Navigate(c)
  <2>1. UNCHANGED <<db, kept, raced>> /\ \E k, s, t : CallIs(c, NewCall(k, s, t))
    BY <1>1, StartCallDoes, StartCreateDoes, StartTitleDoes, NavigateDoes
  <2>2. PICK k, s, t : CallIs(c, NewCall(k, s, t))
    BY <2>1
  <2>3. NewCall(k, s, t).pc # "put"
    BY NewCallHas
  <2> QED
    BY <2>1, <2>2, <2>3, TasksAlone
<1>2. CASE ShowCall(c) \/ ShowTitle(c) \/ SetList(c)
  <2>1. UNCHANGED <<db, kept, raced>> /\ CallIs(c, NoCall)
    BY <1>2, ShowCallDoes, ShowTitleDoes, SetListDoes
  <2> QED
    BY <2>1, NoCallHas, TasksAlone
<1>3. CASE CreateMessage(c) \/ CreateFile(c)
  <2>1. PICK kind \in {"message", "file"} : CreateRow(c, kind)
    BY <1>3 DEF CreateMessage, CreateFile
  <2>2. CallIs(c, NoCall) /\ UNCHANGED kept /\ raced \subseteq raced' /\ \E R : DbIs(r.store, D, R)
    BY <2>1, CreateRowDoes
  <2>3. \A s \in Stores : db'[s].tasks = db[s].tasks
    BY <1>t, <2>2, RowsOnly
  <2> QED
    BY <2>2, <2>3, NoCallHas, TasksAlone
<1>4. CASE DeleteMessages(c)
  <2> DEFINE p == IF r.kind = "clear" THEN "each" ELSE "shown"
  <2>1. CallIs(c, AtPoint(r, p)) /\ UNCHANGED <<kept, raced>> /\ \E R : DbIs(r.store, D, R)
    BY <1>4, DeleteMessagesDoes
  <2>2. \A s \in Stores : db'[s].tasks = db[s].tasks
    BY <1>t, <2>1, RowsOnly
  <2>3. AtPoint(r, p).pc # "put"
    BY <1>t, Moved DEF Points
  <2> HIDE DEF r, D, p
  <2> QED
    BY <2>1, <2>2, <2>3, TasksAlone
<1>5. CASE LoadAllTasks(c) \/ ClearBegins(c)
  <2>1. UNCHANGED <<db, kept, raced>> /\ \E m : CallIs(c, m) /\ m.pc # "put"
    <3>1. CASE LoadAllTasks(c)
      <4> DEFINE m == AtPointWith(r, "set", D)
      <4>1. UNCHANGED <<db, kept, raced>> /\ CallIs(c, m)
        BY <3>1, LoadAllDoes
      <4>2. r \in StoredCall /\ D \in Tables /\ "set" \in Points
        BY <1>t, PointsAre
      <4> HIDE DEF r, D
      <4>3. m.pc = "set"
        BY <4>2, MovedWith
      <4> QED
        BY <4>1, <4>3
    <3>2. CASE ClearBegins(c)
      <4> DEFINE S == DOMAIN D
                 m == AtPointWith(r, "each", S)
      <4>1. UNCHANGED <<db, kept, raced>> /\ CallIs(c, m)
        BY <3>2, ClearBeginsDoes
      <4>2. r \in StoredCall /\ S \in SUBSET StoreTasks /\ "each" \in Points
        BY <1>t, PointsAre, TableOf
      <4> HIDE DEF r, S
      <4>3. m.pc = "each"
        BY <4>2, MovedWith
      <4> QED
        BY <4>1, <4>3
    <3> QED
      BY <1>5, <3>1, <3>2
  <2> QED
    BY <2>1, TasksAlone
<1>6. CASE ClearTask(c)
  <2>1. PICK t \in r.copy : /\ DbIs(r.store, D, db[r.store].rows \ {<<"message", t>>})
                            /\ CallIs(c, [r EXCEPT !.pc = "first", !.task = t, !.copy = @ \ {t}])
    BY <1>6, ClearTaskDoes
  <2>2. UNCHANGED <<kept, raced>>
    BY <1>6, ClearTaskDoes
  <2>3. \A s \in Stores : db'[s].tasks = db[s].tasks
    BY <1>t, <2>1, RowsOnly
  <2> DEFINE m == [r EXCEPT !.pc = "first", !.task = t, !.copy = r.copy \ {t}]
  <2>4. m.pc # "put"
    BY <1>t DEF StoredCall
  <2> HIDE DEF r, D
  <2>5. CallIs(c, m)
    BY <2>1
  <2> HIDE DEF m
  <2> QED
    BY <2>2, <2>3, <2>4, <2>5, TasksAlone
<1>7. CASE ReadRow(c)
  <2>1. UNCHANGED <<db, kept, raced>> /\ r.store = "idb"
    BY <1>7, ReadRowDoes
  <2>2. CASE r.task \in DOMAIN D
    <3> DEFINE row == D[r.task]
               m == AtPointWith(r, "put", row)
    <3>1. CallIs(c, m)
      BY <1>7, <2>2, ReadRowDoes
    <3>2. r \in StoredCall /\ "put" \in Points /\ row \in RowType
      BY <1>t, <2>2, TableOf, PointsAre
    <3>3. D = db["idb"].tasks
      BY <2>1
    <3> HIDE DEF r, D, row
    <3>4. m.task = r.task /\ m.copy = row
      BY <3>2, MovedWith
    <3>5. m.task \in DOMAIN D /\ m.copy = D[m.task]
      BY <2>2, <3>4 DEF row
    <3> HIDE DEF m
    <3> QED
      BY <2>1, <3>1, <3>3, <3>5, TasksAlone
  <2>3. CASE r.task \notin DOMAIN D
    <3>1. CallIs(c, AtPoint(r, "shown"))
      BY <1>7, <2>3, ReadRowDoes
    <3>2. AtPoint(r, "shown").pc # "put"
      BY <1>t, Moved DEF Points
    <3> QED
      BY <2>1, <3>1, <3>2, TasksAlone
  <2> QED
    BY <2>2, <2>3
<1>8. CASE CreateTask(c)
  <2> DEFINE m == [r EXCEPT !.kind = "load"]
             s == r.store
             t == r.task
             T1 == Put(D, t, NewRow)
             K1 == Put(K, t, NewRow)
  <2>1. /\ DbIs(s, T1, db[s].rows) /\ KeptIs(s, K1) /\ CallIs(c, m) /\ Races(c, t) /\ r.kind = "create"
    BY <1>8, CreateTaskDoes
  <2>2. m.pc # "put"
    BY <1>t, <2>1 DEF StoredCall, CallShape
  <2>3. s \in Stores /\ t \in StoreTasks /\ D \in Tables /\ K \in Tables /\ calls[c].store = s
    BY <1>t
  <2> HIDE DEF r, D, K, m, s, t
  <2>4. DOMAIN T1 = DOMAIN D \cup {t} /\ T1[t] = NewRow /\ \A u \in DOMAIN D \ {t} : T1[u] = D[u]
    BY <2>3, PutNewIs
  <2>5. DOMAIN K1 = DOMAIN K \cup {t} /\ K1[t] = NewRow /\ \A u \in DOMAIN K \ {t} : K1[u] = K[u]
    BY <2>3, PutNewIs
  <2>6. Agree(t, T1, K1)
    BY <2>4, <2>5 DEF Agree
  <2>7. raced \subseteq raced'
    BY <2>1 DEF Races
  <2> HIDE DEF T1, K1
  <2>8. D = db[s].tasks /\ K = kept[s]
    BY DEF D, K, s
  <2>9. db'[s].tasks = T1 /\ kept'[s] = K1 /\ \A u \in Stores : u # s => db'[u] = db[u] /\ kept'[u] = kept[u]
    BY <2>1 DEF DbIs, KeptIs
  <2>10. \A u \in StoreTasks : u # t => (u \in DOMAIN T1 <=> u \in DOMAIN db[s].tasks) /\ (u \in DOMAIN T1 => T1[u] = db[s].tasks[u])
    BY <2>4, <2>8
  <2>11. \A u \in StoreTasks : u # t => (u \in DOMAIN K1 <=> u \in DOMAIN kept[s]) /\ (u \in DOMAIN K1 => K1[u] = kept[s][u])
    BY <2>5, <2>8
  <2> QED
    BY <2>1, <2>2, <2>3, <2>6, <2>7, <2>9, <2>10, <2>11, TaskWritten
<1>9. CASE UpdateRow(c)
  <2> DEFINE m == AtPoint(r, "shown")
             s == r.store
             t == r.task
             T1 == Written(D, r)
             K1 == Written(K, r)
  <2>1. /\ DbIs(s, T1, db[s].rows) /\ KeptIs(s, K1) /\ CallIs(c, m) /\ UNCHANGED raced /\ s = "sqlite"
    BY <1>9, UpdateRowDoes
  <2>2. m.pc # "put"
    BY <1>t, Moved DEF Points
  <2>3. /\ s \in Stores /\ t \in StoreTasks /\ r.task \in StoreTasks /\ r.stamp \in 0 .. MaxCalls
        /\ D \in Tables /\ K \in Tables /\ calls[c].store = s
    BY <1>t
  <2>4. t = r.task /\ (t \notin raced => Agree(t, D, K)) /\ D = db[s].tasks /\ K = kept[s]
    BY <1>w
  <2> HIDE DEF r, D, K, m, s, t
  <2>5. /\ DOMAIN T1 = DOMAIN D /\ \A u \in DOMAIN D : u # t => T1[u] = D[u]
        /\ t \in DOMAIN D => T1[t] = [D[t] EXCEPT ![Field(r.kind)] = r.stamp]
    BY <2>3, <2>4, WrittenIs
  <2>6. /\ DOMAIN K1 = DOMAIN K /\ \A u \in DOMAIN K : u # t => K1[u] = K[u]
        /\ t \in DOMAIN K => K1[t] = [K[t] EXCEPT ![Field(r.kind)] = r.stamp]
    BY <2>3, <2>4, WrittenIs
  <2>7. t \notin raced' => Agree(t, T1, K1)
    BY <2>1, <2>4, <2>5, <2>6 DEF Agree
  <2> HIDE DEF T1, K1
  <2>9. db'[s].tasks = T1 /\ kept'[s] = K1 /\ \A u \in Stores : u # s => db'[u] = db[u] /\ kept'[u] = kept[u]
    BY <2>1 DEF DbIs, KeptIs
  <2>10. \A u \in StoreTasks : u # t => (u \in DOMAIN T1 <=> u \in DOMAIN db[s].tasks) /\ (u \in DOMAIN T1 => T1[u] = db[s].tasks[u])
    BY <2>4, <2>5
  <2>11. \A u \in StoreTasks : u # t => (u \in DOMAIN K1 <=> u \in DOMAIN kept[s]) /\ (u \in DOMAIN K1 => K1[u] = kept[s][u])
    BY <2>4, <2>6
  <2> QED
    BY <2>1, <2>2, <2>3, <2>7, <2>9, <2>10, <2>11, TaskWritten
<1>10. CASE PutRow(c)
  <2> DEFINE m == AtPointWith(r, "shown", <<>>)
             s == r.store
             t == r.task
             row == [r.copy EXCEPT ![Field(r.kind)] = r.stamp]
             T1 == Put(D, t, row)
             K1 == Written(K, r)
  <2>1. /\ DbIs(s, T1, db[s].rows) /\ KeptIs(s, K1) /\ CallIs(c, m) /\ Races(c, t) /\ s = "idb"
        /\ r.pc = "put" /\ r.copy \in RowType
    BY <1>10, PutRowDoes
  <2>2. m.pc # "put"
    <3>1. r \in StoredCall /\ "shown" \in Points
      BY <1>t, PointsAre
    <3> HIDE DEF r
    <3> QED
      BY <3>1, MovedWith
  <2>3. /\ s \in Stores /\ t \in StoreTasks /\ r.task \in StoreTasks /\ r.stamp \in 0 .. MaxCalls
        /\ D \in Tables /\ K \in Tables /\ calls[c].store = s
    BY <1>t
  <2>4. t = r.task /\ (t \notin raced => Agree(t, D, K)) /\ D = db[s].tasks /\ K = kept[s]
    BY <1>w
  <2>x. t \notin raced => t \in DOMAIN D /\ r.copy = D[t]
    BY <2>1 DEF WritesInv, CopyIsRow
  <2>y. row \in RowType
    BY <2>1, <2>3, FieldIs DEF RowType
  <2> HIDE DEF r, D, K, m, s, t
  <2>z. row = [r.copy EXCEPT ![Field(r.kind)] = r.stamp]
    OBVIOUS
  <2> HIDE DEF row
  <2>5. DOMAIN T1 = DOMAIN D \cup {t} /\ T1[t] = row /\ \A u \in DOMAIN D \ {t} : T1[u] = D[u]
    <3>1. D \in Tables /\ t \in StoreTasks /\ row \in RowType
      BY <2>3, <2>y
    <3> QED
      BY <3>1, PutIs
  <2>6. /\ DOMAIN K1 = DOMAIN K /\ \A u \in DOMAIN K : u # t => K1[u] = K[u]
        /\ t \in DOMAIN K => K1[t] = [K[t] EXCEPT ![Field(r.kind)] = r.stamp]
    BY <2>3, <2>4, WrittenIs
  <2>8. raced \subseteq raced'
    BY <2>1 DEF Races
  <2>7. t \notin raced' => Agree(t, T1, K1)
    BY <2>4, <2>5, <2>6, <2>8, <2>x, <2>z DEF Agree
  <2> HIDE DEF T1, K1
  <2>9. db'[s].tasks = T1 /\ kept'[s] = K1 /\ \A u \in Stores : u # s => db'[u] = db[u] /\ kept'[u] = kept[u]
    BY <2>1 DEF DbIs, KeptIs
  <2>10. \A u \in StoreTasks : u # t => (u \in DOMAIN T1 <=> u \in DOMAIN db[s].tasks) /\ (u \in DOMAIN T1 => T1[u] = db[s].tasks[u])
    BY <2>4, <2>5
  <2>11. \A u \in StoreTasks : u # t => (u \in DOMAIN K1 <=> u \in DOMAIN kept[s]) /\ (u \in DOMAIN K1 => K1[u] = kept[s][u])
    BY <2>4, <2>6
  <2> QED
    BY <2>1, <2>2, <2>3, <2>7, <2>8, <2>9, <2>10, <2>11, TaskWritten
<1>11. CASE DeleteTask(c)
  <2> DEFINE p == IF r.store = "idb" THEN "rows" ELSE IF r.kind = "clear" THEN "each" ELSE "shown"
             m == AtPoint(r, p)
             s == r.store
             t == r.task
             T1 == Without(D, t)
             K1 == Without(K, t)
             R1 == Cascades(r.store, db[r.store].rows, r.task)
  <2>1. /\ DbIs(s, T1, R1) /\ KeptIs(s, K1) /\ CallIs(c, m) /\ Races(c, t)
    BY <1>11, DeleteTaskDoes
  <2>2. m.pc # "put"
    BY <1>t, Moved DEF Points
  <2>3. s \in Stores /\ t \in StoreTasks /\ D \in Tables /\ K \in Tables /\ calls[c].store = s
    BY <1>t
  <2>4. D = db[s].tasks /\ K = kept[s]
    OBVIOUS
  <2> HIDE DEF r, D, K, m, s, t, p, R1
  <2>5. DOMAIN T1 = DOMAIN D \ {t} /\ \A u \in DOMAIN D \ {t} : T1[u] = D[u]
    BY <2>3, WithoutIs
  <2>6. DOMAIN K1 = DOMAIN K \ {t} /\ \A u \in DOMAIN K \ {t} : K1[u] = K[u]
    BY <2>3, WithoutIs
  <2>7. Agree(t, T1, K1) /\ raced \subseteq raced'
    BY <2>1, <2>5, <2>6 DEF Agree, Races
  <2> HIDE DEF T1, K1
  <2>9. db'[s].tasks = T1 /\ kept'[s] = K1 /\ \A u \in Stores : u # s => db'[u] = db[u] /\ kept'[u] = kept[u]
    BY <2>1 DEF DbIs, KeptIs
  <2>10. \A u \in StoreTasks : u # t => (u \in DOMAIN T1 <=> u \in DOMAIN db[s].tasks) /\ (u \in DOMAIN T1 => T1[u] = db[s].tasks[u])
    BY <2>4, <2>5
  <2>11. \A u \in StoreTasks : u # t => (u \in DOMAIN K1 <=> u \in DOMAIN kept[s]) /\ (u \in DOMAIN K1 => K1[u] = kept[s][u])
    BY <2>4, <2>6
  <2> QED
    BY <2>1, <2>2, <2>3, <2>7, <2>9, <2>10, <2>11, TaskWritten
<1>12. CASE Reload(c)
  <2>1. /\ UNCHANGED <<db, kept>> /\ raced \subseteq raced'
        /\ calls'[c].pc = "go" /\ \A d \in StoreCallers : d # c => calls'[d] = NoCall
    BY <1>12, ReloadDoes
  <2> QED
    BY <2>1, NoCallHas DEF WritesInv, WritesStay, CopyIsRow
<1> QED
  BY <1>1, <1>2, <1>3, <1>4, <1>5, <1>6, <1>7, <1>8, <1>9, <1>10, <1>11, <1>12

-----------------------------------------------------------------------------
(* Rows without a task are about to be deleted, or excused.                *)

Deleting(r, t) == r.pc = "rows" /\ r.task = t
RowHeld(s, x, T, rc) == x[2] \in DOMAIN T \/ (s = "idb" /\ (x[1] = "file" \/ x[2] \in rc))
RowsInv == \A s \in Stores : \A x \in db[s].rows :
    RowHeld(s, x, db[s].tasks, raced) \/ (s = "idb" /\ \E c \in StoreCallers : Deleting(calls[c], x[2]))

\* A step that adds no row and takes no task away.
LEMMA RowsStay ==
    ASSUME RowsInv, NEW c \in StoreCallers, NEW r, CallIs(c, r), calls[c].pc # "rows", raced \subseteq raced',
           \A s \in Stores : db'[s].rows \subseteq db[s].rows /\ DOMAIN db[s].tasks \subseteq DOMAIN db'[s].tasks
    PROVE  RowsInv'
<1> SUFFICES ASSUME NEW s \in Stores, NEW x \in db'[s].rows
             PROVE  RowHeld(s, x, db'[s].tasks, raced') \/ (s = "idb" /\ \E d \in StoreCallers : Deleting(calls'[d], x[2]))
  BY DEF RowsInv, RowHeld
<1>1. x \in db[s].rows
  OBVIOUS
<1>2. CASE RowHeld(s, x, db[s].tasks, raced)
  BY <1>2 DEF RowHeld
<1>3. CASE s = "idb" /\ \E d \in StoreCallers : Deleting(calls[d], x[2])
  BY <1>3 DEF Deleting, CallIs
<1> QED
  BY <1>1, <1>2, <1>3 DEF RowsInv

LEMMA RowsStart == ASSUME StoreInit PROVE RowsInv
BY DEF StoreInit, RowsInv

LEMMA RowsKeep == ASSUME StoreTypes, RowsInv, [StoreNext]_storeVars PROVE RowsInv'
<1>0. CASE UNCHANGED storeVars
  <2>1. UNCHANGED <<db, calls, raced>>
    BY <1>0 DEF storeVars
  <2> QED
    BY <2>1 DEF RowsInv, RowHeld, Deleting
<1> SUFFICES ASSUME NEW c \in StoreCallers,
                    \/ StartCall(c) \/ StartCreate(c) \/ StartTitle(c) \/ CreateTask(c)
                    \/ UpdateRow(c) \/ ReadRow(c) \/ PutRow(c) \/ DeleteTask(c) \/ DeleteMessages(c)
                    \/ CreateMessage(c) \/ CreateFile(c)
                    \/ ShowCall(c) \/ ShowTitle(c) \/ LoadAllTasks(c) \/ SetList(c) \/ Navigate(c)
                    \/ ClearBegins(c) \/ ClearTask(c) \/ Reload(c)
             PROVE  RowsInv'
  BY <1>0 DEF StoreNext
<1> DEFINE r == calls[c]
           D == db[r.store].tasks
<1>t. /\ r \in StoredCall /\ CallShape(r) /\ r.store \in Stores /\ r.task \in StoreTasks
      /\ r.stamp \in 0 .. MaxCalls /\ D \in Tables
  BY CallTypes
<1>1. CASE StartCall(c) \/ StartCreate(c) \/ StartTitle(c) \/ Navigate(c)
  <2>1. UNCHANGED <<db, raced>> /\ r.pc = "idle" /\ \E m : CallIs(c, m)
    BY <1>1, StartCallDoes, StartCreateDoes, StartTitleDoes, NavigateDoes
  <2> QED
    BY <2>1, RowsStay
<1>2. CASE ShowCall(c) \/ ShowTitle(c) \/ SetList(c)
  <2>1. UNCHANGED <<db, raced>> /\ r.pc \in {"shown", "set"} /\ CallIs(c, NoCall)
    BY <1>2, ShowCallDoes, ShowTitleDoes, SetListDoes
  <2> QED
    BY <2>1, RowsStay
<1>3. CASE LoadAllTasks(c) \/ ClearBegins(c) \/ ReadRow(c)
  <2>1. UNCHANGED <<db, raced>> /\ r.pc = "go"
    BY <1>3, LoadAllDoes, ClearBeginsDoes, ReadRowDoes
  <2>2. \E m : CallIs(c, m)
    BY <1>3, LoadAllDoes, ClearBeginsDoes, ReadRowDoes
  <2> QED
    BY <2>1, <2>2, RowsStay
<1>4. CASE ClearTask(c)
  <2>1. PICK t \in r.copy : /\ DbIs(r.store, D, db[r.store].rows \ {<<"message", t>>})
                            /\ CallIs(c, [r EXCEPT !.pc = "first", !.task = t, !.copy = @ \ {t}])
    BY <1>4, ClearTaskDoes
  <2>2. UNCHANGED raced /\ r.pc = "each" /\ \E m : CallIs(c, m)
    BY <1>4, <2>1, ClearTaskDoes
  <2>3. \A s \in Stores : db'[s].rows \subseteq db[s].rows /\ DOMAIN db[s].tasks \subseteq DOMAIN db'[s].tasks
    BY <1>t, <2>1 DEF DbIs
  <2> QED
    BY <2>2, <2>3, RowsStay
<1>5. CASE CreateTask(c) \/ UpdateRow(c) \/ PutRow(c)
  <2>1. \E T, m : DbIs(r.store, T, db[r.store].rows) /\ CallIs(c, m) /\ DOMAIN D \subseteq DOMAIN T
    <3>1. CASE CreateTask(c)
      <4> DEFINE T == Put(D, r.task, NewRow)
      <4>1. DbIs(r.store, T, db[r.store].rows) /\ \E m : CallIs(c, m)
        BY <3>1, CreateTaskDoes
      <4>2. r.task \in StoreTasks /\ D \in Tables
        BY <1>t
      <4> HIDE DEF r, D
      <4>3. DOMAIN D \subseteq DOMAIN T
        BY <4>2, PutNewIs
      <4> QED
        BY <4>1, <4>3
    <3>2. CASE UpdateRow(c)
      <4> DEFINE T == Written(D, r)
      <4>1. DbIs(r.store, T, db[r.store].rows) /\ \E m : CallIs(c, m)
        BY <3>2, UpdateRowDoes
      <4>2. r.task \in StoreTasks /\ r.stamp \in 0 .. MaxCalls /\ D \in Tables
        BY <1>t
      <4> HIDE DEF r, D
      <4>3. DOMAIN D \subseteq DOMAIN T
        BY <4>2, WrittenIs
      <4> QED
        BY <4>1, <4>3
    <3>3. CASE PutRow(c)
      <4> DEFINE row == [r.copy EXCEPT ![Field(r.kind)] = r.stamp]
                 T == Put(D, r.task, row)
      <4>1. DbIs(r.store, T, db[r.store].rows) /\ (\E m : CallIs(c, m)) /\ r.copy \in RowType
        BY <3>3, PutRowDoes
      <4>2. r.task \in StoreTasks /\ D \in Tables /\ row \in RowType
        BY <1>t, <4>1, FieldIs DEF RowType
      <4> DEFINE t == r.task
      <4>4. t \in StoreTasks /\ D \in Tables /\ row \in RowType
        BY <4>2
      <4> HIDE DEF r, D, row, t
      <4>6. DOMAIN Put(D, t, row) = DOMAIN D \cup {t}
        BY <4>4, PutIs
      <4>5. DOMAIN D \subseteq DOMAIN Put(D, t, row)
        BY <4>6
      <4>3. DOMAIN D \subseteq DOMAIN T
        BY <4>5 DEF t
      <4> QED
        BY <4>1, <4>3
    <3> QED
      BY <1>5, <3>1, <3>2, <3>3
  <2>2. r.pc # "rows" /\ raced \subseteq raced'
    <3>1. CASE CreateTask(c)
      BY <1>t, <3>1, CreateTaskDoes DEF CallShape, Races
    <3>2. CASE UpdateRow(c)
      BY <3>2, UpdateRowDoes
    <3>3. CASE PutRow(c)
      BY <3>3, PutRowDoes DEF Races
    <3> QED
      BY <1>5, <3>1, <3>2, <3>3
  <2>3. PICK T, m : DbIs(r.store, T, db[r.store].rows) /\ CallIs(c, m) /\ DOMAIN D \subseteq DOMAIN T
    BY <2>1
  <2>4. \A s \in Stores : db'[s].rows \subseteq db[s].rows /\ DOMAIN db[s].tasks \subseteq DOMAIN db'[s].tasks
    BY <1>t, <2>3 DEF DbIs
  <2> QED
    BY <2>2, <2>3, <2>4, RowsStay
<1>6. CASE DeleteTask(c)
  <2> DEFINE p == IF r.store = "idb" THEN "rows" ELSE IF r.kind = "clear" THEN "each" ELSE "shown"
             m == AtPoint(r, p)
             s == r.store
             t == r.task
             T1 == Without(D, t)
             R1 == Cascades(s, db[s].rows, t)
  <2>1. DbIs(s, T1, R1) /\ CallIs(c, m) /\ Races(c, t) /\ r.pc \in {"go", "first"}
    BY <1>6, DeleteTaskDoes
  <2>2. m.pc = p /\ m.task = t
    BY <1>t, Moved DEF Points
  <2>3. s \in Stores /\ t \in StoreTasks /\ D \in Tables /\ D = db[s].tasks /\ r = calls[c]
        /\ p = IF s = "idb" THEN "rows" ELSE IF r.kind = "clear" THEN "each" ELSE "shown"
    BY <1>t
  <2> HIDE DEF r, D, m, s, t, p
  <2>4. DOMAIN T1 = DOMAIN D \ {t}
    BY <2>3, WithoutIs
  <2>5. raced \subseteq raced'
    BY <2>1 DEF Races
  <2>6. R1 \subseteq db[s].rows /\ (s = "sqlite" => \A x \in R1 : x[2] # t)
    BY DEF Cascades
  <2> HIDE DEF T1, R1
  <2> SUFFICES ASSUME NEW u \in Stores, NEW x \in db'[u].rows
               PROVE  RowHeld(u, x, db'[u].tasks, raced') \/ (u = "idb" /\ \E d \in StoreCallers : Deleting(calls'[d], x[2]))
    BY DEF RowsInv, RowHeld
  <2>7. RowHeld(u, x, db[u].tasks, raced) \/ (u = "idb" /\ \E d \in StoreCallers : Deleting(calls[d], x[2]))
    BY <2>1, <2>6 DEF RowsInv, DbIs
  <2>8. CASE u = "idb" /\ \E d \in StoreCallers : Deleting(calls[d], x[2])
    BY <2>1, <2>3, <2>8 DEF Deleting, CallIs
  <2>9. CASE RowHeld(u, x, db[u].tasks, raced)
    <3>1. CASE u # s
      BY <2>1, <2>5, <2>9, <3>1 DEF RowHeld, DbIs
    <3>2. CASE u = s /\ x[2] # t
      BY <2>1, <2>3, <2>4, <2>5, <2>9, <3>2 DEF RowHeld, DbIs
    <3>3. CASE u = s /\ x[2] = t
      <4>1. s = "idb"
        BY <2>1, <2>3, <2>6, <3>3 DEF DbIs, Stores
      <4>2. Deleting(calls'[c], x[2])
        BY <2>1, <2>2, <2>3, <3>3, <4>1 DEF Deleting, CallIs
      <4> QED
        BY <3>3, <4>1, <4>2
    <3> QED
      BY <3>1, <3>2, <3>3
  <2> QED
    BY <2>7, <2>8, <2>9
<1>7. CASE DeleteMessages(c)
  <2> DEFINE R1 == db[r.store].rows \ {<<"message", r.task>>}
  <2>1. DbIs(r.store, D, R1) /\ UNCHANGED raced /\ r.pc = "rows" /\ r.store = "idb"
    BY <1>7, DeleteMessagesDoes
  <2>2. \A d \in StoreCallers \ {c} : calls'[d] = calls[d]
    BY <1>7, DeleteMessagesDoes DEF CallIs
  <2> SUFFICES ASSUME NEW u \in Stores, NEW x \in db'[u].rows
               PROVE  RowHeld(u, x, db'[u].tasks, raced') \/ (u = "idb" /\ \E d \in StoreCallers : Deleting(calls'[d], x[2]))
    BY DEF RowsInv, RowHeld
  <2>3. db'[u].tasks = db[u].tasks /\ x \in db[u].rows /\ (u = "idb" => x # <<"message", r.task>>)
    BY <1>t, <2>1 DEF DbIs
  <2>4. RowHeld(u, x, db[u].tasks, raced) \/ (u = "idb" /\ \E d \in StoreCallers : Deleting(calls[d], x[2]))
    BY <2>3 DEF RowsInv
  <2>5. CASE RowHeld(u, x, db[u].tasks, raced)
    BY <2>1, <2>3, <2>5 DEF RowHeld
  <2>6. CASE u = "idb" /\ \E d \in StoreCallers : Deleting(calls[d], x[2])
    <3>1. PICK d \in StoreCallers : Deleting(calls[d], x[2])
      BY <2>6
    <3>2. CASE d = c
      <4>1. x \in {"message", "file"} \X StoreTasks
        BY <2>3 DEF StoreTypes, DbType
      <4>2. x[2] = r.task /\ x[1] = "file"
        BY <2>3, <2>6, <3>1, <3>2, <4>1 DEF Deleting
      <4> QED
        BY <2>6, <4>2 DEF RowHeld
    <3>3. CASE d # c
      BY <2>2, <2>6, <3>1, <3>3 DEF Deleting
    <3> QED
      BY <3>2, <3>3
  <2> QED
    BY <2>4, <2>5, <2>6
<1>8. CASE CreateMessage(c) \/ CreateFile(c)
  <2>1. PICK kind \in {"message", "file"} : CreateRow(c, kind)
    BY <1>8 DEF CreateMessage, CreateFile
  <2>2. PICK R : /\ R = db[r.store].rows \/ (Accepts(r.store, r.task) /\ R = db[r.store].rows \cup {<<kind, r.task>>})
                 /\ DbIs(r.store, D, R)
    BY <2>1, CreateRowDoes
  <2>3. r.pc = "go" /\ CallIs(c, NoCall) /\ raced' = IF r.task \in DOMAIN D THEN raced ELSE raced \cup {r.task}
    BY <2>1, CreateRowDoes
  <2> SUFFICES ASSUME NEW u \in Stores, NEW x \in db'[u].rows
               PROVE  RowHeld(u, x, db'[u].tasks, raced') \/ (u = "idb" /\ \E d \in StoreCallers : Deleting(calls'[d], x[2]))
    BY DEF RowsInv, RowHeld
  <2>4. db'[u].tasks = db[u].tasks /\ raced \subseteq raced'
    BY <1>t, <2>2, <2>3 DEF DbIs
  <2>5. CASE x \in db[u].rows
    <3>1. RowHeld(u, x, db[u].tasks, raced) \/ (u = "idb" /\ \E d \in StoreCallers : Deleting(calls[d], x[2]))
      BY <2>5 DEF RowsInv
    <3> QED
      BY <2>3, <2>4, <3>1 DEF RowHeld, Deleting, CallIs
  <2>6. CASE x \notin db[u].rows
    <3>1. u = r.store /\ x = <<kind, r.task>> /\ Accepts(r.store, r.task)
      BY <1>t, <2>2, <2>6 DEF DbIs
    <3>2. x[2] = r.task
      BY <3>1
    <3> QED
      BY <2>3, <2>4, <3>1, <3>2 DEF RowHeld, Accepts
  <2> QED
    BY <2>5, <2>6
<1>9. CASE Reload(c)
  <2>1. /\ UNCHANGED db /\ raced' = raced \cup {calls[d].task : d \in {e \in StoreCallers : calls[e].pc = "rows"}}
    BY <1>9, ReloadDoes
  <2> SUFFICES ASSUME NEW u \in Stores, NEW x \in db[u].rows
               PROVE  RowHeld(u, x, db[u].tasks, raced')
    BY <2>1 DEF RowsInv, RowHeld
  <2>2. CASE RowHeld(u, x, db[u].tasks, raced)
    BY <2>1, <2>2 DEF RowHeld
  <2>3. CASE u = "idb" /\ \E d \in StoreCallers : Deleting(calls[d], x[2])
    BY <2>1, <2>3 DEF RowHeld, Deleting
  <2> QED
    BY <2>2, <2>3 DEF RowsInv
<1> QED
  BY <1>1, <1>2, <1>3, <1>4, <1>5, <1>6, <1>7, <1>8, <1>9

-----------------------------------------------------------------------------
(* The list and the home store, and what the calls under way still do.     *)

TasksStored == db[Home].tasks
Columns == {"title", "favorite"}

\* What a call will still do to the list.
Creates(r, t) == r.kind = "create" /\ r.task = t
Loads(r) == r.kind = "load"
IsShown(r) == (r.kind = "delete" /\ r.pc \in {"rows", "shown"}) \/ (r.kind \in Updates /\ r.pc = "shown")
\* A task may be listed that is not stored, for one of these calls.
Missing(r, t) == \/ Creates(r, t)
                 \/ r.kind = "delete" /\ r.pc \in {"rows", "shown"} /\ r.task = t
                 \/ r.kind = "clear" /\ r.pc # "go"
WillShow(r, t, f) == r.kind \in Updates /\ r.pc = "shown" /\ r.task = t /\ Field(r.kind) = f

\* What a call holds tells the home store's tasks T.
Tells(r, home, T, rc) ==
    /\ r.kind # "none" => r.store = home
    /\ r.pc = "set" => r.copy = T
    /\ IsShown(r) /\ r.task \notin rc /\ r.task \in DOMAIN T => r.kind \in Updates /\ T[r.task][Field(r.kind)] = r.stamp
CallsTell == \A c \in StoreCallers :
    /\ Tells(calls[c], Home, TasksStored, raced)
    /\ IsShown(calls[c]) => \A d \in StoreCallers : ~Creates(calls[d], calls[c].task)

\* The list and the store agree on a task, or a call will make them.
TaskFits(t) ==
    /\ t \in DOMAIN list \ DOMAIN TasksStored => \E c \in StoreCallers : Missing(calls[c], t)
    /\ t \in DOMAIN TasksStored \ DOMAIN list => \E c \in StoreCallers : Loads(calls[c])
    /\ t \in DOMAIN list \cap DOMAIN TasksStored => \A f \in Columns :
          \/ list[t][f] = TasksStored[t][f]
          \/ \E c \in StoreCallers : Loads(calls[c]) \/ WillShow(calls[c], t, f)

HomeOnly == \A s \in Stores : s # Home => DOMAIN kept[s] = {}
ListWell == HomeOnly /\ CallsTell /\ \A t \in StoreTasks \ raced : TaskFits(t)
ListShown == ~astray => ListWell

LEMMA OthersTell ==
    ASSUME CallsTell, NEW c \in StoreCallers, NEW r, CallIs(c, r), env' = env, raced \subseteq raced',
           Tells(r, Home, TasksStored', raced'),
           IsShown(r) => \A d \in StoreCallers \ {c} : ~Creates(calls[d], r.task),
           \A d \in StoreCallers \ {c} :
             /\ IsShown(calls[d]) => ~Creates(r, calls[d].task)
             /\ calls[d].pc = "set" => TasksStored' = TasksStored
             /\ IsShown(calls[d]) /\ calls[d].task \notin raced' /\ calls[d].task \in DOMAIN TasksStored' =>
                   /\ calls[d].task \in DOMAIN TasksStored
                   /\ calls[d].kind \in Updates =>
                         TasksStored'[calls[d].task][Field(calls[d].kind)] = TasksStored[calls[d].task][Field(calls[d].kind)]
    PROVE  CallsTell'
<1>1. Home' = Home
  BY DEF Home
<1>2. ASSUME NEW d \in StoreCallers PROVE Tells(calls'[d], Home, TasksStored', raced')
  <2>1. CASE d = c
    BY <2>1 DEF CallIs
  <2>2. CASE d # c
    <3>1. calls'[d] = calls[d] /\ Tells(calls[d], Home, TasksStored, raced)
      BY <2>2 DEF CallIs, CallsTell
    <3> HIDE DEF TasksStored
    <3> QED
      BY <2>2, <3>1 DEF Tells
  <2> QED
    BY <2>1, <2>2
<1>3. ASSUME NEW d \in StoreCallers, IsShown(calls'[d]), NEW e \in StoreCallers
      PROVE  ~Creates(calls'[e], calls'[d].task)
  <2>1. CASE d = c
    BY <1>3, <2>1 DEF CallIs, IsShown, Creates, Updates
  <2>2. CASE d # c
    BY <1>3, <2>2 DEF CallIs, CallsTell
  <2> QED
    BY <2>1, <2>2
<1> QED
  BY <1>1, <1>2, <1>3 DEF CallsTell

LEMMA MissingStays ==
    ASSUME NEW c \in StoreCallers, NEW r, CallIs(c, r), NEW t, Missing(calls[c], t) => Missing(r, t),
           \E d \in StoreCallers : Missing(calls[d], t)
    PROVE  \E d \in StoreCallers : Missing(calls'[d], t)
BY DEF CallIs

LEMMA LoadsStay ==
    ASSUME NEW c \in StoreCallers, NEW r, CallIs(c, r), Loads(calls[c]) => Loads(r), \E d \in StoreCallers : Loads(calls[d])
    PROVE  \E d \in StoreCallers : Loads(calls'[d])
BY DEF CallIs

LEMMA ShowsStay ==
    ASSUME NEW c \in StoreCallers, NEW r, CallIs(c, r), NEW t, NEW f, Loads(calls[c]) => Loads(r),
           WillShow(calls[c], t, f) => WillShow(r, t, f),
           \E d \in StoreCallers : Loads(calls[d]) \/ WillShow(calls[d], t, f)
    PROVE  \E d \in StoreCallers : Loads(calls'[d]) \/ WillShow(calls'[d], t, f)
BY DEF CallIs

\* A step that changes neither the tasks nor the list.
LEMMA ListAlone ==
    ASSUME ListWell, NEW c \in StoreCallers, NEW r, CallIs(c, r), UNCHANGED <<env, list, kept>>, raced \subseteq raced',
           \A s \in Stores : db'[s].tasks = db[s].tasks,
           Tells(r, Home, TasksStored, raced'), r.kind # "create",
           IsShown(r) => \A d \in StoreCallers \ {c} : ~Creates(calls[d], r.task),
           \A t : Missing(calls[c], t) => Missing(r, t),
           Loads(calls[c]) => Loads(r),
           \A t : \A f \in Columns : WillShow(calls[c], t, f) => WillShow(r, t, f)
    PROVE  ListWell'
<1>1. Home' = Home /\ TasksStored' = TasksStored
  BY DEF Home, TasksStored, Stores
<1>2. HomeOnly'
  BY <1>1 DEF HomeOnly, ListWell
<1>3. CallsTell'
  BY <1>1, OthersTell DEF ListWell, Creates
<1>4. ASSUME NEW t \in StoreTasks \ raced' PROVE TaskFits(t)'
  <2>1. TaskFits(t)
    BY DEF ListWell
  <2>2. (\E d \in StoreCallers : Missing(calls[d], t)) => \E d \in StoreCallers : Missing(calls'[d], t)
    BY MissingStays
  <2>3. (\E d \in StoreCallers : Loads(calls[d])) => \E d \in StoreCallers : Loads(calls'[d])
    BY LoadsStay
  <2>4. ASSUME NEW f \in Columns
        PROVE  (\E d \in StoreCallers : Loads(calls[d]) \/ WillShow(calls[d], t, f))
               => \E d \in StoreCallers : Loads(calls'[d]) \/ WillShow(calls'[d], t, f)
    BY ShowsStay
  <2> QED
    BY <1>1, <2>1, <2>2, <2>3, <2>4 DEF TaskFits
<1> QED
  BY <1>2, <1>3, <1>4 DEF ListWell

LEMMA AstrayStays == ASSUME StoreTypes, NEW c \in StoreCallers, astray,
                            \/ StartCall(c) \/ StartCreate(c) \/ StartTitle(c) \/ CreateTask(c)
                            \/ UpdateRow(c) \/ ReadRow(c) \/ PutRow(c) \/ DeleteTask(c) \/ DeleteMessages(c)
                            \/ CreateMessage(c) \/ CreateFile(c)
                            \/ ShowCall(c) \/ ShowTitle(c) \/ LoadAllTasks(c) \/ SetList(c) \/ Navigate(c)
                            \/ ClearBegins(c) \/ ClearTask(c) \/ Reload(c)
                     PROVE  astray'
<1>1. CASE StartCall(c) \/ StartCreate(c) \/ Navigate(c)
  BY <1>1, StartCallDoes, StartCreateDoes, NavigateDoes
<1>2. CASE StartTitle(c) \/ DeleteMessages(c) \/ LoadAllTasks(c) \/ SetList(c) \/ ClearBegins(c) \/ ClearTask(c) \/ Reload(c)
  BY <1>2, StartTitleDoes, DeleteMessagesDoes, LoadAllDoes, SetListDoes, ClearBeginsDoes, ClearTaskDoes, ReloadDoes
<1>3. CASE CreateMessage(c) \/ CreateFile(c)
  BY <1>3, CreateRowDoes DEF CreateMessage, CreateFile
<1>4. CASE CreateTask(c) \/ UpdateRow(c) \/ ReadRow(c) \/ PutRow(c) \/ DeleteTask(c) \/ ShowCall(c)
  BY <1>4, CreateTaskDoes, UpdateRowDoes, ReadRowDoes, PutRowDoes, DeleteTaskDoes, ShowCallDoes DEF Stales
<1>5. CASE ShowTitle(c)
  BY <1>5, ShowTitleDoes
<1> QED
  BY <1>1, <1>2, <1>3, <1>4, <1>5

\* A call that begins has nothing to do to the list yet.
LEMMA NewTells ==
    ASSUME NEW k, NEW t, NEW rc
    PROVE  /\ Tells(NewCall(k, Home, t), Home, TasksStored, rc) /\ ~IsShown(NewCall(k, Home, t))
           /\ NewCall(k, Home, t).kind = k /\ NewCall(k, Home, t).task = t
BY NewCallHas DEF Tells, IsShown

LEMMA NoTells ==
    ASSUME NEW rc, NEW T
    PROVE  /\ Tells(NoCall, Home, T, rc) /\ ~IsShown(NoCall) /\ NoCall.kind # "create" /\ ~Loads(NoCall)
           /\ \A t : ~Missing(NoCall, t)
BY NoCallHas DEF Tells, IsShown, Missing, Creates, Loads, Updates

LEMMA IdleOwes ==
    ASSUME StoreTypes, NEW c \in StoreCallers, calls[c].pc = "idle"
    PROVE  /\ ~IsShown(calls[c]) /\ ~Loads(calls[c]) /\ \A t : ~Missing(calls[c], t)
           /\ \A t, f : ~WillShow(calls[c], t, f)
<1>1. calls[c].kind = "none"
  BY CallTypes DEF CallShape
<1> QED
  BY <1>1 DEF IsShown, Loads, Missing, Creates, WillShow, Updates

LEMMA StartsKeep ==
    ASSUME StoreTypes, BornInv, ListWell, ~astray', NEW c \in StoreCallers, StartCall(c) \/ StartTitle(c)
    PROVE  ListWell'
<1>1. calls[c].pc = "idle" /\ UNCHANGED <<env, db, list, kept, raced>>
  BY StartCallDoes, StartTitleDoes
<1>2. \E k, t : CallIs(c, NewCall(k, Home, t)) /\ k # "create"
  <2>1. CASE StartCall(c)
    BY <2>1, StartCallDoes
  <2>2. CASE StartTitle(c)
    <3>1. PICK s \in Stores : \E t \in DOMAIN kept[s] : t \in StoreTasks /\ CallIs(c, NewCall("title", s, t))
      BY <2>2, StartTitleDoes
    <3>2. s = Home
      BY <3>1 DEF ListWell, HomeOnly
    <3> QED
      BY <3>1, <3>2
  <2> QED
    BY <2>1, <2>2
<1>3. PICK k, t : CallIs(c, NewCall(k, Home, t)) /\ k # "create"
  BY <1>2
<1> DEFINE m == NewCall(k, Home, t)
<1>4. Tells(m, Home, TasksStored, raced') /\ ~IsShown(m) /\ m.kind # "create"
  BY <1>3, NewTells
<1> HIDE DEF m
<1> QED
  BY <1>1, <1>3, <1>4, IdleOwes, ListAlone DEF m

LEMMA CreateKeeps ==
    ASSUME StoreTypes, BornInv, ListWell, ~astray', NEW c \in StoreCallers, StartCreate(c)
    PROVE  ListWell'
<1>1. calls[c].pc = "idle" /\ UNCHANGED <<env, db, kept, raced>>
  BY StartCreateDoes
<1>2. PICK t \in StoreTasks \ born : CallIs(c, NewCall("create", Home, t)) /\ list' = Put(list, t, NewRow)
  BY StartCreateDoes
<1> DEFINE m == NewCall("create", Home, t)
<1>3. Home' = Home /\ TasksStored' = TasksStored
  BY <1>1 DEF Home, TasksStored
<1>4. Tells(m, Home, TasksStored, raced) /\ ~IsShown(m) /\ m.kind = "create" /\ m.task = t
  BY NewTells
<1>5. HomeOnly'
  BY <1>1, <1>3 DEF HomeOnly, ListWell
<1>6. CallIs(c, m)
  BY <1>2
<1> HIDE DEF m
<1>7. CallsTell'
  <2>1. ASSUME NEW d \in StoreCallers, IsShown(calls[d]) PROVE ~Creates(m, calls[d].task)
    BY <1>2, <1>4, <2>1 DEF BornInv, CallBorn, IsShown, Creates, Updates
  <2> QED
    BY <1>1, <1>3, <1>4, <1>6, <2>1, OthersTell DEF ListWell
<1>8. DOMAIN list' = DOMAIN list \cup {t} /\ \A u \in DOMAIN list \ {t} : list'[u] = list[u]
  BY <1>2, PutNewIs DEF StoreTypes
<1>9. t \notin DOMAIN TasksStored
  BY <1>2 DEF BornInv, TasksStored, Home, Stores
<1>10. ASSUME NEW u \in StoreTasks \ raced' PROVE TaskFits(u)'
  <2>1. TaskFits(u)
    BY <1>1 DEF ListWell
  <2>2. (\E d \in StoreCallers : Missing(calls[d], u)) => \E d \in StoreCallers : Missing(calls'[d], u)
    BY <1>1, <1>6, IdleOwes, MissingStays
  <2>3. (\E d \in StoreCallers : Loads(calls[d])) => \E d \in StoreCallers : Loads(calls'[d])
    BY <1>1, <1>6, IdleOwes, LoadsStay
  <2>4. ASSUME NEW f \in Columns
        PROVE  (\E d \in StoreCallers : Loads(calls[d]) \/ WillShow(calls[d], u, f))
               => \E d \in StoreCallers : Loads(calls'[d]) \/ WillShow(calls'[d], u, f)
    BY <1>1, <1>6, IdleOwes, ShowsStay
  <2>5. CASE u = t
    <3>1. Missing(calls'[c], u)
      BY <1>4, <1>6, <2>5 DEF Missing, Creates, CallIs
    <3> QED
      BY <1>3, <1>9, <2>5, <3>1 DEF TaskFits
  <2>6. CASE u # t
    BY <1>3, <1>8, <2>1, <2>2, <2>3, <2>4, <2>6 DEF TaskFits
  <2> QED
    BY <2>5, <2>6
<1> QED
  BY <1>5, <1>7, <1>10 DEF ListWell

LEMMA NavigateKeeps ==
    ASSUME StoreTypes, ListWell, ~astray', NEW c \in StoreCallers, Navigate(c)
    PROVE  ListWell'
<1>1. calls[c].pc = "idle" /\ UNCHANGED <<env, db, kept, raced>> /\ DOMAIN list' = DOMAIN list
  BY NavigateDoes
<1>2. PICK t \in StoreTasks : CallIs(c, NewCall("load", Home, t))
  BY NavigateDoes
<1> DEFINE m == NewCall("load", Home, t)
<1>3. Home' = Home /\ TasksStored' = TasksStored
  BY <1>1 DEF Home, TasksStored
<1>4. Tells(m, Home, TasksStored, raced) /\ ~IsShown(m) /\ m.kind = "load"
  BY NewTells
<1>5. HomeOnly'
  BY <1>1, <1>3 DEF HomeOnly, ListWell
<1>6. CallIs(c, m)
  BY <1>2
<1> HIDE DEF m
<1>7. CallsTell'
  BY <1>1, <1>3, <1>4, <1>6, OthersTell DEF ListWell, Creates
<1>8. Loads(calls'[c])
  BY <1>4, <1>6 DEF Loads, CallIs
<1>9. ASSUME NEW u \in StoreTasks \ raced' PROVE TaskFits(u)'
  <2>1. TaskFits(u)
    BY <1>1 DEF ListWell
  <2>2. (\E d \in StoreCallers : Missing(calls[d], u)) => \E d \in StoreCallers : Missing(calls'[d], u)
    BY <1>1, <1>6, IdleOwes, MissingStays
  <2> QED
    BY <1>1, <1>3, <1>8, <2>1, <2>2 DEF TaskFits
<1> QED
  BY <1>5, <1>7, <1>9 DEF ListWell

LEMMA RowKeeps ==
    ASSUME StoreTypes, ListWell, NEW c \in StoreCallers, CreateMessage(c) \/ CreateFile(c)
    PROVE  ListWell'
<1>1. PICK kind \in {"message", "file"} : CreateRow(c, kind)
  BY DEF CreateMessage, CreateFile
<1>2. /\ CallIs(c, NoCall) /\ UNCHANGED <<env, list, kept>> /\ raced \subseteq raced' /\ calls[c].kind = kind
      /\ \E R : DbIs(calls[c].store, db[calls[c].store].tasks, R)
  BY <1>1, CreateRowDoes
<1>3. \A s \in Stores : db'[s].tasks = db[s].tasks
  BY <1>2, CallTypes, RowsOnly
<1>4. ~Loads(calls[c]) /\ (\A t : ~Missing(calls[c], t)) /\ \A t, f : ~WillShow(calls[c], t, f)
  BY <1>2 DEF Loads, Missing, Creates, WillShow, Updates
<1>5. Tells(NoCall, Home, TasksStored, raced') /\ ~IsShown(NoCall) /\ NoCall.kind # "create"
  BY NoTells
<1> QED
  BY <1>2, <1>3, <1>4, <1>5, ListAlone

LEMMA MessagesKeep ==
    ASSUME StoreTypes, ListWell, NEW c \in StoreCallers, DeleteMessages(c)
    PROVE  ListWell'
<1> DEFINE r == calls[c]
           p == IF r.kind = "clear" THEN "each" ELSE "shown"
           m == AtPoint(r, p)
<1>1. /\ CallIs(c, m) /\ UNCHANGED <<env, list, kept, raced>> /\ r.kind \in {"delete", "clear"} /\ r.pc = "rows"
      /\ \E R : DbIs(r.store, db[r.store].tasks, R)
  BY DeleteMessagesDoes
<1>2. \A s \in Stores : db'[s].tasks = db[s].tasks
  BY <1>1, CallTypes, RowsOnly
<1>3. m.kind = r.kind /\ m.pc = p /\ m.store = r.store /\ m.task = r.task /\ m.stamp = r.stamp
  BY CallTypes, Moved DEF Points
<1>4. Tells(r, Home, TasksStored, raced) /\ (IsShown(r) => \A d \in StoreCallers : ~Creates(calls[d], r.task))
  BY DEF ListWell, CallsTell
<1>5. p = IF r.kind = "clear" THEN "each" ELSE "shown"
  OBVIOUS
<1>6. CallIs(c, m) /\ r = calls[c]
  BY <1>1
<1> HIDE DEF r, m, p
<1>7. Tells(m, Home, TasksStored, raced')
  BY <1>1, <1>3, <1>4, <1>5 DEF Tells, IsShown, Updates
<1>8. m.kind # "create" /\ (IsShown(m) => \A d \in StoreCallers \ {c} : ~Creates(calls[d], m.task))
  BY <1>1, <1>3, <1>4, <1>5 DEF IsShown, Updates
<1>9. (\A t : Missing(r, t) => Missing(m, t)) /\ ~Loads(r) /\ \A t, f : ~WillShow(r, t, f)
  BY <1>1, <1>3, <1>5 DEF Missing, Creates, Loads, WillShow, Updates
<1> QED
  BY <1>1, <1>2, <1>6, <1>7, <1>8, <1>9, ListAlone

LEMMA LoadAllKeeps ==
    ASSUME StoreTypes, ListWell, NEW c \in StoreCallers, LoadAllTasks(c)
    PROVE  ListWell'
<1> DEFINE r == calls[c]
           T == db[r.store].tasks
           m == AtPointWith(r, "set", T)
<1>1. CallIs(c, m) /\ UNCHANGED <<env, db, list, kept, raced>> /\ r.kind = "load"
  BY LoadAllDoes
<1>2. r \in StoredCall /\ T \in Tables /\ "set" \in Points
  BY CallTypes, PointsAre
<1>3. r.store = Home /\ T = TasksStored
  BY <1>1 DEF ListWell, CallsTell, Tells, TasksStored
<1>4. r = calls[c]
  OBVIOUS
<1> HIDE DEF r, T
<1>5. m.kind = r.kind /\ m.pc = "set" /\ m.store = r.store /\ m.copy = T
  BY <1>2, MovedWith
<1> HIDE DEF m
<1>6. Tells(m, Home, TasksStored, raced') /\ ~IsShown(m) /\ m.kind # "create"
  BY <1>1, <1>3, <1>5 DEF Tells, IsShown, Updates
<1>7. Loads(m) /\ (\A t : ~Missing(r, t)) /\ \A t, f : ~WillShow(r, t, f)
  BY <1>1, <1>5 DEF Loads, Missing, Creates, WillShow, Updates
<1> QED
  BY <1>1, <1>4, <1>6, <1>7, ListAlone

LEMMA ClearAllKeeps ==
    ASSUME StoreTypes, ListWell, NEW c \in StoreCallers, ClearBegins(c) \/ ClearTask(c)
    PROVE  ListWell'
<1> DEFINE r == calls[c]
<1>1. UNCHANGED <<env, list, kept, raced>> /\ r.kind = "clear"
  BY ClearBeginsDoes, ClearTaskDoes
<1>2. \E m : CallIs(c, m) /\ m.kind = "clear" /\ m.pc \in {"each", "first"} /\ m.store = r.store
  <2>1. CASE ClearBegins(c)
    <3> DEFINE S == DOMAIN db[r.store].tasks
               m == AtPointWith(r, "each", S)
    <3>1. CallIs(c, m) /\ r.kind = "clear"
      BY <2>1, ClearBeginsDoes
    <3>2. r \in StoredCall /\ S \in SUBSET StoreTasks /\ "each" \in Points
      BY CallTypes, TableOf, PointsAre
    <3> HIDE DEF r, S
    <3>3. m.kind = r.kind /\ m.pc = "each" /\ m.store = r.store
      BY <3>2, MovedWith
    <3> QED
      BY <3>1, <3>3
  <2>2. CASE ClearTask(c)
    <3>1. PICK t : CallIs(c, [r EXCEPT !.pc = "first", !.task = t, !.copy = @ \ {t}])
      BY <2>2, ClearTaskDoes
    <3> DEFINE m == [r EXCEPT !.pc = "first", !.task = t, !.copy = r.copy \ {t}]
    <3>2. m.kind = r.kind /\ m.pc = "first" /\ m.store = r.store
      BY CallTypes DEF StoredCall
    <3>3. CallIs(c, m)
      BY <3>1
    <3> HIDE DEF m, r
    <3> QED
      BY <1>1, <3>2, <3>3
  <2> QED
    BY <2>1, <2>2
<1>3. PICK m : CallIs(c, m) /\ m.kind = "clear" /\ m.pc \in {"each", "first"} /\ m.store = r.store
  BY <1>2
<1>4. \A s \in Stores : db'[s].tasks = db[s].tasks
  <2>1. CASE ClearBegins(c)
    BY <2>1, ClearBeginsDoes
  <2>2. CASE ClearTask(c)
    <3>1. \E R : DbIs(r.store, db[r.store].tasks, R)
      BY <2>2, ClearTaskDoes
    <3> QED
      BY <3>1, CallTypes, RowsOnly
  <2> QED
    BY <2>1, <2>2
<1>5. r.store = Home
  BY <1>1 DEF ListWell, CallsTell, Tells
<1>6. Tells(m, Home, TasksStored, raced') /\ ~IsShown(m)
  BY <1>3, <1>5 DEF Tells, IsShown, Updates
<1>7. (\A t : Missing(m, t)) /\ ~Loads(r) /\ \A t, f : ~WillShow(r, t, f)
  BY <1>1, <1>3 DEF Missing, Loads, WillShow, Updates
<1> QED
  BY <1>1, <1>3, <1>4, <1>6, <1>7, ListAlone

LEMMA ReadKeeps ==
    ASSUME StoreTypes, ListWell, ~astray', NEW c \in StoreCallers, ReadRow(c)
    PROVE  ListWell'
<1> DEFINE r == calls[c]
           T == db[r.store].tasks
<1>1. UNCHANGED <<env, db, list, kept, raced>> /\ Stales(c) /\ r.kind \in Updates /\ r.pc = "go"
  BY ReadRowDoes
<1>2. r.store = Home /\ T = TasksStored
  BY <1>1 DEF ListWell, CallsTell, Tells, TasksStored, Updates
<1>3. \A d \in StoreCallers \ {c} : ~Creates(calls[d], r.task)
  BY <1>1 DEF Stales, Overlaps, Creates
<1>4. \E m : /\ CallIs(c, m) /\ m.kind = r.kind /\ m.task = r.task /\ m.store = r.store
             /\ m.pc = "put" \/ (m.pc = "shown" /\ r.task \notin DOMAIN TasksStored)
  <2>1. CASE r.task \in DOMAIN T
    <3> DEFINE row == T[r.task]
               m == AtPointWith(r, "put", row)
    <3>1. CallIs(c, m)
      BY <2>1, ReadRowDoes
    <3>2. r \in StoredCall /\ row \in RowType /\ "put" \in Points
      BY <2>1, CallTypes, TableOf, PointsAre
    <3> HIDE DEF r, T, row
    <3>3. m.kind = r.kind /\ m.pc = "put" /\ m.store = r.store /\ m.task = r.task
      BY <3>2, MovedWith
    <3> QED
      BY <3>1, <3>3
  <2>2. CASE r.task \notin DOMAIN T
    <3> DEFINE m == AtPoint(r, "shown")
    <3>1. CallIs(c, m)
      BY <2>2, ReadRowDoes
    <3>2. m.kind = r.kind /\ m.pc = "shown" /\ m.store = r.store /\ m.task = r.task
      BY CallTypes, Moved DEF Points
    <3> HIDE DEF r, m
    <3> QED
      BY <1>2, <2>2, <3>1, <3>2
  <2> QED
    BY <2>1, <2>2
<1>5. PICK m : /\ CallIs(c, m) /\ m.kind = r.kind /\ m.task = r.task /\ m.store = r.store
               /\ m.pc = "put" \/ (m.pc = "shown" /\ r.task \notin DOMAIN TasksStored)
  BY <1>4
<1>6. Tells(m, Home, TasksStored, raced') /\ m.kind # "create"
  BY <1>1, <1>2, <1>5 DEF Tells, IsShown, Updates
<1>7. (\A t : ~Missing(r, t)) /\ ~Loads(r) /\ \A t, f : ~WillShow(r, t, f)
  BY <1>1 DEF Missing, Creates, Loads, WillShow, Updates
<1> QED
  BY <1>1, <1>3, <1>5, <1>6, <1>7, ListAlone

LEMMA HomeStays ==
    ASSUME ListWell, env' = env, NEW K, KeptIs(Home, K)
    PROVE  HomeOnly'
<1>1. Home' = Home
  BY DEF Home
<1> QED
  BY <1>1 DEF ListWell, HomeOnly, KeptIs

\* A write of one column of a task.
LEMMA ColumnKeeps ==
    ASSUME StoreTypes, ListWell, ~astray', NEW c \in StoreCallers, Stales(c), UNCHANGED <<env, list>>, raced \subseteq raced',
           calls[c].kind \in Updates, calls[c].pc \in {"go", "put"}, calls[c].task \in StoreTasks,
           NEW r, CallIs(c, r), r.kind = calls[c].kind, r.pc = "shown", r.task = calls[c].task,
           r.store = Home, r.stamp = calls[c].stamp,
           NEW K, KeptIs(Home, K),
           \A u \in StoreTasks : u # r.task => (u \in DOMAIN TasksStored' <=> u \in DOMAIN TasksStored)
                                               /\ (u \in DOMAIN TasksStored => TasksStored'[u] = TasksStored[u]),
           r.task \notin raced' =>
             /\ r.task \in DOMAIN TasksStored' <=> r.task \in DOMAIN TasksStored
             /\ r.task \in DOMAIN TasksStored =>
                   TasksStored[r.task] \in RowType /\ TasksStored'[r.task] = [TasksStored[r.task] EXCEPT ![Field(r.kind)] = r.stamp]
    PROVE  ListWell'
<1> DEFINE F == Field(r.kind)
           t == r.task
<1>1. /\ \A d \in StoreCallers \ {c} : calls[d].pc # "set" /\ ~Creates(calls[d], t)
      /\ \A d \in StoreCallers \ {c} : ~(calls[d].task = t /\ calls[d].kind \in Updates /\ Field(calls[d].kind) = F)
  BY DEF Stales, Overlaps, Creates, Updates
<1>2. HomeOnly'
  BY HomeStays
<1>3. F \in Fields
  BY FieldIs
<1>4. t \notin raced' /\ t \in DOMAIN TasksStored =>
         TasksStored'[t][F] = r.stamp /\ \A f \in Fields : f # F => TasksStored'[t][f] = TasksStored[t][f]
  BY <1>3 DEF RowType
<1>5. Tells(r, Home, TasksStored', raced')
  BY <1>4 DEF Tells, Updates
<1>6. CallsTell'
  <2>1. ASSUME NEW d \in StoreCallers \ {c}, IsShown(calls[d]), calls[d].task \notin raced', calls[d].task \in DOMAIN TasksStored'
        PROVE  /\ calls[d].task \in DOMAIN TasksStored
               /\ calls[d].kind \in Updates =>
                     TasksStored'[calls[d].task][Field(calls[d].kind)] = TasksStored[calls[d].task][Field(calls[d].kind)]
    <3>1. calls[d].task \in StoreTasks /\ Field(calls[d].kind) \in Fields
      BY CallTypes, FieldIs
    <3>2. CASE calls[d].task # t
      BY <2>1, <3>1, <3>2
    <3>3. CASE calls[d].task = t
      BY <1>1, <1>4, <2>1, <3>1, <3>3
    <3> QED
      BY <3>2, <3>3
  <2>2. r.kind # "create"
    BY DEF Updates
  <2> QED
    BY <1>1, <1>5, <2>1, <2>2, OthersTell DEF ListWell, Creates
<1>7. ~Loads(calls[c]) /\ (\A u : ~Missing(calls[c], u)) /\ \A u, f : ~WillShow(calls[c], u, f)
  BY DEF Loads, Missing, Creates, WillShow, Updates
<1>8. WillShow(calls'[c], t, F)
  BY DEF CallIs, WillShow
<1>9. ASSUME NEW u \in StoreTasks \ raced' PROVE TaskFits(u)'
  <2>1. TaskFits(u)
    BY DEF ListWell
  <2>2. (\E d \in StoreCallers : Missing(calls[d], u)) => \E d \in StoreCallers : Missing(calls'[d], u)
    BY <1>7, MissingStays
  <2>3. (\E d \in StoreCallers : Loads(calls[d])) => \E d \in StoreCallers : Loads(calls'[d])
    BY <1>7, LoadsStay
  <2>4. ASSUME NEW f \in Columns
        PROVE  (\E d \in StoreCallers : Loads(calls[d]) \/ WillShow(calls[d], u, f))
               => \E d \in StoreCallers : Loads(calls'[d]) \/ WillShow(calls'[d], u, f)
    BY <1>7, ShowsStay
  <2>5. u \in DOMAIN TasksStored' <=> u \in DOMAIN TasksStored
    OBVIOUS
  <2>6. ASSUME NEW f \in Columns, u \in DOMAIN TasksStored
        PROVE  TasksStored'[u][f] = TasksStored[u][f] \/ WillShow(calls'[c], u, f)
    BY <1>4, <1>8, <2>6 DEF Columns, Fields
  <2> QED
    BY <2>1, <2>2, <2>3, <2>4, <2>5, <2>6 DEF TaskFits
<1> QED
  BY <1>2, <1>6, <1>9 DEF ListWell

LEMMA UpdateKeeps ==
    ASSUME StoreTypes, ListWell, ~astray', NEW c \in StoreCallers, UpdateRow(c)
    PROVE  ListWell'
<1> DEFINE r == calls[c]
           m == AtPoint(r, "shown")
           D == db[r.store].tasks
           s == r.store
           T1 == Written(D, r)
           K1 == Written(kept[s], r)
<1>1. /\ UNCHANGED <<env, list, raced>> /\ Stales(c) /\ r.kind \in Updates /\ r.pc = "go"
      /\ DbIs(s, T1, db[s].rows) /\ KeptIs(s, K1) /\ CallIs(c, m)
  BY UpdateRowDoes
<1>2. s = Home /\ D = TasksStored
  BY <1>1 DEF ListWell, CallsTell, Tells, TasksStored, Updates
<1>3. r.task \in StoreTasks /\ r.stamp \in 0 .. MaxCalls /\ D \in Tables /\ s \in Stores
  BY CallTypes
<1>4. m.kind = r.kind /\ m.pc = "shown" /\ m.store = s /\ m.task = r.task /\ m.stamp = r.stamp
  BY CallTypes, Moved DEF Points
<1>5. TasksStored' = T1
  <2>1. Home' = Home
    BY <1>1 DEF Home
  <2> HIDE DEF T1
  <2> QED
    BY <1>1, <1>2, <2>1 DEF TasksStored, DbIs
<1>6. r = calls[c]
  OBVIOUS
<1> HIDE DEF r, m, D, s, K1
<1>7. /\ DOMAIN T1 = DOMAIN D /\ \A u \in DOMAIN D : u # r.task => T1[u] = D[u]
      /\ r.task \in DOMAIN D => T1[r.task] = [D[r.task] EXCEPT ![Field(r.kind)] = r.stamp]
  BY <1>3, WrittenIs
<1>8. r.task \in DOMAIN D => D[r.task] \in RowType
  BY <1>3, TableOf
<1> HIDE DEF T1
<1> QED
  BY <1>1, <1>2, <1>3, <1>4, <1>5, <1>6, <1>7, <1>8, ColumnKeeps

LEMMA PutKeeps ==
    ASSUME StoreTypes, WritesInv, ListWell, ~astray', NEW c \in StoreCallers, PutRow(c)
    PROVE  ListWell'
<1> DEFINE r == calls[c]
           m == AtPointWith(r, "shown", <<>>)
           D == db[r.store].tasks
           s == r.store
           row == [r.copy EXCEPT ![Field(r.kind)] = r.stamp]
           T1 == Put(D, r.task, row)
           K1 == Written(kept[s], r)
<1>1. /\ UNCHANGED <<env, list>> /\ Stales(c) /\ Races(c, r.task) /\ r.kind \in Updates /\ r.pc = "put" /\ r.copy \in RowType
      /\ DbIs(s, T1, db[s].rows) /\ KeptIs(s, K1) /\ CallIs(c, m) /\ s = "idb"
  BY PutRowDoes
<1>2. s = Home /\ D = TasksStored
  BY <1>1 DEF ListWell, CallsTell, Tells, TasksStored, Updates
<1>3. r.task \in StoreTasks /\ r.stamp \in 0 .. MaxCalls /\ D \in Tables /\ s \in Stores /\ row \in RowType /\ r \in StoredCall
      /\ "shown" \in Points
  BY <1>1, CallTypes, FieldIs, PointsAre DEF RowType
<1>5. TasksStored' = T1
  <2>1. Home' = Home
    BY <1>1 DEF Home
  <2> HIDE DEF T1
  <2> QED
    BY <1>1, <1>2, <2>1 DEF TasksStored, DbIs
<1>6. r = calls[c] /\ raced \subseteq raced'
  BY <1>1 DEF Races
<1>7. r.task \notin raced => r.task \in DOMAIN D /\ r.copy = D[r.task]
  BY <1>1 DEF WritesInv, CopyIsRow
<1> DEFINE t == r.task
<1>8. row = [r.copy EXCEPT ![Field(r.kind)] = r.stamp] /\ t = r.task /\ t \in StoreTasks
  BY <1>3
<1> HIDE DEF r, D, s, K1, row
<1>4. m.kind = r.kind /\ m.pc = "shown" /\ m.store = r.store /\ m.task = r.task /\ m.stamp = r.stamp
  BY <1>3, MovedWith
<1>s. r.store = s
  BY DEF s
<1> HIDE DEF m, t
<1>9. DOMAIN Put(D, t, row) = DOMAIN D \cup {t} /\ Put(D, t, row)[t] = row /\ \A u \in DOMAIN D \ {t} : Put(D, t, row)[u] = D[u]
  BY <1>3, <1>8, PutIs
<1>10. T1 = Put(D, t, row)
  BY <1>8
<1> HIDE DEF T1
<1>11. /\ calls[c].kind \in Updates /\ calls[c].pc \in {"go", "put"} /\ calls[c].task \in StoreTasks
       /\ m.kind = calls[c].kind /\ m.pc = "shown" /\ m.task = calls[c].task /\ m.store = Home /\ m.stamp = calls[c].stamp
       /\ m.task = t
  BY <1>1, <1>2, <1>3, <1>4, <1>6, <1>8, <1>s
<1>12. \A u \in StoreTasks : u # m.task => /\ u \in DOMAIN TasksStored' <=> u \in DOMAIN TasksStored
                                           /\ u \in DOMAIN TasksStored => TasksStored'[u] = TasksStored[u]
  BY <1>2, <1>5, <1>9, <1>10, <1>11
<1>13. m.task \notin raced' =>
          /\ m.task \in DOMAIN TasksStored' <=> m.task \in DOMAIN TasksStored
          /\ m.task \in DOMAIN TasksStored =>
                TasksStored[m.task] \in RowType /\ TasksStored'[m.task] = [TasksStored[m.task] EXCEPT ![Field(m.kind)] = m.stamp]
  <2> SUFFICES ASSUME m.task \notin raced'
               PROVE  /\ m.task \in DOMAIN TasksStored' /\ m.task \in DOMAIN TasksStored /\ TasksStored[m.task] \in RowType
                      /\ TasksStored'[m.task] = [TasksStored[m.task] EXCEPT ![Field(m.kind)] = m.stamp]
    OBVIOUS
  <2>1. t \in DOMAIN D /\ r.copy = D[t]
    BY <1>6, <1>7, <1>8, <1>11
  <2>2. D[t] \in RowType
    BY <1>1, <2>1
  <2>3. TasksStored'[t] = [D[t] EXCEPT ![Field(r.kind)] = r.stamp] /\ t \in DOMAIN TasksStored'
    BY <1>5, <1>8, <1>9, <1>10, <2>1
  <2> QED
    BY <1>2, <1>4, <1>11, <2>1, <2>2, <2>3
<1>14. KeptIs(Home, K1) /\ CallIs(c, m)
  BY <1>1, <1>2
<1> QED
  BY <1>1, <1>6, <1>11, <1>12, <1>13, <1>14, ColumnKeeps

LEMMA StoreCreateKeeps ==
    ASSUME StoreTypes, ListWell, ~astray', NEW c \in StoreCallers, CreateTask(c)
    PROVE  ListWell'
<1> DEFINE r == calls[c]
           m == [r EXCEPT !.kind = "load"]
           D == db[r.store].tasks
           s == r.store
           t == r.task
           T1 == Put(D, t, NewRow)
           K1 == Put(kept[s], t, NewRow)
<1>1. /\ UNCHANGED <<env, list>> /\ Stales(c) /\ Races(c, t) /\ r.kind = "create" /\ CallIs(c, m)
      /\ DbIs(s, T1, db[s].rows) /\ KeptIs(s, K1)
  BY CreateTaskDoes
<1>2. s = Home /\ D = TasksStored
  BY <1>1 DEF ListWell, CallsTell, Tells, TasksStored
<1>3. /\ r \in StoredCall /\ CallShape(r) /\ t \in StoreTasks /\ D \in Tables /\ s \in Stores
      /\ raced \subseteq raced' /\ Home' = Home
  BY <1>1, CallTypes DEF Races, Home
<1>4. m.kind = "load" /\ m.pc = "go" /\ m.store = s
  BY <1>1, <1>3 DEF StoredCall, CallShape
<1>5. TasksStored' = T1
  <2> HIDE DEF T1
  <2> QED
    BY <1>1, <1>2, <1>3 DEF TasksStored, DbIs
<1>6. r = calls[c] /\ t = r.task
  OBVIOUS
<1>x. HomeOnly'
  <2> HIDE DEF K1
  <2> QED
    BY <1>1, <1>2, HomeStays
<1> HIDE DEF r, m, D, s, t, K1
<1>7. DOMAIN T1 = DOMAIN D \cup {t} /\ \A u \in DOMAIN D \ {t} : T1[u] = D[u]
  BY <1>3, PutNewIs
<1> HIDE DEF T1
<1>8. CallsTell'
  <2>1. Creates(calls[c], t)
    BY <1>1, <1>6 DEF Creates
  <2>2. ASSUME NEW d \in StoreCallers \ {c} PROVE calls[d].pc # "set" /\ (IsShown(calls[d]) => calls[d].task # t)
    BY <1>1, <2>1 DEF Stales, Overlaps, ListWell, CallsTell
  <2>3. Tells(m, Home, TasksStored', raced') /\ ~IsShown(m) /\ \A u : ~Creates(m, u)
    BY <1>2, <1>4 DEF Tells, IsShown, Updates, Creates
  <2>4. ASSUME NEW d \in StoreCallers \ {c}, IsShown(calls[d]), calls[d].task \in DOMAIN TasksStored'
        PROVE  calls[d].task \in DOMAIN TasksStored /\ TasksStored'[calls[d].task] = TasksStored[calls[d].task]
    BY <1>2, <1>5, <1>7, <2>2, <2>4
  <2> QED
    BY <1>1, <1>3, <2>2, <2>3, <2>4, OthersTell DEF ListWell
<1>9. Loads(calls'[c])
  BY <1>1, <1>4 DEF Loads, CallIs
<1>10. ASSUME NEW u \in StoreTasks \ raced' PROVE TaskFits(u)'
  <2>1. TaskFits(u)
    BY <1>3 DEF ListWell
  <2>2. CASE u = t
    BY <1>1, <1>5, <1>7, <1>9, <2>2 DEF TaskFits
  <2>3. CASE u # t
    <3>1. ~Missing(calls[c], u)
      BY <1>1, <1>6, <2>3 DEF Missing, Creates
    <3>2. (\E d \in StoreCallers : Missing(calls[d], u)) => \E d \in StoreCallers : Missing(calls'[d], u)
      BY <1>1, <3>1, MissingStays
    <3> QED
      BY <1>1, <1>2, <1>5, <1>7, <1>9, <2>1, <2>3, <3>2 DEF TaskFits
  <2> QED
    BY <2>2, <2>3
<1> QED
  BY <1>8, <1>10, <1>x DEF ListWell

LEMMA DeleteKeeps ==
    ASSUME StoreTypes, ListWell, ~astray', NEW c \in StoreCallers, DeleteTask(c)
    PROVE  ListWell'
<1> DEFINE r == calls[c]
           p == IF r.store = "idb" THEN "rows" ELSE IF r.kind = "clear" THEN "each" ELSE "shown"
           m == AtPoint(r, p)
           D == db[r.store].tasks
           s == r.store
           t == r.task
           T1 == Without(D, t)
           K1 == Without(kept[s], t)
           R1 == Cascades(s, db[s].rows, t)
<1>1. /\ UNCHANGED <<env, list>> /\ Stales(c) /\ Races(c, t) /\ CallIs(c, m)
      /\ (r.kind = "clear" /\ r.pc = "first") \/ (r.kind = "delete" /\ r.pc = "go")
      /\ DbIs(s, T1, R1) /\ KeptIs(s, K1)
  BY DeleteTaskDoes
<1>2. s = Home /\ D = TasksStored
  BY <1>1 DEF ListWell, CallsTell, Tells, TasksStored
<1>3. /\ t \in StoreTasks /\ D \in Tables /\ s \in Stores /\ raced \subseteq raced' /\ Home' = Home
  BY <1>1, CallTypes DEF Races, Home
<1>4. m.kind = r.kind /\ m.pc = p /\ m.store = s /\ m.task = t
  BY CallTypes, Moved DEF Points
<1>p. p = IF s = "idb" THEN "rows" ELSE IF r.kind = "clear" THEN "each" ELSE "shown"
  OBVIOUS
<1>5. TasksStored' = T1
  <2> HIDE DEF T1, R1
  <2> QED
    BY <1>1, <1>2, <1>3 DEF TasksStored, DbIs
<1>6. r = calls[c] /\ t = r.task
  OBVIOUS
<1>x. HomeOnly'
  <2> HIDE DEF K1
  <2> QED
    BY <1>1, <1>2, HomeStays
<1> HIDE DEF r, m, D, s, t, p, K1, R1
<1>7. DOMAIN T1 = DOMAIN D \ {t} /\ \A u \in DOMAIN D \ {t} : T1[u] = D[u]
  BY <1>3, WithoutIs
<1> HIDE DEF T1
<1>8. CallsTell'
  <2>1. ASSUME NEW d \in StoreCallers \ {c} PROVE calls[d].pc # "set" /\ ~Creates(calls[d], t)
    BY <1>1, <1>6 DEF Stales, Overlaps, Creates
  <2>2. Tells(m, Home, TasksStored', raced') /\ \A u : ~Creates(m, u)
    BY <1>1, <1>2, <1>4, <1>5, <1>7, <1>p DEF Tells, Creates
  <2>3. ASSUME NEW d \in StoreCallers \ {c}, calls[d].task \in DOMAIN TasksStored'
        PROVE  calls[d].task \in DOMAIN TasksStored /\ TasksStored'[calls[d].task] = TasksStored[calls[d].task]
    BY <1>2, <1>5, <1>7, <2>3
  <2> QED
    BY <1>1, <1>3, <1>4, <2>1, <2>2, <2>3, OthersTell DEF ListWell
<1>9. ASSUME NEW u \in StoreTasks \ raced' PROVE TaskFits(u)'
  <2>1. TaskFits(u)
    BY <1>3 DEF ListWell
  <2>2. ~Loads(calls[c]) /\ \A f : ~WillShow(calls[c], u, f)
    BY <1>1, <1>6 DEF Loads, WillShow, Updates
  <2>3. Missing(calls[c], u) => Missing(m, u)
    BY <1>1, <1>4, <1>6, <1>p DEF Missing, Creates
  <2>4. (\E d \in StoreCallers : Missing(calls[d], u)) => \E d \in StoreCallers : Missing(calls'[d], u)
    BY <1>1, <2>3, MissingStays
  <2>5. (\E d \in StoreCallers : Loads(calls[d])) => \E d \in StoreCallers : Loads(calls'[d])
    BY <1>1, <2>2, LoadsStay
  <2>6. ASSUME NEW f \in Columns
        PROVE  (\E d \in StoreCallers : Loads(calls[d]) \/ WillShow(calls[d], u, f))
               => \E d \in StoreCallers : Loads(calls'[d]) \/ WillShow(calls'[d], u, f)
    BY <1>1, <2>2, ShowsStay
  <2>7. Missing(calls'[c], t)
    BY <1>1, <1>4, <1>p DEF Missing, CallIs
  <2> QED
    BY <1>1, <1>2, <1>5, <1>7, <2>1, <2>4, <2>5, <2>6, <2>7 DEF TaskFits
<1> QED
  BY <1>8, <1>9, <1>x DEF ListWell

\* A call is shown: only its task's place in the list changes.
LEMMA ShownKeeps ==
    ASSUME StoreTypes, ListWell, NEW c \in StoreCallers, CallIs(c, NoCall), UNCHANGED <<env, db, kept, raced>>,
           calls[c].kind \in Updates \cup {"delete"}, NEW t, t = calls[c].task,
           \A u \in StoreTasks : u # t => (u \in DOMAIN list' <=> u \in DOMAIN list) /\ (u \in DOMAIN list => list'[u] = list[u]),
           t \notin raced => TaskFits(t)'
    PROVE  ListWell'
<1>1. Home' = Home /\ TasksStored' = TasksStored
  BY DEF Home, TasksStored
<1>2. HomeOnly'
  BY <1>1 DEF HomeOnly, ListWell
<1>3. CallsTell'
  BY <1>1, NoTells, OthersTell DEF ListWell, Creates
<1>4. ASSUME NEW u \in StoreTasks \ raced', u # t PROVE TaskFits(u)'
  <2>1. TaskFits(u)
    BY DEF ListWell
  <2>2. ~Loads(calls[c]) /\ ~Missing(calls[c], u) /\ \A f : ~WillShow(calls[c], u, f)
    BY <1>4 DEF Loads, Missing, Creates, WillShow, Updates
  <2>3. (\E d \in StoreCallers : Missing(calls[d], u)) => \E d \in StoreCallers : Missing(calls'[d], u)
    BY <2>2, MissingStays
  <2>4. (\E d \in StoreCallers : Loads(calls[d])) => \E d \in StoreCallers : Loads(calls'[d])
    BY <2>2, LoadsStay
  <2>5. ASSUME NEW f \in Columns
        PROVE  (\E d \in StoreCallers : Loads(calls[d]) \/ WillShow(calls[d], u, f))
               => \E d \in StoreCallers : Loads(calls'[d]) \/ WillShow(calls'[d], u, f)
    BY <2>2, ShowsStay
  <2> QED
    BY <1>1, <1>4, <2>1, <2>3, <2>4, <2>5 DEF TaskFits
<1> QED
  BY <1>2, <1>3, <1>4 DEF ListWell

\* The column written is shown.
LEMMA WrittenKeeps ==
    ASSUME StoreTypes, ListWell, NEW c \in StoreCallers, CallIs(c, NoCall), UNCHANGED <<env, db, kept, raced>>,
           calls[c].kind \in Updates, calls[c].pc = "shown", list' = Written(list, calls[c])
    PROVE  ListWell'
<1> DEFINE r == calls[c]
           F == Field(r.kind)
           S == list'
<1>1. r.task \in StoreTasks /\ r.stamp \in 0 .. MaxCalls /\ list \in Tables
  BY CallTypes DEF StoreTypes
<1>2. PICK t \in StoreTasks : t = r.task
  BY <1>1
<1>3. r.kind \in Updates /\ r.pc = "shown" /\ S = Written(list, r) /\ r = calls[c]
  OBVIOUS
<1>4. Home' = Home /\ TasksStored' = TasksStored
  BY DEF Home, TasksStored
<1>5. t \notin raced /\ t \in DOMAIN TasksStored => TasksStored[t][F] = r.stamp
  BY <1>2 DEF ListWell, CallsTell, Tells, IsShown
<1> HIDE DEF r
<1>6. /\ DOMAIN S = DOMAIN list /\ \A u \in DOMAIN list : u # t => S[u] = list[u]
      /\ t \in DOMAIN list => S[t] = [list[t] EXCEPT ![F] = r.stamp]
  BY <1>1, <1>2, <1>3, WrittenIs
<1>7. F \in Fields
  BY FieldIs
<1>8. t \in DOMAIN list => S[t][F] = r.stamp /\ \A f \in Fields : f # F => S[t][f] = list[t][f]
  BY <1>1, <1>6, <1>7, TableOf
<1> HIDE DEF F
<1>9. t \notin raced => TaskFits(t)'
  <2> SUFFICES ASSUME t \notin raced PROVE TaskFits(t)'
    OBVIOUS
  <2>1. TaskFits(t)
    BY DEF ListWell
  <2>2. ~Loads(r) /\ ~Missing(r, t) /\ \A f : f # F => ~WillShow(r, t, f)
    BY <1>3 DEF Loads, Missing, Creates, WillShow, Updates, F
  <2>3. (\E d \in StoreCallers : Missing(calls[d], t)) => \E d \in StoreCallers : Missing(calls'[d], t)
    BY <1>3, <2>2, MissingStays
  <2>4. (\E d \in StoreCallers : Loads(calls[d])) => \E d \in StoreCallers : Loads(calls'[d])
    BY <1>3, <2>2, LoadsStay
  <2>5. ASSUME NEW f \in Columns, f # F
        PROVE  (\E d \in StoreCallers : Loads(calls[d]) \/ WillShow(calls[d], t, f))
               => \E d \in StoreCallers : Loads(calls'[d]) \/ WillShow(calls'[d], t, f)
    BY <1>3, <2>2, <2>5, ShowsStay
  <2>6. ASSUME NEW f \in Columns, t \in DOMAIN list \cap DOMAIN TasksStored
        PROVE  S[t][f] = TasksStored[t][f] \/ \E d \in StoreCallers : Loads(calls'[d]) \/ WillShow(calls'[d], t, f)
    <3>1. CASE f = F
      BY <1>5, <1>8, <2>6, <3>1
    <3>2. CASE f # F
      <4>1. S[t][f] = list[t][f]
        BY <1>8, <2>6, <3>2 DEF Columns, Fields
      <4> QED
        BY <2>1, <2>5, <2>6, <3>2, <4>1 DEF TaskFits
    <3> QED
      BY <3>1, <3>2
  <2> QED
    BY <1>4, <1>6, <2>1, <2>3, <2>4, <2>6 DEF TaskFits
<1> QED
  BY <1>2, <1>3, <1>6, <1>9, ShownKeeps

LEMMA ShowKeeps ==
    ASSUME StoreTypes, ListWell, NEW c \in StoreCallers, ShowCall(c)
    PROVE  ListWell'
<1> DEFINE r == calls[c]
<1>1. /\ UNCHANGED <<env, db, kept, raced>> /\ CallIs(c, NoCall)
      /\ r.pc = "shown" /\ r.kind \in {"rename", "favorite", "delete", "status"}
      /\ list' = CASE r.kind = "delete" -> Without(list, r.task)
                   [] r.kind = "status" -> list
                   [] r.kind = "rename" /\ r.task \notin DOMAIN db[r.store].tasks -> list
                   [] OTHER -> Written(list, r)
  BY ShowCallDoes
<1>2. r.kind \in Updates \cup {"delete"} /\ r.store = Home /\ r.task \in StoreTasks /\ list \in Tables
  BY <1>1, CallTypes DEF Updates, ListWell, CallsTell, Tells, StoreTypes
<1>3. PICK t \in StoreTasks : t = r.task
  BY <1>2
<1>4. Home' = Home /\ TasksStored' = TasksStored
  BY <1>1 DEF Home, TasksStored
<1>5. CASE r.kind = "delete"
  <2>1. list' = Without(list, t)
    BY <1>1, <1>3, <1>5
  <2>2. DOMAIN list' = DOMAIN list \ {t} /\ \A u \in DOMAIN list \ {t} : list'[u] = list[u]
    BY <1>2, <2>1, WithoutIs
  <2>3. t \notin raced => t \notin DOMAIN TasksStored
    BY <1>1, <1>3, <1>5 DEF ListWell, CallsTell, Tells, IsShown, Updates
  <2>4. t \notin raced => TaskFits(t)'
    BY <1>4, <2>2, <2>3 DEF TaskFits
  <2> QED
    BY <1>1, <1>2, <1>3, <2>2, <2>4, ShownKeeps
<1>6. CASE r.kind = "status" \/ (r.kind = "rename" /\ r.task \notin DOMAIN db[r.store].tasks)
  <2>1. list' = list
    BY <1>1, <1>6
  <2>2. t \notin DOMAIN TasksStored \/ r.kind = "status"
    BY <1>2, <1>3, <1>6 DEF TasksStored
  <2>3. ~Loads(r) /\ ~Missing(r, t) /\ \A f \in Columns : r.kind = "status" => ~WillShow(r, t, f)
    BY <1>6 DEF Loads, Missing, Creates, WillShow, Updates, Field, Columns
  <2>4. (\E d \in StoreCallers : Missing(calls[d], t)) => \E d \in StoreCallers : Missing(calls'[d], t)
    BY <1>1, <2>3, MissingStays
  <2>5. (\E d \in StoreCallers : Loads(calls[d])) => \E d \in StoreCallers : Loads(calls'[d])
    BY <1>1, <2>3, LoadsStay
  <2>6. ASSUME NEW f \in Columns, r.kind = "status"
        PROVE  (\E d \in StoreCallers : Loads(calls[d]) \/ WillShow(calls[d], t, f))
               => \E d \in StoreCallers : Loads(calls'[d]) \/ WillShow(calls'[d], t, f)
    BY <1>1, <2>3, <2>6, ShowsStay
  <2>7. t \notin raced => TaskFits(t)
    BY DEF ListWell
  <2>8. t \notin raced => TaskFits(t)'
    BY <1>4, <2>1, <2>2, <2>4, <2>5, <2>6, <2>7 DEF TaskFits
  <2> QED
    BY <1>1, <1>2, <1>3, <2>1, <2>8, ShownKeeps
<1>7. CASE r.kind # "delete" /\ ~(r.kind = "status" \/ (r.kind = "rename" /\ r.task \notin DOMAIN db[r.store].tasks))
  <2>1. list' = Written(list, r) /\ r.kind \in Updates
    BY <1>1, <1>2, <1>7
  <2> QED
    BY <1>1, <2>1, WrittenKeeps
<1> QED
  BY <1>5, <1>6, <1>7

LEMMA TitleKeeps ==
    ASSUME StoreTypes, ListWell, ~astray', NEW c \in StoreCallers, ShowTitle(c)
    PROVE  ListWell'
<1>1. /\ UNCHANGED <<env, db, kept, raced>> /\ CallIs(c, NoCall) /\ calls[c].pc = "shown" /\ calls[c].kind = "title"
      /\ list' = Written(list, calls[c])
  BY ShowTitleDoes
<1> QED
  BY <1>1, WrittenKeeps DEF Updates

LEMMA SetKeeps ==
    ASSUME StoreTypes, ListWell, NEW c \in StoreCallers, SetList(c)
    PROVE  ListWell'
<1> DEFINE r == calls[c]
           T == r.copy
<1>1. /\ UNCHANGED <<env, db, kept, raced>> /\ r.pc = "set" /\ r.kind = "load" /\ T \in Tables
      /\ list' = Merged(T) /\ CallIs(c, NoCall)
  BY SetListDoes
<1>2. Home' = Home /\ TasksStored' = TasksStored
  BY <1>1 DEF Home, TasksStored
<1>3. T = TasksStored
  BY <1>1 DEF ListWell, CallsTell, Tells
<1>4. r = calls[c]
  OBVIOUS
<1> HIDE DEF r, T
<1>5. DOMAIN list' = DOMAIN T \cup ({page} \cap DOMAIN list) /\ \A u \in DOMAIN T : list'[u] = T[u]
  BY <1>1, MergedIs DEF StoreTypes
<1>6. HomeOnly'
  BY <1>1, <1>2 DEF HomeOnly, ListWell
<1>7. CallsTell'
  BY <1>1, <1>2, NoTells, OthersTell DEF ListWell, Creates
<1>8. ASSUME NEW u \in StoreTasks \ raced' PROVE TaskFits(u)'
  <2>1. TaskFits(u)
    BY <1>1 DEF ListWell
  <2>2. ~Missing(r, u)
    BY <1>1 DEF Missing, Creates
  <2>3. (\E d \in StoreCallers : Missing(calls[d], u)) => \E d \in StoreCallers : Missing(calls'[d], u)
    BY <1>1, <1>4, <2>2, MissingStays
  <2> QED
    BY <1>2, <1>3, <1>5, <2>1, <2>3 DEF TaskFits
<1> QED
  BY <1>6, <1>7, <1>8 DEF ListWell

LEMMA ReloadKeeps ==
    ASSUME StoreTypes, ListWell, NEW c \in StoreCallers, Reload(c)
    PROVE  ListWell'
<1>1. /\ list' = Empty /\ calls'[c].kind = "load" /\ calls'[c].pc = "go" /\ calls'[c].store = Home
      /\ \A d \in StoreCallers : d # c => calls'[d] = NoCall
      /\ UNCHANGED <<env, db, kept>>
  BY ReloadDoes
<1>2. Home' = Home /\ TasksStored' = TasksStored
  BY <1>1 DEF Home, TasksStored
<1>3. HomeOnly'
  BY <1>1, <1>2 DEF HomeOnly, ListWell
<1>4. ASSUME NEW d \in StoreCallers
      PROVE  Tells(calls'[d], Home, TasksStored, raced') /\ ~IsShown(calls'[d])
  <2>1. CASE d = c
    BY <1>1, <2>1 DEF Tells, IsShown, Updates
  <2>2. CASE d # c
    BY <1>1, <2>2, NoTells
  <2> QED
    BY <2>1, <2>2
<1>5. CallsTell'
  BY <1>2, <1>4 DEF CallsTell
<1>6. ASSUME NEW u \in StoreTasks \ raced' PROVE TaskFits(u)'
  <2>1. Loads(calls'[c])
    BY <1>1 DEF Loads
  <2>2. DOMAIN list' = {}
    BY <1>1, EmptyIs
  <2> QED
    BY <1>2, <2>1, <2>2 DEF TaskFits
<1> QED
  BY <1>3, <1>5, <1>6 DEF ListWell

LEMMA ListStart == ASSUME StoreInit PROVE ListShown
<1>1. /\ raced = {} /\ list = kept[Home] /\ kept = [s \in Stores |-> IF s = Home THEN list ELSE Empty]
      /\ db = [s \in Stores |-> [tasks |-> kept[s], rows |-> {}]] /\ calls = [c \in StoreCallers |-> NoCall]
  BY DEF StoreInit, Home, Stores
<1>2. TasksStored = list
  BY <1>1 DEF TasksStored, Home, Stores
<1>3. HomeOnly
  BY <1>1, EmptyIs DEF HomeOnly
<1>4. ASSUME NEW c \in StoreCallers PROVE calls[c] = NoCall
  BY <1>1
<1>5. CallsTell
  BY <1>4, NoTells DEF CallsTell
<1>6. \A t \in StoreTasks \ raced : TaskFits(t)
  BY <1>2 DEF TaskFits
<1> QED
  BY <1>3, <1>5, <1>6 DEF ListShown, ListWell

LEMMA ListKeep == ASSUME StoreTypes, BornInv, WritesInv, ListShown, [StoreNext]_storeVars PROVE ListShown'
<1>1. CASE UNCHANGED storeVars
  <2>1. UNCHANGED <<env, db, calls, list, kept, raced, astray>>
    BY <1>1 DEF storeVars
  <2>2. Home' = Home /\ TasksStored' = TasksStored
    BY <2>1 DEF Home, TasksStored
  <2> QED
    BY <2>1, <2>2 DEF ListShown, ListWell, HomeOnly, CallsTell, TaskFits
<1>2. CASE StoreNext
  <2> SUFFICES ASSUME ~astray' PROVE ListWell'
    BY DEF ListShown
  <2>1. PICK c \in StoreCallers :
           \/ StartCall(c) \/ StartCreate(c) \/ StartTitle(c) \/ CreateTask(c)
           \/ UpdateRow(c) \/ ReadRow(c) \/ PutRow(c) \/ DeleteTask(c) \/ DeleteMessages(c)
           \/ CreateMessage(c) \/ CreateFile(c)
           \/ ShowCall(c) \/ ShowTitle(c) \/ LoadAllTasks(c) \/ SetList(c) \/ Navigate(c)
           \/ ClearBegins(c) \/ ClearTask(c) \/ Reload(c)
    BY <1>2 DEF StoreNext
  <2>2. ListWell
    BY <2>1, AstrayStays DEF ListShown
  <2>3. CASE StartCall(c) \/ StartCreate(c) \/ StartTitle(c) \/ CreateTask(c)
    BY <2>2, <2>3, StartsKeep, CreateKeeps, StoreCreateKeeps
  <2>4. CASE UpdateRow(c) \/ ReadRow(c) \/ PutRow(c) \/ DeleteTask(c) \/ DeleteMessages(c)
    BY <2>2, <2>4, UpdateKeeps, ReadKeeps, PutKeeps, DeleteKeeps, MessagesKeep
  <2>5. CASE CreateMessage(c) \/ CreateFile(c)
    BY <2>2, <2>5, RowKeeps
  <2>6. CASE ShowCall(c) \/ ShowTitle(c) \/ LoadAllTasks(c) \/ SetList(c)
    BY <2>2, <2>6, ShowKeeps, TitleKeeps, LoadAllKeeps, SetKeeps
  <2>7. CASE Navigate(c) \/ ClearBegins(c) \/ ClearTask(c) \/ Reload(c)
    BY <2>2, <2>7, NavigateKeeps, ClearAllKeeps, ReloadKeeps
  <2> QED
    BY <2>1, <2>3, <2>4, <2>5, <2>6, <2>7
<1> QED
  BY <1>1, <1>2

-----------------------------------------------------------------------------
(* What the properties of the store follow from.                           *)

LEMMA TableIs == ASSUME NEW tab \in Tables PROVE TaskTable(tab)
BY TableOf DEF TaskTable, RowType

LEMMA StoreTypesTell == ASSUME StoreTypes, BornInv PROVE StoreTypeOK
<1>1. ASSUME NEW s \in Stores
      PROVE  /\ TaskTable(db[s].tasks) /\ TaskTable(kept[s])
             /\ db[s].rows \subseteq {"message", "file"} \X StoreTasks
  <2>1. db[s].tasks \in Tables /\ kept[s] \in Tables /\ db[s].rows \in SUBSET ({"message", "file"} \X StoreTasks)
    BY DEF StoreTypes, DbType
  <2> QED
    BY <2>1, TableIs
<1>2. ASSUME NEW c \in StoreCallers
      PROVE  /\ calls[c].kind \in Kinds \cup {"none"} /\ calls[c].store \in Stores
             /\ calls[c].pc \in {"idle", "go", "put", "rows", "shown", "set", "each", "first"}
             /\ calls[c].task \in StoreTasks /\ calls[c].stamp \in 0 .. MaxCalls
  BY CallTypes DEF StoredCall
<1>3. TaskTable(list)
  BY TableIs DEF StoreTypes
<1> QED
  BY <1>1, <1>2, <1>3 DEF StoreTypeOK, StoreTypes, BornInv

LEMMA RowsTell == ASSUME RowsInv PROVE RowsHaveTasks
BY DEF RowsInv, RowsHaveTasks, AllIdle, RowHeld, Deleting

LEMMA ListTells == ASSUME StoreTypes, ListShown PROVE ListTellsStore
<1> SUFFICES ASSUME AllIdle, ~astray, NEW t \in StoreTasks \ raced
             PROVE  /\ t \in DOMAIN list <=> t \in DOMAIN TasksStored
                    /\ t \in DOMAIN list => \A f \in Columns : list[t][f] = TasksStored[t][f]
  BY DEF ListTellsStore, TasksStored, Columns
<1>1. ASSUME NEW c \in StoreCallers
      PROVE  ~Loads(calls[c]) /\ ~Missing(calls[c], t) /\ \A f : ~WillShow(calls[c], t, f)
  BY IdleOwes DEF AllIdle
<1>2. TaskFits(t)
  BY DEF ListShown, ListWell
<1> QED
  BY <1>1, <1>2 DEF TaskFits

\* The shell's task store, of any number of tasks, calls at once and calls:
\* every update of a task's row stays as it was written last (unless
\* IndexedDB's row was written between an update's read and its write); when
\* no call is under way messages and files belong to tasks that exist, and
\* the list shown tells the titles and favorites that are stored (unless it
\* was set from a stale read, another store or another task's title).
THEOREM StoreHolds == StoreSpec => [](StoreTypeOK /\ WritesStay /\ RowsHaveTasks /\ ListTellsStore)
<1> DEFINE Inv == StoreTypes /\ BornInv /\ WritesInv /\ RowsInv /\ ListShown
<1>1. StoreInit => Inv
  BY StoreTypesStart, BornStart, WritesStart, RowsStart, ListStart
<1>2. Inv /\ [StoreNext]_storeVars => Inv'
  <2> SUFFICES ASSUME Inv, [StoreNext]_storeVars PROVE Inv'
    OBVIOUS
  <2>1. StoreTypes'
    BY StoreTypesKeep
  <2>2. BornInv'
    BY BornKeep
  <2>3. WritesInv'
    BY WritesKeep
  <2>4. RowsInv'
    BY RowsKeep
  <2>5. ListShown'
    BY ListKeep
  <2> QED
    BY <2>1, <2>2, <2>3, <2>4, <2>5
<1>3. Inv => StoreTypeOK /\ WritesStay /\ RowsHaveTasks /\ ListTellsStore
  BY StoreTypesTell, RowsTell, ListTells DEF WritesInv
<1> HIDE DEF Inv
<1> QED
  BY <1>1, <1>2, <1>3, PTL DEF StoreSpec
=============================================================================
