------------------------------ MODULE MCShell ------------------------------
(***************************************************************************)
(* The smaller components of the shell, of its API and of the TypeScript   *)
(* SDK in one run: each has a scene of its own, in which the others stay   *)
(* at one of their initial states.                                         *)
(***************************************************************************)
EXTENDS NodeProviders, NodePreview, PreviewPage, NodeAgent, NodePlugins, NodeBoot,
        ShellStore, ShellSettings, ShellModels, McpConfig, ShellComposer, ShellArtifacts,
        ShellTranscript, ShellPanels, ShellFiles, ShellSkills,
        SdkEngine, SdkHooks, SdkTools, SdkSessions, SdkSkills, SdkCache, SdkWire, TLC

VARIABLE scene
apiVars == <<providerVars, previewVars, pageVars, nodeAgentVars, pluginVars, bootVars>>
shellVars == <<storeVars, settingsVars, modelVars, mcpVars, composerVars, artifactVars,
               transcriptVars, panelVars, fileVars, skillsPageVars>>
sdkVars == <<engineVars, hookVars, toolVars, sdkSessionVars, skillVars, cacheVars, wireVars>>
allVars == <<scene, apiVars, shellVars, sdkVars>>

In(s) == scene = s
First(S) == CHOOSE x \in S : TRUE

-----------------------------------------------------------------------------
(* Initial states: where a component has several, one stands for them in   *)
(* the other scenes.                                                       *)

PluginScenes == {"plugins", "registry", "nodepool"}
BootScenes == {"install", "boot"}

Scenes == {"providers", "previews", "page", "agent"} \cup PluginScenes \cup BootScenes \cup {
           "store", "settings", "models", "mcp", "composer", "artifacts",
           "transcript", "panels", "files", "skillpage",
           "engine", "hooks", "tools", "sessions", "skills", "cache", "wire"}

ProviderStart ==
    /\ ProviderInit /\ managerCfg[1] = "native" /\ installed \subseteq {"codex"}
    /\ In("providers") \/ (category = "agent" /\ installed = {})

PageStart == PageInit /\ pageTask = 1

PluginsStart ==
    /\ PluginInit
    /\ In("plugins") \/ pluginFiles = [t \in PluginTypes |-> "absent"]

\* The skills' installation without a configuration file and, in a scene of
\* its own, the start with one.
BootStarts ==
    /\ BootInit
    /\ IF In("boot") THEN /\ readable /\ confFile["agent"] = "default"
                           /\ environ["sandbox"] = "none" /\ environ["agent"] \in {"codeany", "a"}
                      ELSE /\ ~readable /\ {environ, confFile} = {[k \in BootKinds |-> "none"]}

StoreStart ==
    /\ StoreInit /\ born = {1} /\ page = 1
    /\ In("store") \/ env = "tauri"

SettingsStart == SettingsInit /\ (In("settings") \/ told = 0)

McpStart ==
    /\ McpInit /\ foreign \cup (inFile.runs \ inFile.kept) \subseteq {First(Servers)}
    /\ In("mcp") \/ (form = "absent" /\ foreign = {})

ArtifactsStart ==
    /\ ArtifactsInit
    /\ In("artifacts") \/ (viewer = "pdf" /\ source = [f \in Files |-> "local"])

FilesStart == FilesInit /\ (In("files") \/ fileRows = {})

SkillsPageStart == SkillsPageInit /\ There = {} /\ (In("skillpage") \/ python)

HooksStart ==
    /\ HooksInit
    /\ known[First(HookCalls)] \/ (hooks = <<>> /\ known = [c \in HookCalls |-> FALSE])
    /\ In("hooks") \/ ~known[First(HookCalls)]

ToolsStart == ToolsInit /\ (In("tools") \/ branches = {})

MCInit == /\ scene \in Scenes
          /\ ProviderStart /\ PreviewInit /\ PageStart /\ NodeAgentInit
          /\ PluginsStart /\ BootStarts
          /\ StoreStart /\ SettingsStart /\ ModelsInit /\ McpStart /\ ComposerInit /\ ArtifactsStart
          /\ TranscriptInit /\ PanelInit /\ FilesStart /\ SkillsPageStart
          /\ EngineInit /\ HooksStart /\ ToolsStart /\ SdkSessionsInit /\ SkillsInit /\ CacheInit /\ WireInit

-----------------------------------------------------------------------------
(* Steps.                                                                  *)

Api(s) == /\ In(s) /\ UNCHANGED <<scene, shellVars, sdkVars>>
          /\ s # "providers" => UNCHANGED providerVars
          /\ s # "previews" => UNCHANGED previewVars
          /\ s # "page" => UNCHANGED pageVars
          /\ s # "agent" => UNCHANGED nodeAgentVars
          /\ s \notin PluginScenes => UNCHANGED pluginVars
          /\ s \notin BootScenes => UNCHANGED bootVars

Shell(s) == /\ In(s) /\ UNCHANGED <<scene, apiVars, sdkVars>>
            /\ s # "store" => UNCHANGED storeVars
            /\ s # "settings" => UNCHANGED settingsVars
            /\ s # "models" => UNCHANGED modelVars
            /\ s # "mcp" => UNCHANGED mcpVars
            /\ s # "composer" => UNCHANGED composerVars
            /\ s # "artifacts" => UNCHANGED artifactVars
            /\ s # "transcript" => UNCHANGED transcriptVars
            /\ s # "panels" => UNCHANGED panelVars
            /\ s # "files" => UNCHANGED fileVars
            /\ s # "skillpage" => UNCHANGED skillsPageVars

Sdk(s) == /\ In(s) /\ UNCHANGED <<scene, apiVars, shellVars>>
          /\ s # "engine" => UNCHANGED engineVars
          /\ s # "hooks" => UNCHANGED hookVars
          /\ s # "tools" => UNCHANGED toolVars
          /\ s # "sessions" => UNCHANGED sdkSessionVars
          /\ s # "skills" => UNCHANGED skillVars
          /\ s # "cache" => UNCHANGED cacheVars
          /\ s # "wire" => UNCHANGED wireVars

\* Who calls first, and what is shown first, is alike.
FirstCaller == (\A c \in Callers : who[c].pc = "idle") => who'[First(Callers)].pc = "idle"
FirstStoreCaller == AllIdle => calls'[First(StoreCallers)] = NoCall
FirstArtifact == effect' = 1 => chosen' # 2

\* Previews are begun in the order of their tasks, one's health is asked for at a
\* time, and the third start comes as far as npm and has no timer.
FirstTasks == /\ \A i \in DOMAIN previews' : previews'[i].task <= 1 + Cardinality({previews'[j].task : j \in 1 .. i - 1})
              /\ \A i, j \in DOMAIN previews' : previews'[i].checks > 0 /\ previews'[j].checks > 0 => i = j
              /\ \A i \in DOMAIN previews' : i > 2 => previews'[i].phase # "wait" /\ ~previews'[i].idle

\* Directories and files are alike, the first click loads its file, and after
\* the second the files are not read a third time.
FirstPanel == /\ workingDir = 0 => workingDir' \in {0, First(Dirs)}
              /\ fileClicks' = 1 => {l.file : l \in fileLoads'} \subseteq {First(TreeFiles)}
              /\ fileClicks' = MaxFileClicks => reload' < MaxReloads

\* Of two streams the first plans, and the second does not.
Streaming == \A s \in Streams : IF s = 1 THEN st'[2].kind # "none" => st'[1].kind = "plan"
                                          ELSE st'[s].kind # "plan"

\* Nothing is called a third time once the home store was passed by.
AtHome == started < started' /\ started' = 3 => ~astray

\* The files given are of different kinds, and the first is an image.
KindsDiffer == /\ \A i, j \in DOMAIN kind' : i # j => kind'[i] # kind'[j]
               /\ kind' # <<>> => kind'[1] # "file"

\* Of two imports, or two self checks, the first is of the first visit.
NotTwice == visit' > 1 => \A i, j \in DOMAIN ops' : i # j => ops'[i].visit = 1 \/ ops'[i].kind # ops'[j].kind

\* There is a second query only where no server is connected, and it asks the
\* model once.
SecondQuery == \A q \in Queries \ {1} : /\ eng'[q].turns # 0
                                        /\ links' # 0 \/ open' # 0 => eng'[q].pc = "new"

\* Of the calls side by side one is the first to leave the permission check,
\* and the other keeps its input and does not fail.
SideBySide == LET c == First(HookCalls) IN \A d \in HookCalls \ {c} :
    /\ hookCalls'[c].at = "permission" => hookCalls'[d].at = "permission"
    /\ hookCalls'[d].input = 1 /\ outcome'[d] # "failed"

\* The tools called are of one kind: entries, mail or worktrees.
OneToolKind == /\ noted' # {} => mail' = <<>> /\ trees' = {}
               /\ mail' # <<>> => trees' = {}

\* Skills are installed while nothing else happens; a boot is not cut short,
\* and the syncs ask for one agent.
Installing == BootNext /\ signals' = 0 /\ syncCount' = 0
Booting == BootNext /\ tornSkills' = {} /\ clock' = 1 /\ (bootPhase' = "down" => bootPhase = "down")
                    /\ \A s \in Syncs : syncing'[s].want["agent"] # "default"

MCNext == \/ Api("providers") /\ ProviderNext /\ FirstCaller
          \/ Api("previews") /\ PreviewNext /\ FirstTasks
          \/ Api("page") /\ PageNext
          \/ Api("agent") /\ NodeAgentNext /\ Streaming
          \/ Api("plugins") /\ LoaderNext /\ UNCHANGED <<registryVars, nodePoolVars>>
          \/ Api("registry") /\ RegistryNext /\ UNCHANGED <<loaderVars, nodePoolVars>>
          \/ Api("nodepool") /\ NodePoolNext /\ UNCHANGED <<plugins, loaderVars, registryVars>>
          \/ Api("install") /\ Installing
          \/ Api("boot") /\ Booting
          \/ Shell("store") /\ StoreNext /\ FirstStoreCaller /\ AtHome
          \/ Shell("settings") /\ SettingsNext
          \/ Shell("models") /\ ModelsNext
          \/ Shell("mcp") /\ McpNext
          \/ Shell("composer") /\ ComposerNext /\ KindsDiffer
          \/ Shell("artifacts") /\ ArtifactsNext /\ FirstArtifact
          \/ Shell("transcript") /\ TranscriptNext
          \/ Shell("panels") /\ PanelNext /\ FirstPanel
          \/ Shell("files") /\ FilesNext /\ listsBegun' <= 4
          \/ Shell("skillpage") /\ SkillsPageNext /\ deletes' + Cardinality(DOMAIN ops') <= 2 /\ NotTwice
          \/ Sdk("engine") /\ EngineNext /\ SecondQuery
          \/ Sdk("hooks") /\ HooksNext /\ SideBySide
          \/ Sdk("tools") /\ ToolsNext /\ OneToolKind
          \/ Sdk("sessions") /\ SdkSessionsNext
          \/ Sdk("skills") /\ SkillsNext
          \/ Sdk("cache") /\ CacheNext
          \/ Sdk("wire") /\ WireNext

MCSpec == MCInit /\ [][MCNext]_allVars

-----------------------------------------------------------------------------
(* Properties: each component states its own, and the types of its         *)
(* variables; these join them.                                             *)

\* The Node API: its registry, switches and previews, and its agent streams.
ApiKeeps ==
    /\ In("providers") => ProviderTypeOK /\ RegistryKnowsItsProviders /\ SwitchesAgree
    /\ In("previews") => PreviewTypeOK /\ PreviewsLimited /\ PreviewsOwnPorts
    /\ In("page") => PageTypeOK /\ StartsAreFollowed
    /\ In("agent") => NodeAgentTypeOK /\ DoneIsLast /\ CallsSentOnce /\ StreamsCanBeStopped
                        /\ PlansCanBeExecuted /\ SessionsForgotten
    /\ In("plugins") => PluginTypeOK /\ PluginsFollowFiles
    /\ In("registry") => PluginTypeOK /\ RegistryHoldsWhatRuns
    /\ In("nodepool") => PluginTypeOK /\ PoolLeasesHold
    /\ scene \in BootScenes => BootTypeOK /\ ConfigsAgree /\ SkillsAreCurrent /\ CleanupsClose

\* What the user stored, attached or opened in the shell stays and is shown;
\* the task page tells what its run did, and its panels what is there.
ShellKeeps ==
    /\ In("store") => StoreTypeOK /\ WritesStay /\ RowsHaveTasks /\ ListTellsStore
    /\ In("composer") => ComposerTypeOK /\ AttachedOnce /\ AttachmentsLoaded
    /\ In("artifacts") => ArtifactsTypeOK /\ ViewersShowTheirs /\ UrlsAreRevoked
    /\ In("transcript") => TranscriptTypeOK /\ PageTellsAll /\ CallsHaveTheirResults /\ LastGroupRuns
    /\ In("panels") => PanelTypeOK /\ FilesAreTheDirs /\ LastClickWins /\ ItemsShowTheirLoads
    /\ In("files") => FilesTypeOK /\ ListIsComplete /\ OpensItselfOnce
    /\ In("skillpage") => SkillsPageTypeOK /\ ListShowsImports /\ ImportsAreWhole /\ ClonesRemoved

\* The shell's settings: saved as asked, and what a run gets from them.
SettingsKept ==
    /\ In("settings") => SettingsTypeOK /\ SettingsAsAsked
    /\ In("models") => ModelsTypeOK /\ EnabledHaveKeys /\ DefaultIsListed /\ TriesAreShownOwn
    /\ In("mcp") => McpTypeOK /\ RunsHaveListedServers

\* The TypeScript SDK: its query loop, stores, sessions and conversions.
SdkKeeps ==
    /\ In("engine") => EngineTypeOK /\ RequestsPaired /\ ChangesRunAlone /\ QueriesStay /\ ClosedIsClosed
    /\ In("hooks") => HooksTypeOK /\ HooksAreAsked /\ OneOutcome
    /\ In("tools") => ToolsTypeOK /\ IdsKeepTheirMeaning /\ MailOnceInOrder /\ WorktreesTracked
    /\ In("sessions") => SessionsTypeOK /\ CallsOnSessionsAdd
    /\ In("skills") => SkillsTypeOK /\ SkillsAreFound
    /\ In("cache") => CacheTypeOK /\ CacheKeepsItsLimits
    /\ In("wire") => WireTypeOK /\ WireKeepsPairs /\ RetriesEnd
=============================================================================
