----------------------------- MODULE BenchProofs -----------------------------
(***************************************************************************)
(* The run of the smaller components, MCShell: a step is one component's,  *)
(* and the others keep their state, so that what is proved of each holds   *)
(* of all of them together, for every value of their constants.            *)
(***************************************************************************)
EXTENDS MCShell, NodeProofs, ShellProofs, PageProofs, SdkProofs, TLAPS

LEMMA StartsAll ==
    ASSUME MCInit PROVE SettingsInit /\ ModelsInit /\ McpInit
  BY DEF MCInit, SettingsStart, McpStart

LEMMA SettingsStep == ASSUME [MCNext]_allVars PROVE [SettingsNext]_settingsVars
  BY DEF MCNext, Api, Shell, Sdk, allVars, shellVars

LEMMA ModelsStep == ASSUME [MCNext]_allVars PROVE [ModelsNext]_modelVars
  BY DEF MCNext, Api, Shell, Sdk, allVars, shellVars

LEMMA McpStep == ASSUME [MCNext]_allVars PROVE [McpNext]_mcpVars
  BY DEF MCNext, Api, Shell, Sdk, allVars, shellVars

\* The shell's settings are saved as asked, its models have keys and its runs
\* the MCP servers listed, for every value of the constants (settings.ts,
\* ModelSettings.tsx, MCPSettings.tsx).
THEOREM SettingsAreKept == MCSpec => []SettingsKept
<1> DEFINE Inv == SettingsInv /\ ModelsInv /\ McpInv
<1>1. MCInit => Inv
  BY StartsAll, SettingsStarts, ModelsStart, McpStarts
<1>2. Inv /\ [MCNext]_allVars => Inv'
  BY SettingsStep, ModelsStep, McpStep, SettingsKeep, ModelsKeep, McpKeeps
<1>3. Inv => SettingsKept
  BY SettingsShow, ModelsShow, McpShows DEF SettingsKept
<1> QED
  BY <1>1, <1>2, <1>3, PTL DEF MCSpec

-----------------------------------------------------------------------------
(* The Node API.                                                           *)

LEMMA ApiStarts ==
    ASSUME MCInit PROVE ProviderInit /\ PreviewInit /\ PageInit /\ NodeAgentInit /\ PluginInit /\ BootInit
  BY DEF MCInit, ProviderStart, PageStart, PluginsStart, BootStarts

LEMMA ProviderStep == ASSUME [MCNext]_allVars PROVE [ProviderNext]_providerVars
  BY DEF MCNext, Api, Shell, Sdk, allVars, apiVars

LEMMA PreviewStep == ASSUME [MCNext]_allVars PROVE [PreviewNext]_previewVars
  BY DEF MCNext, Api, Shell, Sdk, allVars, apiVars

LEMMA PageStep == ASSUME [MCNext]_allVars PROVE [PageNext]_pageVars
  BY DEF MCNext, Api, Shell, Sdk, allVars, apiVars

LEMMA AgentStep == ASSUME [MCNext]_allVars PROVE [NodeAgentNext]_nodeAgentVars
  BY DEF MCNext, Api, Shell, Sdk, allVars, apiVars

LEMMA BootStep == ASSUME [MCNext]_allVars PROVE [BootNext]_bootVars
  BY DEF MCNext, Api, Shell, Sdk, allVars, apiVars, Installing, Booting, BootScenes

LEMMA PluginStep == ASSUME [MCNext]_allVars PROVE [PluginNext]_pluginVars
  BY DEF MCNext, Api, Shell, Sdk, allVars, apiVars, PluginNext, PluginScenes

\* In the loader's scene only the loader moves.
LEMMA LoaderStep ==
    ASSUME [MCNext]_allVars, In("plugins")'
    PROVE  In("plugins") /\ (LoaderNext \/ UNCHANGED <<plugins, loaderVars>>)
  BY DEF MCNext, Api, Shell, Sdk, allVars, apiVars, pluginVars, In

\* What the Node API's components promise, over every interleaving of their
\* steps and for every value of the constants: its registry knows its
\* providers, previews keep to their limit and ports, streams end with one
\* done, plugins follow their files, and a start leaves the configurations
\* agreeing (shared/provider, shared/services, shared/init, app/api).
THEOREM ApiIsKept == MCSpec => []ApiKeeps
<1> DEFINE Inv == /\ PreviewPageInv /\ AgentInv /\ BootInv /\ ProvInv /\ PrevInv /\ ChecksAreOver /\ PluginInv
                  /\ In("plugins") => LoaderInv
<1>1. MCInit => Inv
  <2>1. PreviewInit => ChecksAreOver
    BY DEF PreviewInit, ChecksAreOver, Ids
  <2> QED
    BY <2>1, ApiStarts, PageStarts, AgentStarts, BootBegins, ProvStarts, PrevStarts, PluginStarts, LoaderStarts
<1>2. Inv /\ [MCNext]_allVars => Inv'
  <2> SUFFICES ASSUME Inv, [MCNext]_allVars PROVE Inv'
    OBVIOUS
  <2>1. PreviewPageInv' /\ AgentInv' /\ BootInv'
    BY PageStep, AgentStep, BootStep, PageKeeps, AgentKeeps, BootKeeps
  <2>2. ProvInv' /\ PrevInv' /\ ChecksAreOver' /\ PluginInv'
    BY ProviderStep, PreviewStep, PluginStep, ProvKeeps, PrevKeeps, ChecksStayOver, PluginKeeps
  <2>3. ASSUME In("plugins")' PROVE LoaderInv'
    BY <2>3, LoaderStep, LoaderKeeps
  <2> QED
    BY <2>1, <2>2, <2>3
<1>3. Inv => ApiKeeps
  <2> SUFFICES ASSUME Inv PROVE ApiKeeps
    OBVIOUS
  <2>1. /\ PageTypeOK /\ StartsAreFollowed
        /\ NodeAgentTypeOK /\ DoneIsLast /\ CallsSentOnce /\ StreamsCanBeStopped
        /\ PlansCanBeExecuted /\ SessionsForgotten
        /\ BootTypeOK /\ ConfigsAgree /\ SkillsAreCurrent /\ CleanupsClose
    BY PageShows, AgentShows, BootShows
  <2>2. /\ ProviderTypeOK /\ RegistryKnowsItsProviders /\ SwitchesAgree
        /\ PreviewTypeOK /\ PreviewsLimited /\ PreviewsOwnPorts
        /\ PluginTypeOK /\ RegistryHoldsWhatRuns /\ PoolLeasesHold
    BY ProvShows, PrevShows, PluginShows
  <2>3. In("plugins") => PluginsFollowFiles
    BY LoaderShows
  <2> QED
    BY <2>1, <2>2, <2>3 DEF ApiKeeps
<1> QED
  BY <1>1, <1>2, <1>3, PTL DEF MCSpec

-----------------------------------------------------------------------------
(* The TypeScript SDK: the run of all components is one of each of them.   *)

LEMMA SkillsRuns == MCSpec => SkillsSpec
<1>1. MCInit => SkillsInit
  BY DEF MCInit
<1>2. [MCNext]_allVars => [SkillsNext]_skillVars
  BY DEF MCNext, Api, Shell, Sdk, allVars, sdkVars
<1> QED
  BY <1>1, <1>2, PTL DEF MCSpec, SkillsSpec

LEMMA ToolsRuns == MCSpec => ToolsSpec
<1>1. MCInit => ToolsInit
  BY DEF MCInit, ToolsStart
<1>2. [MCNext]_allVars => [ToolsNext]_toolVars
  BY DEF MCNext, Api, Shell, Sdk, allVars, sdkVars
<1> QED
  BY <1>1, <1>2, PTL DEF MCSpec, ToolsSpec

LEMMA SessionsRuns == MCSpec => SdkSessionsSpec
<1>1. MCInit => SdkSessionsInit
  BY DEF MCInit
<1>2. [MCNext]_allVars => [SdkSessionsNext]_sdkSessionVars
  BY DEF MCNext, Api, Shell, Sdk, allVars, sdkVars
<1> QED
  BY <1>1, <1>2, PTL DEF MCSpec, SdkSessionsSpec

LEMMA CacheRuns == MCSpec => CacheSpec
<1>1. MCInit => CacheInit
  BY DEF MCInit
<1>2. [MCNext]_allVars => [CacheNext]_cacheVars
  BY DEF MCNext, Api, Shell, Sdk, allVars, sdkVars
<1> QED
  BY <1>1, <1>2, PTL DEF MCSpec, CacheSpec

LEMMA WireRuns == MCSpec => WireSpec
<1>1. MCInit => WireInit
  BY DEF MCInit
<1>2. [MCNext]_allVars => [WireNext]_wireVars
  BY DEF MCNext, Api, Shell, Sdk, allVars, sdkVars
<1> QED
  BY <1>1, <1>2, PTL DEF MCSpec, WireSpec

LEMMA EngineRuns == MCSpec => EngineSpec
<1>1. MCInit => EngineInit
  BY DEF MCInit
<1>2. [MCNext]_allVars => [EngineNext]_engineVars
  BY DEF MCNext, Api, Shell, Sdk, allVars, sdkVars
<1> QED
  BY <1>1, <1>2, PTL DEF MCSpec, EngineSpec

LEMMA HooksRuns == MCSpec => HooksSpec
<1>1. MCInit => HooksInit
  BY DEF MCInit, HooksStart
<1>2. [MCNext]_allVars => [HooksNext]_hookVars
  BY DEF MCNext, Api, Shell, Sdk, allVars, sdkVars
<1> QED
  BY <1>1, <1>2, PTL DEF MCSpec, HooksSpec

\* What the TypeScript SDK's components promise, over every interleaving of
\* their steps and for every value of the constants: its agent's requests are
\* paired and its history keeps what was asked, hooks are asked, the stores of
\* its tools keep what they were given, sessions add up, skills are found, the
\* cache keeps its limits, and messages stay paired for the provider
\* (src/engine.ts, src/hooks.ts, src/tools, src/session.ts, src/skills,
\* src/utils/fileCache.ts, src/providers/openai.ts, src/utils/retry.ts).
THEOREM SdkIsKept == MCSpec => []SdkKeeps
<1>1. /\ EngineTypeOK /\ RequestsPaired /\ ChangesRunAlone /\ QueriesStay /\ ClosedIsClosed
      /\ HooksTypeOK /\ HooksAreAsked /\ OneOutcome
      /\ ToolsTypeOK /\ IdsKeepTheirMeaning /\ MailOnceInOrder /\ WorktreesTracked
      /\ SessionsTypeOK /\ CallsOnSessionsAdd
      /\ SkillsTypeOK /\ SkillsAreFound
      /\ CacheTypeOK /\ CacheKeepsItsLimits
      /\ WireTypeOK /\ WireKeepsPairs /\ RetriesEnd
      => SdkKeeps
  BY DEF SdkKeeps
<1> QED
  BY <1>1, SkillsRuns, ToolsRuns, SessionsRuns, CacheRuns, WireRuns, EngineRuns, HooksRuns,
     SkillsAlwaysFound, ToolStoresHold, SessionCallsAdd, CacheKeptInLimits, WireAlwaysPaired,
     ConversationsHold, HooksTyping, HooksAsked, OneResult, PTL

-----------------------------------------------------------------------------
(* The shell: the run of all components is one of each of its own.         *)

LEMMA StoreRuns == MCSpec => StoreSpec
<1>1. MCInit => StoreInit
  BY DEF MCInit, StoreStart
<1>2. [MCNext]_allVars => [StoreNext]_storeVars
  BY DEF MCNext, Api, Shell, Sdk, allVars, shellVars
<1> QED
  BY <1>1, <1>2, PTL DEF MCSpec, StoreSpec

LEMMA PanelRuns == MCSpec => PanelSpec
<1>1. MCInit => PanelInit
  BY DEF MCInit
<1>2. [MCNext]_allVars => [PanelNext]_panelVars
  BY DEF MCNext, Api, Shell, Sdk, allVars, shellVars
<1> QED
  BY <1>1, <1>2, PTL DEF MCSpec, PanelSpec

LEMMA ComposerRuns == MCSpec => ComposerSpec
<1>1. MCInit => ComposerInit
  BY DEF MCInit
<1>2. [MCNext]_allVars => [ComposerNext]_composerVars
  BY DEF MCNext, Api, Shell, Sdk, allVars, shellVars
<1> QED
  BY <1>1, <1>2, PTL DEF MCSpec, ComposerSpec

LEMMA ArtifactsRuns == MCSpec => ArtifactsSpec
<1>1. MCInit => ArtifactsInit
  BY DEF MCInit, ArtifactsStart
<1>2. [MCNext]_allVars => [ArtifactsNext]_artifactVars
  BY DEF MCNext, Api, Shell, Sdk, allVars, shellVars
<1> QED
  BY <1>1, <1>2, PTL DEF MCSpec, ArtifactsSpec

LEMMA TranscriptRuns == MCSpec => TranscriptSpec
<1>1. MCInit => TranscriptInit
  BY DEF MCInit
<1>2. [MCNext]_allVars => [TranscriptNext]_transcriptVars
  BY DEF MCNext, Api, Shell, Sdk, allVars, shellVars
<1> QED
  BY <1>1, <1>2, PTL DEF MCSpec, TranscriptSpec

LEMMA FilesRuns == MCSpec => FilesSpec
<1>1. MCInit => FilesInit
  BY DEF MCInit, FilesStart
<1>2. [MCNext]_allVars => [FilesNext]_fileVars
  BY DEF MCNext, Api, Shell, Sdk, allVars, shellVars
<1> QED
  BY <1>1, <1>2, PTL DEF MCSpec, FilesSpec

LEMMA SkillsPageRuns == MCSpec => SkillsPageSpec
<1>1. MCInit => SkillsPageInit
  BY DEF MCInit, SkillsPageStart
<1>2. [MCNext]_allVars => [SkillsPageNext]_skillsPageVars
  BY DEF MCNext, Api, Shell, Sdk, allVars, shellVars
<1> QED
  BY <1>1, <1>2, PTL DEF MCSpec, SkillsPageSpec

\* What the shell's components promise, over every interleaving of their
\* steps and for every value of the constants: what the user stored stays and
\* is listed, each file attached is in one place, a viewer shows the artifact
\* chosen, the page tells all of a conversation, the panels show what the
\* directories hold, the list of files is complete, and an import is whole and
\* shown (task-storage, useChatInput, ArtifactPreview.tsx, TaskDetail.tsx,
\* RightSidebar.tsx, SkillsSettings.tsx).
THEOREM ShellIsKept == MCSpec => []ShellKeeps
<1>1. /\ StoreTypeOK /\ WritesStay /\ RowsHaveTasks /\ ListTellsStore
      /\ ComposerTypeOK /\ AttachedOnce /\ AttachmentsLoaded
      /\ ArtifactsTypeOK /\ ViewersShowTheirs /\ UrlsAreRevoked
      /\ TranscriptTypeOK /\ PageTellsAll /\ CallsHaveTheirResults /\ LastGroupRuns
      /\ PanelTypeOK /\ FilesAreTheDirs /\ LastClickWins /\ ItemsShowTheirLoads
      /\ FilesTypeOK /\ ListIsComplete /\ OpensItselfOnce
      /\ SkillsPageTypeOK /\ ListShowsImports /\ ImportsAreWhole /\ ClonesRemoved
      => ShellKeeps
  BY DEF ShellKeeps
<1> QED
  BY <1>1, StoreRuns, PanelRuns, ComposerRuns, ArtifactsRuns, TranscriptRuns, FilesRuns, SkillsPageRuns,
     StoreHolds, PanelTyping, FilesShown, LastClick, ItemsShow, ComposerHolds, ArtifactsShown,
     TranscriptHolds, FilesListed, SkillsPageHolds, PTL
=============================================================================
