SPECIFICATION MCSpec
CONSTANTS
    Callers = {c1, c2}
    Types = {"native", "codex", "claude"}
    Configs = {"none", "a"}
    MaxBegun = 2
    PreviewTasks = {1, 2, 3}
    MaxPreviews = 2
    MaxPort = 3
    MaxStarts = 3
    MaxChecks = 1
    PageTasks = {1, 2}
    MaxClicks = 2
    Streams = {1, 2}
    Texts = {1}
    Tools = {1}
    StoreTasks = {1, 2}
    StoreCallers = {c1, c2}
    MaxCalls = 3
    MaxChanges = 2
    BuiltIn = {1}
    Models = {"m1"}
    MaxModelChanges = 4
    Servers = {c1, c2}
    MaxEdits = 2
    MaxAdds = 2
    MaxSubmits = 2
    MaxTurnovers = 3
    Files = {1, 2}
    MaxLooks = 3
    Replies = {1, 2}
    MaxShown = 5
    Dirs = {1, 2}
    TreeFiles = {c1, c2}
    MaxReloads = 3
    MaxFileClicks = 2
    FileTasks = {1, 2}
    FilePaths = {1}
    MaxFound = 1
    MaxOpens = 2
    MaxLists = 2
    Queries = {1, 2}
    MaxTurns = 2
    MaxTools = 1
    MaxLinks = 1
    Mates = {c1, c2}
    Branches = {c1, c2}
    MaxToolCalls = 4
    SessionIds = {c1, c2}
    MaxJobs = 3
    SkillNames = {g1, g2, g3}
    MaxSkillCalls = 3
    Paths = {p1, p2, p3}
    Sizes = {1, 2, 4}
    MaxEntries = 2
    MaxBytes = 3
    MaxCacheCalls = 5
    HookCalls = {h1, h2}
    MaxHooks = 2
    CallIds = {c1, c2}
    MaxMessages = 5
    MaxRetries = 2
    PluginTypes = {t1, t2}
    MaxFileEdits = 2
    RegistryCallers = {c1, c2}
    MaxRegistryCalls = 4
    PoolImages = {i1, i2}
    PoolUsers = {c1, c2}
    MaxPool = 1
    MaxLeases = 3
    ProviderKinds = {"default", "codeany", "a"}
    Builtins = {c1, c2}
    Syncs = {c1, c2}
    MaxSyncs = 2
    MaxSignals = 2
    MaxBoots = 3
    MaxClock = 3
    Skills = {z1, z2}
    IgnoredNames = {z2}
    CustomSkills = {e1}
    MaxImports = 2
    MaxVisits = 2
    MaxSkillDeletes = 1
INVARIANTS
    ApiKeeps
    ShellKeeps
    SettingsKept
    SdkKeeps
CHECK_DEADLOCK FALSE
