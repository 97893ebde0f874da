------------------------------ MODULE NodeBoot ------------------------------
(***************************************************************************)
(* The life of the shell's Node API: its start (index.ts: configuration,   *)
(* built-in skills, provider manager, server), the configuration the       *)
(* loader and the manager each keep, which the settings' sync route        *)
(* changes, and the cleanup on a signal, while the start or requests may   *)
(* be under way.  How a provider is switched is NodeProviders'; here a     *)
(* switch has a beginning and an end.                                      *)
(***************************************************************************)
EXTENDS Naturals, FiniteSets

CONSTANTS
    ProviderKinds,      \* provider types, "default" and "codeany" among them
    Builtins,     \* the built-in skills
    Syncs,        \* sync requests under way at once
    MaxSyncs,     \* bound: sync requests in all
    MaxSignals,   \* bound: signals to one process
    MaxBoots,    \* bound: starts of the process
    MaxClock      \* bound: upgrades of the app

ASSUME BootAssumption == {"default", "codeany"} \subseteq ProviderKinds /\ MaxSignals \in Nat

VARIABLES
    bootPhase,          \* how far the process has come
    starts, signals,
    environ,            \* kind -> what the environment chooses, "none" for nothing
    confFile,           \* kind -> what the configuration file chooses
    readable,           \* the configuration file is there and is JSON
    loaderOf,           \* ConfigLoader.config.providers
    managerOf,          \* ProviderManager.config
    lives,              \* the kinds of which a provider runs
    syncing,            \* request -> what it does
    synced, syncCount,
    cleanups,           \* where the cleanups under way are
    \* built-in skills
    clock, app,         \* the app: its version and when that was built
    builtins,           \* skill -> the version of its parts, and when SKILL.md was written
    todo,               \* skills the start still has to look at
    copying,            \* the skill being copied, and the parts still to be copied
    \* history
    crossedSync,        \* a sync failed, or met another
    earlySignal,        \* a signal came before the server was up
    lateSwitch,         \* a switch was under way during a cleanup
    tornSkills,         \* skills whose copying was cut short
    backdated           \* skills written after the version that followed was built

lifeVars == <<bootPhase, starts, signals, cleanups, earlySignal, lateSwitch>>
confVars == <<environ, confFile, readable, loaderOf, managerOf>>
syncVars == <<syncing, synced, syncCount, crossedSync>>
builtinVars == <<clock, app, builtins, todo, copying, tornSkills, backdated>>
bootVars == <<lifeVars, confVars, lives, syncVars, builtinVars>>

BootKinds == {"sandbox", "agent"}
Parts == {"md", "rest"}
NoSync == [pc |-> "idle", want |-> [k \in BootKinds |-> "none"]]
NotCopying == [of |-> "nothing", left |-> {}]

BootTypeOK ==
    /\ bootPhase \in {"down", "installing", "managing", "serving", "up", "closed"}
    /\ {environ, confFile} \subseteq [BootKinds -> ProviderKinds \cup {"none"}] /\ readable \in BOOLEAN
    /\ {loaderOf, managerOf} \subseteq [BootKinds -> ProviderKinds \cup {"none"}]
    /\ lives \subseteq BootKinds /\ synced \subseteq BootKinds
    /\ \A s \in Syncs : syncing[s].pc \in {"idle", "sandbox", "agent", "loader"}
    /\ cleanups \subseteq (1 .. MaxSignals) \X {"previews", "manager"}
    /\ builtins \in [Builtins -> [md : Nat, rest : Nat, at : 0 .. clock]]
    /\ todo \subseteq Builtins /\ copying.left \subseteq Parts
    /\ {earlySignal, lateSwitch, crossedSync} \subseteq BOOLEAN
    /\ {tornSkills, backdated} \subseteq SUBSET Builtins

BootInit ==
    /\ bootPhase = "down" /\ starts = 0 /\ signals = 0 /\ cleanups = {}
    /\ earlySignal = FALSE /\ lateSwitch = FALSE
    /\ environ \in {e \in [BootKinds -> ProviderKinds \cup {"none"}] : e["sandbox"] # "codeany"}
    /\ confFile \in {f \in [BootKinds -> ProviderKinds \cup {"none"}] :
                     "codeany" \notin {f[k] : k \in BootKinds}}
    /\ readable \in BOOLEAN
    /\ loaderOf = [k \in BootKinds |-> "default"] /\ managerOf = [k \in BootKinds |-> "none"]
    /\ lives = {} /\ syncing = [s \in Syncs |-> NoSync]
    /\ synced = {} /\ syncCount = 0 /\ crossedSync = FALSE
    /\ clock = 1 /\ app = [version |-> 1, built |-> 1]
    /\ builtins = [b \in Builtins |-> [md |-> 0, rest |-> 0, at |-> 0]]
    /\ todo = {} /\ copying = NotCopying /\ tornSkills = {} /\ backdated = {}

-----------------------------------------------------------------------------
(* The start.                                                              *)

\* Variant for a mutation check: the file is merged last
FileWins == [k \in BootKinds |-> IF readable /\ confFile[k] # "none" THEN confFile[k]
                             ELSE IF environ[k] # "none" THEN environ[k] ELSE "default"]

\* load: the defaults, the file over them, the environment over both.
LoadedConf == [k \in BootKinds |-> IF environ[k] # "none" THEN environ[k]
                           ELSE IF readable /\ confFile[k] # "none" THEN confFile[k] ELSE "default"]

BootStart ==
    /\ bootPhase = "down" /\ starts < MaxBoots /\ starts' = starts + 1
    /\ bootPhase' = "installing"
    /\ loaderOf' = LoadedConf /\ todo' = Builtins
    /\ UNCHANGED <<signals, cleanups, earlySignal, lateSwitch, environ, confFile, readable,
                   managerOf, lives, syncVars,
                   clock, app, builtins, copying, tornSkills, backdated>>

\* Variant for a mutation check: SKILL.md is taken for current as soon as it is there
LookOnce(b) ==
    /\ bootPhase = "installing" /\ copying = NotCopying /\ b \in todo
    /\ todo' = todo \ {b}
    /\ copying' = IF builtins[b].md = 0 THEN [of |-> b, left |-> Parts] ELSE NotCopying
    /\ UNCHANGED <<lifeVars, confVars, lives, syncVars, clock, app, builtins, tornSkills,
                   backdated>>

\* installBuiltinSkills, one skill: it is copied if its SKILL.md is missing or
\* older than the app's.
LookAtSkill(b) ==
    /\ bootPhase = "installing" /\ copying = NotCopying /\ b \in todo
    /\ todo' = todo \ {b}
    /\ copying' = IF builtins[b].md = 0 \/ app.built > builtins[b].at
                  THEN [of |-> b, left |-> Parts] ELSE NotCopying
    /\ UNCHANGED <<lifeVars, confVars, lives, syncVars, clock, app, builtins, tornSkills,
                   backdated>>

\* copyDir: the parts in the order the directory lists them.  A copy is
\* written now, or keeps the original's time, as the platform has it.
CopyPart(p) ==
    LET b == copying.of
        rest == copying.left \ {p} IN
    /\ bootPhase = "installing" /\ p \in copying.left
    /\ \E at \in {clock, app.built} :
         builtins' = [builtins EXCEPT ![b] = IF p = "md" THEN [@ EXCEPT !.md = app.version, !.at = at]
                                                     ELSE [@ EXCEPT !.rest = app.version]]
    /\ copying' = IF rest = {} THEN NotCopying ELSE [copying EXCEPT !.left = rest]
    /\ tornSkills' = IF rest = {} THEN tornSkills \ {b} ELSE tornSkills
    /\ UNCHANGED <<lifeVars, confVars, lives, syncVars, clock, app, todo, backdated>>

CutShort == IF copying = NotCopying THEN tornSkills ELSE tornSkills \cup {copying.of}

\* One error ends the installation of them all.
CopyFails ==
    /\ bootPhase = "installing" /\ copying # NotCopying
    /\ bootPhase' = "managing" /\ copying' = NotCopying
    /\ tornSkills' = CutShort
    /\ UNCHANGED <<starts, signals, cleanups, earlySignal, lateSwitch, confVars, lives, syncVars,
                   clock, app, builtins, todo, backdated>>

Installed ==
    /\ bootPhase = "installing" /\ todo = {} /\ copying = NotCopying
    /\ bootPhase' = "managing"
    /\ UNCHANGED <<starts, signals, cleanups, earlySignal, lateSwitch, confVars, lives, syncVars,
                   builtinVars>>

\* The manager's initialize: it does not look at what the loader loaded.
Initialize ==
    /\ bootPhase = "managing" /\ bootPhase' = "serving"
    /\ managerOf' = [k \in BootKinds |->
                        IF environ[k] \in {"none", "codeany"} THEN "default" ELSE environ[k]]
    /\ UNCHANGED <<starts, signals, cleanups, earlySignal, lateSwitch, environ, confFile,
                   readable, loaderOf, lives, syncVars, builtinVars>>

ServerUp ==
    /\ bootPhase = "serving" /\ bootPhase' = "up"
    /\ UNCHANGED <<starts, signals, cleanups, earlySignal, lateSwitch, confVars, lives, syncVars,
                   builtinVars>>

-----------------------------------------------------------------------------
(* The settings' sync, and any request that needs a provider.              *)

SyncsUnderWay == {s \in Syncs : syncing[s].pc # "idle"}

SettingsSync(s) ==
    /\ bootPhase = "up" /\ syncing[s].pc = "idle" /\ syncCount < MaxSyncs /\ syncCount' = syncCount + 1
    /\ \E want \in [BootKinds -> ProviderKinds \ {"codeany"}] :
         syncing' = [syncing EXCEPT ![s] = [pc |-> "sandbox", want |-> want]]
    /\ crossedSync' = (crossedSync \/ SyncsUnderWay # {})
    /\ lateSwitch' = (lateSwitch \/ cleanups # {})
    /\ UNCHANGED <<bootPhase, starts, signals, cleanups, earlySignal, confVars, lives, synced,
                   builtinVars>>

Then == [sandbox |-> "agent", agent |-> "loader"]

\* A switch: the manager's configuration is set before the provider is made.
SwitchKind(s, k) ==
    /\ bootPhase \in {"up", "closed"} /\ syncing[s].pc = k
    /\ managerOf' = [managerOf EXCEPT ![k] = syncing[s].want[k]]
    /\ \/ /\ syncing' = [syncing EXCEPT ![s].pc = Then[k]]
          /\ lives' = lives \cup {k}
          /\ UNCHANGED crossedSync
       \/ /\ syncing' = [syncing EXCEPT ![s] = NoSync]
          /\ crossedSync' = TRUE
          /\ lives' \in {lives, lives \ {k}}
    /\ UNCHANGED <<lifeVars, environ, confFile, readable, loaderOf, synced, syncCount,
                   builtinVars>>

\* updateFromSettings: what is asked for is the loader's.
LoaderTold(s) ==
    /\ bootPhase \in {"up", "closed"} /\ syncing[s].pc = "loader"
    /\ loaderOf' = syncing[s].want /\ synced' = BootKinds
    /\ syncing' = [syncing EXCEPT ![s] = NoSync]
    /\ UNCHANGED <<lifeVars, environ, confFile, readable, managerOf, lives, syncCount,
                   crossedSync, builtinVars>>

-----------------------------------------------------------------------------
(* The end.                                                                *)

\* Every signal runs a cleanup of its own.
Signalled ==
    /\ bootPhase \notin {"down", "closed"} /\ signals < MaxSignals /\ signals' = signals + 1
    /\ cleanups' = cleanups \cup {<<signals + 1, "previews">>}
    /\ earlySignal' = (earlySignal \/ bootPhase # "up")
    /\ lateSwitch' = (lateSwitch \/ SyncsUnderWay # {})
    /\ UNCHANGED <<bootPhase, starts, confVars, lives, syncVars, builtinVars>>

PreviewsStopped(n) ==
    /\ <<n, "previews">> \in cleanups
    /\ cleanups' = (cleanups \ {<<n, "previews">>}) \cup {<<n, "manager">>}
    /\ UNCHANGED <<bootPhase, starts, signals, earlySignal, lateSwitch, confVars, lives,
                   syncVars, builtinVars>>

\* shutdownProviderManager, then the server is closed if there is one by now.
CleanedUp(n) ==
    /\ <<n, "manager">> \in cleanups /\ cleanups' = cleanups \ {<<n, "manager">>}
    /\ lives' = {}
    /\ bootPhase' = IF bootPhase = "up" THEN "closed" ELSE bootPhase
    /\ UNCHANGED <<starts, signals, earlySignal, lateSwitch, confVars, syncVars, builtinVars>>

\* The process ends, after its server closed or killed at any time.
ProcessEnds ==
    /\ bootPhase # "down" /\ bootPhase' = "down"
    /\ signals' = 0 /\ cleanups' = {} /\ earlySignal' = FALSE /\ lateSwitch' = FALSE /\ lives' = {}
    /\ syncing' = [s \in Syncs |-> NoSync] /\ synced' = {} /\ crossedSync' = FALSE
    /\ managerOf' = [k \in BootKinds |-> "none"] /\ copying' = NotCopying
    /\ tornSkills' = CutShort
    /\ UNCHANGED <<starts, environ, confFile, readable, loaderOf, syncCount, clock, app,
                   builtins, todo, backdated>>

\* The app is replaced by a version built some time since the last.
Upgraded ==
    /\ bootPhase = "down" /\ clock < MaxClock /\ clock' = clock + 1
    /\ \E b \in app.built .. clock + 1 :
         /\ app' = [version |-> app.version + 1, built |-> b]
         /\ backdated' = backdated \cup {s \in Builtins : builtins[s].at >= b}
    /\ UNCHANGED <<lifeVars, confVars, lives, syncVars, builtins, todo, copying, tornSkills>>

BootNext ==
    \/ BootStart \/ CopyFails \/ Installed \/ Initialize \/ ServerUp
    \/ Signalled \/ ProcessEnds \/ Upgraded
    \/ \E b \in Builtins : LookAtSkill(b)
    \/ \E p \in Parts : CopyPart(p)
    \/ \E s \in Syncs : SettingsSync(s) \/ LoaderTold(s) \/ \E k \in BootKinds : SwitchKind(s, k)
    \/ \E n \in 1 .. MaxSignals : PreviewsStopped(n) \/ CleanedUp(n)

BootSpec == BootInit /\ [][BootNext]_bootVars

-----------------------------------------------------------------------------
(* Properties.                                                             *)

\* When the server is up and no sync failed, met another or is under way, the
\* loader and the manager name the same providers: the ones asked for, or
\* those of the environment, except that only the loader reads the file and
\* only the manager knows the old name of the default agent (index.ts start,
\* providers.ts /settings/sync).
ConfigsAgree ==
    bootPhase = "up" /\ SyncsUnderWay = {} /\ ~crossedSync =>
        \A k \in BootKinds :
            \/ loaderOf[k] = managerOf[k]
            \/ /\ k \notin synced
               /\ IF environ[k] = "none" THEN readable /\ confFile[k] # "none"
                                      ELSE environ[k] = "codeany"

\* Once the skills have been installed, each is whole and of the app's
\* version, over any number of crashes, failures and upgrades, but for those
\* whose copying was cut short, those an error kept the start from looking at,
\* and those that had been written after the new version was built
\* (skills/loader.ts installBuiltinSkills).
SkillsAreCurrent ==
    bootPhase \in {"managing", "serving", "up"} =>
        \A b \in Builtins \ (todo \cup tornSkills \cup backdated) :
            builtins[b].md = app.version /\ builtins[b].rest = app.version

\* After a cleanup the server is closed and no provider runs, unless the
\* signal came before the server was up or a switch was under way meanwhile
\* (index.ts cleanup).
CleanupsClose ==
    /\ signals > 0 /\ cleanups = {} /\ ~earlySignal => bootPhase \in {"closed", "down"}
    /\ bootPhase = "closed" /\ ~lateSwitch => lives = {}
=============================================================================
