--------------------------- MODULE NodeProviders ---------------------------
(***************************************************************************)
(* The providers of the shell's Node API: the sandbox registry and the     *)
(* agent registry (core/sandbox/registry.ts, core/agent/registry.ts), the  *)
(* provider manager that switches between them for the settings page, the  *)
(* configuration loader that is told afterwards, and the sandbox routes    *)
(* that ask the registry for a provider of their own.  Every await is a    *)
(* step at which the other callers go on.                                  *)
(***************************************************************************)
EXTENDS Naturals, Sequences, FiniteSets

CONSTANTS
    Callers,    \* requests under way at once
    Types,      \* provider types, "native" one of them
    Configs,    \* configurations, "none" for a missing one
    MaxBegun    \* bound: requests in all

ASSUME ProvidersAssumption == "native" \in Types /\ "none" \in Configs

VARIABLES
    category,   \* "sandbox" or "agent": the registry at hand
    installed,  \* the types whose program is found on the host
    prov,       \* the providers made so far
    reg,        \* the registry: key -> index into prov, 0 for none
    who,        \* caller -> what it does
    begun,      \* requests begun
    active,     \* activeProviders: the manager's current provider, 0 for none
    managerCfg, \* the manager's configuration <<type, config>>
    loaderCfg,  \* the configuration loader's
    shown,      \* the type the settings page shows as current
    answer,     \* how the last command was answered, "none" while another request began since
    stopping,   \* what stop-all waits for, or NotStopping
    mixed,      \* history: the types for which registry calls overlapped
    jumbled,    \* history: two switches overlapped, or one failed
    ousted      \* history: providers that were current when they were shut down

regVars == <<prov, reg, who>>
mgrVars == <<active, managerCfg, loaderCfg, shown>>
histVars == <<mixed, jumbled, ousted>>
providerVars == <<category, installed, regVars, begun, mgrVars, answer, stopping, histVars>>

NotStopping == {0}
Nobody == [op |-> "none", pc |-> "idle", type |-> "native", config |-> "none", id |-> 0, old |-> 0]

\* The sandbox registry has one entry for a type, the agent registry one for
\* a type and a configuration.
Key(t, cfg) == IF category = "agent" THEN <<t, cfg>> ELSE <<t, "none">>

Registered == {reg[k] : k \in DOMAIN reg} \ {0}
Inside(c) == who[c].pc \in {"shut", "clear", "init"}

ProviderTypeOK ==
    /\ category \in {"sandbox", "agent"} /\ installed \subseteq Types
    /\ prov \in Seq([type : Types, config : Configs, alive : BOOLEAN,
                     state : {"initializing", "ready", "error", "own"}])
    /\ reg \in [Types \X Configs -> 0 .. Len(prov)]
    /\ \A c \in Callers :
         /\ who[c].op \in {"none", "switch", "exec", "fallback"}
         /\ who[c].pc \in {"idle", "best", "stopcur", "shut", "clear", "init", "got", "failed", "apply", "reply", "run"}
         /\ {who[c].id, who[c].old} \subseteq 0 .. Len(prov)
    /\ active \in 0 .. Len(prov)
    /\ {managerCfg, loaderCfg} \subseteq Types \X Configs /\ shown \in Types
    /\ answer \in {"none", "success", "failure"}
    /\ stopping \subseteq 0 .. Len(prov)
    /\ mixed \subseteq Types /\ jumbled \in BOOLEAN /\ ousted \subseteq 1 .. Len(prov)

ProviderInit ==
    /\ category \in {"sandbox", "agent"} /\ installed \in SUBSET Types
    /\ prov = <<>> /\ reg = [k \in Types \X Configs |-> 0]
    /\ who = [c \in Callers |-> Nobody] /\ begun = 0
    /\ active = 0 /\ \E t \in Types : managerCfg = <<t, "none">>
    /\ loaderCfg = managerCfg /\ shown = managerCfg[1]
    /\ answer = "none" /\ stopping = NotStopping
    /\ mixed = {} /\ jumbled = FALSE /\ ousted = {}

-----------------------------------------------------------------------------
(* The registries.  pr is prov, with what the same step did to it before.  *)

Goes(c, r) == who' = [who EXCEPT ![c] = r]

StateOf(i) == IF i = 0 THEN "none" ELSE prov[i].state

\* Variant for a mutation check: a ready provider fits whatever its configuration.
FitsAny(i, cfg) == StateOf(i) = "ready"

\* The entry found can be handed out.
Fits(i, cfg) == StateOf(i) = "ready" /\ prov[i].config = cfg

\* A provider is made and registered over whatever the key holds; an agent is
\* ready at once, a sandbox is still to be initialised.
Create(c, r, pr) ==
    LET agent == category = "agent" IN
    /\ prov' = Append(pr, [type |-> r.type, config |-> r.config, alive |-> agent,
                           state |-> IF agent THEN "ready" ELSE "initializing"])
    /\ reg' = [reg EXCEPT ![Key(r.type, r.config)] = Len(pr) + 1]
    /\ Goes(c, [r EXCEPT !.pc = IF agent THEN "got" ELSE "init", !.id = Len(pr) + 1])

SandboxInstance(c, r, pr) ==
    LET i == reg[Key(r.type, r.config)] IN
    /\ category = "sandbox"
    /\ \/ /\ Fits(i, r.config)
          /\ Goes(c, [r EXCEPT !.pc = "got", !.id = i])
          /\ prov' = pr /\ UNCHANGED reg
       \/ /\ ~Fits(i, r.config) /\ StateOf(i) = "ready"
          /\ Goes(c, [r EXCEPT !.pc = "shut", !.old = i])
          /\ prov' = pr /\ UNCHANGED reg
       \/ /\ StateOf(i) # "ready"
          /\ Create(c, r, pr)

\* The agent registry shuts down every agent of the type before it makes one.
AgentInstance(c, r, pr) ==
    LET i == reg[Key(r.type, r.config)] IN
    /\ category = "agent"
    /\ Goes(c, IF Fits(i, r.config) THEN [r EXCEPT !.pc = "got", !.id = i] ELSE [r EXCEPT !.pc = "clear"])
    /\ prov' = pr /\ UNCHANGED reg

\* getInstance up to its first await.
GetInstance(c, r, pr) ==
    /\ SandboxInstance(c, r, pr) \/ AgentInstance(c, r, pr)
    /\ mixed' = IF stopping # NotStopping \/ \E d \in Callers \ {c} : Inside(d) /\ who[d].type = r.type
                THEN mixed \cup {r.type} ELSE mixed

\* Variant for a mutation check: shutdown is not called.
StaysUp(i) == prov

\* prov with provider i shut down.
Dead(i) == [prov EXCEPT ![i].alive = FALSE]

\* The old provider is down: its key is emptied, whatever it holds by now.
Replaced(c) ==
    LET o == prov[who[c].old] IN
    /\ who[c].pc = "shut"
    /\ IF category = "agent"
         THEN /\ prov' = Dead(who[c].old)
              /\ reg' = [reg EXCEPT ![Key(o.type, o.config)] = 0]
              /\ Goes(c, [who[c] EXCEPT !.pc = "clear", !.old = 0])
         ELSE Create(c, [who[c] EXCEPT !.old = 0], Dead(who[c].old))
    /\ UNCHANGED <<category, installed, begun, mgrVars, answer, stopping, histVars>>

ClearNext(c) ==
    LET mine == {k \in DOMAIN reg : reg[k] # 0 /\ k[1] = who[c].type} IN
    /\ who[c].pc = "clear"
    /\ \/ \E k \in mine : /\ Goes(c, [who[c] EXCEPT !.pc = "shut", !.old = reg[k]])
                          /\ UNCHANGED <<prov, reg>>
       \/ mine = {} /\ Create(c, who[c], prov)
    /\ UNCHANGED <<category, installed, begun, mgrVars, answer, stopping, histVars>>

Initialised(c) ==
    /\ who[c].pc = "init"
    /\ \/ /\ prov' = [prov EXCEPT ![who[c].id] = [@ EXCEPT !.state = "ready", !.alive = TRUE]]
          /\ Goes(c, [who[c] EXCEPT !.pc = "got"])
       \/ /\ prov' = [prov EXCEPT ![who[c].id].state = "error"]
          /\ Goes(c, [who[c] EXCEPT !.pc = "failed"])
    /\ UNCHANGED <<category, installed, reg, begun, mgrVars, answer, stopping, histVars>>

\* stop-all: everything ready or failed is stopped at once, then the registry
\* is emptied.  Agents are not shut down, only forgotten.
StopAllBegins ==
    /\ stopping = NotStopping /\ begun < MaxBegun /\ begun' = begun + 1
    /\ stopping' = IF category = "agent" THEN {} ELSE {i \in Registered : prov[i].state # "initializing"}
    /\ mixed' = mixed \cup {who[c].type : c \in {d \in Callers : Inside(d)}}
    /\ UNCHANGED <<category, installed, regVars, mgrVars, answer, jumbled, ousted>>

StopAllEnds ==
    /\ stopping # NotStopping /\ stopping' = NotStopping
    /\ prov' = [i \in DOMAIN prov |-> IF i \in stopping THEN [prov[i] EXCEPT !.alive = FALSE] ELSE prov[i]]
    /\ reg' = [k \in DOMAIN reg |-> 0]
    /\ UNCHANGED <<category, installed, who, begun, mgrVars, answer, histVars>>

-----------------------------------------------------------------------------
(* Switching the current provider: the settings page, the provider routes, *)
(* the manager, the loader.                                                *)

Switching == {c \in Callers : who[c].op = "switch"}

\* The manager's configuration is what the switch asks for, and the provider
\* is fetched from the registry.
Adopt(c, r, pr) == managerCfg' = <<r.type, r.config>> /\ GetInstance(c, r, pr)

StartSwitch(c) ==
    /\ who[c].pc = "idle" /\ begun < MaxBegun /\ begun' = begun + 1
    /\ \E t \in Types, cfg \in Configs :
         LET r == [Nobody EXCEPT !.op = "switch", !.type = t, !.config = cfg] IN
         IF active = 0
           THEN Adopt(c, r, prov)
           ELSE /\ Goes(c, [r EXCEPT !.pc = "stopcur", !.old = active])
                /\ UNCHANGED <<prov, reg, managerCfg, mixed>>
    /\ jumbled' = (jumbled \/ Switching # {}) /\ answer' = "none"
    /\ UNCHANGED <<category, installed, active, loaderCfg, shown, stopping, ousted>>

\* The current provider is shut down, behind the registry's back.
CurrentStopped(c) ==
    /\ who[c].pc = "stopcur"
    /\ active' = 0
    /\ ousted' = ousted \cup {who[c].old}
    /\ Adopt(c, [who[c] EXCEPT !.old = 0], Dead(who[c].old))
    /\ UNCHANGED <<category, installed, begun, loaderCfg, shown, answer, stopping, jumbled>>

CurrentWontStop(c) ==
    /\ who[c].pc = "stopcur"
    /\ Goes(c, [who[c] EXCEPT !.pc = "failed"])
    /\ UNCHANGED <<category, installed, prov, reg, begun, mgrVars, answer, stopping, histVars>>

Activate(c) ==
    /\ who[c].op = "switch" /\ who[c].pc = "got"
    /\ active' = who[c].id
    /\ Goes(c, [who[c] EXCEPT !.pc = "apply"])
    /\ UNCHANGED <<category, installed, prov, reg, begun, managerCfg, loaderCfg, shown, answer, stopping, histVars>>

UpdateFromSettings(c) ==
    /\ who[c].pc = "apply"
    /\ loaderCfg' = <<who[c].type, who[c].config>>
    /\ Goes(c, [who[c] EXCEPT !.pc = "reply"])
    /\ UNCHANGED <<category, installed, prov, reg, begun, active, managerCfg, shown, answer, stopping, histVars>>

\* The answer reaches the settings page, which shows the type as current.
SwitchShown(c) ==
    /\ who[c].pc = "reply"
    /\ shown' = who[c].type
    /\ Goes(c, Nobody)
    /\ UNCHANGED <<category, installed, prov, reg, begun, active, managerCfg, loaderCfg, answer, stopping, histVars>>

\* An error leaves the page and the loader as they were.
SwitchFails(c) ==
    /\ who[c].op = "switch" /\ who[c].pc = "failed"
    /\ jumbled' = TRUE
    /\ Goes(c, Nobody)
    /\ UNCHANGED <<category, installed, prov, reg, begun, mgrVars, answer, stopping, mixed, ousted>>

-----------------------------------------------------------------------------
(* The sandbox routes.  They ask for a type without a configuration, or    *)
(* for the best there is.                                                  *)

StartExec(c) ==
    /\ category = "sandbox" /\ who[c].pc = "idle" /\ begun < MaxBegun /\ begun' = begun + 1
    /\ \/ \E t \in Types : GetInstance(c, [Nobody EXCEPT !.op = "exec", !.type = t], prov)
       \/ /\ Goes(c, [Nobody EXCEPT !.op = "exec", !.pc = "best"])
          /\ UNCHANGED <<prov, reg, mixed>>
    /\ answer' = "none"
    /\ UNCHANGED <<category, installed, mgrVars, stopping, jumbled, ousted>>

\* The best is a Codex provider of the request's own, which no registry
\* knows, or else the native one.
BestProvider(c) ==
    /\ who[c].pc = "best"
    /\ IF "codex" \in installed
         THEN /\ prov' = Append(prov, [type |-> "codex", config |-> "none", alive |-> TRUE, state |-> "own"])
              /\ Goes(c, [who[c] EXCEPT !.pc = "run", !.type = "codex", !.id = Len(prov) + 1])
              /\ UNCHANGED <<reg, mixed>>
         ELSE GetInstance(c, [who[c] EXCEPT !.op = "fallback", !.type = "native"], prov)
    /\ UNCHANGED <<category, installed, begun, mgrVars, answer, stopping, jumbled, ousted>>

NativeFallback(c) == GetInstance(c, [Nobody EXCEPT !.op = "fallback"], prov)

\* isAvailable, and the native provider when the answer is no or when there
\* was no provider; without a native one the request fails.
ProviderWithFallback(c) ==
    /\ who[c].op \in {"exec", "fallback"} /\ who[c].pc \in {"got", "failed"}
    /\ \/ /\ who[c].pc = "got" /\ who[c].type \in installed \cup {"native"}
          /\ Goes(c, [who[c] EXCEPT !.pc = "run"])
          /\ UNCHANGED <<prov, reg, mixed, answer>>
       \/ /\ who[c].op = "exec"
          /\ who[c].pc = "failed" \/ who[c].type \notin installed \cup {"native"}
          /\ NativeFallback(c) /\ UNCHANGED answer
       \/ /\ who[c].op = "fallback" /\ who[c].pc = "failed"
          /\ Goes(c, Nobody) /\ answer' = "failure"
          /\ UNCHANGED <<prov, reg, mixed>>
    /\ UNCHANGED <<category, installed, begun, mgrVars, stopping, jumbled, ousted>>

\* A process that is killed at its deadline has no exit code, and that
\* counts as 0.
Answers == [exits0 |-> "success", exits1 |-> "failure", killed |-> "success", unspawned |-> "failure"]

Answered(c, how) ==
    /\ answer' = how
    /\ Goes(c, Nobody)
    /\ UNCHANGED <<category, installed, prov, reg, begun, mgrVars, stopping, histVars>>

NativeRuns(c) ==
    /\ who[c].pc = "run" /\ who[c].type = "native"
    /\ \E e \in DOMAIN Answers : Answered(c, Answers[e])

\* Codex and Claude refuse without their program or when packages cannot be
\* installed.
CodexRuns(c) ==
    /\ who[c].pc = "run" /\ who[c].type = "codex"
    /\ \E e \in DOMAIN Answers : Answered(c, IF "codex" \in installed THEN Answers[e] ELSE "failure")

ClaudeRuns(c) ==
    /\ who[c].pc = "run" /\ who[c].type = "claude"
    /\ \E e \in DOMAIN Answers : Answered(c, IF "claude" \in installed THEN Answers[e] ELSE "failure")

ProviderNext ==
    \/ StopAllBegins \/ StopAllEnds
    \/ \E c \in Callers :
         \/ Replaced(c) \/ ClearNext(c) \/ Initialised(c)
         \/ StartSwitch(c) \/ CurrentStopped(c) \/ CurrentWontStop(c) \/ Activate(c)
         \/ UpdateFromSettings(c) \/ SwitchShown(c) \/ SwitchFails(c)
         \/ StartExec(c) \/ BestProvider(c) \/ ProviderWithFallback(c)
         \/ NativeRuns(c) \/ CodexRuns(c) \/ ClaudeRuns(c)

ProviderSpec == ProviderInit /\ [][ProviderNext]_providerVars

-----------------------------------------------------------------------------
(* Properties.                                                             *)

\* What runs is registered and what is registered runs: as long as calls for
\* a type do not overlap, a sandbox provider that was initialised and not shut
\* down is the one the registry holds, unless a request made it for itself,
\* and a provider the registry would hand out is alive unless the manager
\* shut it down while it was current.  Agents that stop-all forgets go on.
RegistryKnowsItsProviders ==
    \A i \in DOMAIN prov : prov[i].type \notin mixed =>
       /\ prov[i].alive /\ prov[i].state = "ready" /\ category = "sandbox" => i \in Registered
       /\ i \in Registered /\ prov[i].state = "ready" => prov[i].alive \/ i \in ousted

\* When no switch is under way, and none failed or overlapped another, the
\* manager, the loader, the settings page and the current provider agree on
\* the type and the configuration that were asked for last.
SwitchesAgree ==
    Switching = {} /\ ~jumbled =>
       /\ managerCfg = loaderCfg /\ shown = managerCfg[1]
       /\ active # 0 => <<prov[active].type, prov[active].config>> = managerCfg
=============================================================================
