----------------------------- MODULE SdkSkills -----------------------------
(***************************************************************************)
(* The SDK's registry of skills (skills/registry.ts), under names and      *)
(* aliases, with the tool that looks them up (tools/skill-tool.ts): skills *)
(* come and go while an agent runs.                                        *)
(***************************************************************************)
EXTENDS Naturals, FiniteSets, Functions

CONSTANTS
    SkillNames,         \* names, which may also be aliases
    MaxSkillCalls       \* bound: changes of the registry
ASSUME SkillsAssumption == MaxSkillCalls \in Nat

VARIABLES
    skills,         \* name -> [aliases, enabled]
    aliases,        \* alias -> name
    skillCalls,
    contested       \* history: names whose skill was registered again, or that share an alias

skillVars == <<skills, aliases, skillCalls, contested>>

SkillsTypeOK ==
    /\ DOMAIN skills \subseteq SkillNames
    /\ \A n \in DOMAIN skills : skills[n].aliases \subseteq SkillNames /\ skills[n].enabled \in BOOLEAN
    /\ DOMAIN aliases \subseteq SkillNames /\ \A a \in DOMAIN aliases : aliases[a] \in SkillNames
    /\ skillCalls \in 0 .. MaxSkillCalls /\ contested \subseteq SkillNames

SkillsInit == skills = <<>> /\ aliases = <<>> /\ skillCalls = 0 /\ contested = {}

SkillCall == skillCalls < MaxSkillCalls /\ skillCalls' = skillCalls + 1

\* registerSkill: takes the name and the aliases over, whoever had them; the
\* aliases of a skill that is replaced stay.
RegisterSkill ==
    /\ SkillCall
    /\ \E n \in SkillNames, as \in SUBSET SkillNames, on \in BOOLEAN :
         /\ skills' = [m \in DOMAIN skills \cup {n} |-> IF m = n THEN [aliases |-> as, enabled |-> on] ELSE skills[m]]
         /\ aliases' = [a \in DOMAIN aliases \cup as |-> IF a \in as THEN n ELSE aliases[a]]
         /\ LET sharing == {m \in DOMAIN skills \ {n} : skills[m].aliases \cap as # {}}
            IN contested' = contested \cup ({n} \cap DOMAIN skills) \cup sharing
                              \cup (IF sharing = {} THEN {} ELSE {n})

\* Variant for a mutation check: the aliases stay.
AliasesLeft(n) == aliases

\* The skill's own aliases go, whoever has them by now.
AliasesWithout(n) == Restrict(aliases, DOMAIN aliases \ skills[n].aliases)

\* unregisterSkill.
UnregisterSkill ==
    /\ SkillCall
    /\ \E n \in DOMAIN skills :
         /\ aliases' = AliasesWithout(n)
         /\ skills' = Restrict(skills, DOMAIN skills \ {n})
    /\ UNCHANGED contested

ClearSkills == /\ SkillCall /\ skills' = <<>> /\ aliases' = <<>>
               /\ contested' = {}

SkillsNext == RegisterSkill \/ UnregisterSkill \/ ClearSkills

SkillsSpec == SkillsInit /\ [][SkillsNext]_skillVars

NoSkill == "no skill"
ASSUME NoSkillAssumption == NoSkill \notin SkillNames

\* Variant for a mutation check: an alias goes before a name.
AliasFirst(n) ==
    IF n \in DOMAIN aliases /\ aliases[n] \in DOMAIN skills THEN aliases[n]
    ELSE IF n \in DOMAIN skills THEN n ELSE NoSkill

\* getSkill: the name goes before the alias.
GetSkill(n) ==
    IF n \in DOMAIN skills THEN n
    ELSE IF n \in DOMAIN aliases /\ aliases[n] \in DOMAIN skills THEN aliases[n] ELSE NoSkill

\* The tool runs a skill that is enabled.
SkillRuns(n) == GetSkill(n) # NoSkill /\ skills[GetSkill(n)].enabled
-----------------------------------------------------------------------------
\* Over every order of registrations and removals, a name runs the skill of
\* that name, and else an alias the skill that has it: an uncontested skill is
\* found under all its names, and found no more once it is gone.
SkillsAreFound ==
    \A n \in SkillNames \ contested :
        /\ n \in DOMAIN skills => GetSkill(n) = n /\ (SkillRuns(n) <=> skills[n].enabled)
        /\ n \in DOMAIN skills => \A a \in skills[n].aliases \ DOMAIN skills : GetSkill(a) = n
        /\ n \notin DOMAIN skills => \A a \in DOMAIN aliases : aliases[a] # n
=============================================================================
