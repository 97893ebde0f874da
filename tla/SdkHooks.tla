------------------------------ MODULE SdkHooks ------------------------------
(***************************************************************************)
(* How the TypeScript SDK runs one tool call (engine.ts,                   *)
(* executeSingleTool): the application's permission check, the PreToolUse  *)
(* hooks one after another, the tool, the hooks on its outcome.  Calls of  *)
(* read-only tools do so at the same time, and an application may register *)
(* a hook while others run (hooks.ts).                                     *)
(***************************************************************************)
EXTENDS Naturals, Sequences, FiniteSets

CONSTANTS
    HookCalls,          \* calls of one turn, of read-only tools
    MaxHooks            \* bound: PreToolUse hooks registered

ASSUME HooksAssumption == MaxHooks \in Nat \ {0}

VARIABLES
    known,          \* call -> its tool is known and enabled
    hooks,          \* PreToolUse hooks: sequence of [matches, valid], the calls one matches
    hookCalls,      \* call -> [at, input, next, block, atStart, threw]
    ran,            \* call -> input the tool ran with, or 0
    outcome,        \* call -> "none", "ok" or "failed": what the tool did
    hookTold,       \* call -> sequence of the hook events on its outcome
    results,        \* call -> sequence of results: "refused", "ok" or "failed"
    answers         \* history: call -> hook -> what it said of which input

hookVars == <<known, hooks, hookCalls, ran, outcome, hookTold, results, answers>>

\* A matcher that is no regular expression matches nothing.
HookDefs == {d \in [matches : SUBSET HookCalls, valid : BOOLEAN] : ~d.valid => d.matches = {}}

Ats == {"permission", "hooks", "hook", "tool", "post", "over"}

HooksTypeOK ==
    /\ known \in [HookCalls -> BOOLEAN] /\ hooks \in Seq(HookDefs) /\ Len(hooks) <= MaxHooks
    /\ \A c \in HookCalls :
         /\ hookCalls[c].at \in Ats /\ hookCalls[c].input \in {1, 2} /\ hookCalls[c].next \in 1 .. MaxHooks + 1
         /\ hookCalls[c].block \in BOOLEAN /\ hookCalls[c].atStart \in 0 .. MaxHooks
         /\ hookCalls[c].threw \in BOOLEAN
         /\ ran[c] \in 0 .. 2 /\ outcome[c] \in {"none", "ok", "failed"}
         /\ hookTold[c] \in Seq({"PostToolUse", "PostToolUseFailure"})
         /\ results[c] \in Seq({"refused", "ok", "failed"})
         /\ answers[c] \in [1 .. MaxHooks -> [said : {"none", "late", "pass", "block"}, input : 0 .. 2]]

HooksInit ==
    /\ known \in [HookCalls -> BOOLEAN]
    /\ hooks \in {<<>>} \cup {<<d>> : d \in HookDefs}
    /\ hookCalls = [c \in HookCalls |->
           [at |-> "permission", input |-> 1, next |-> 1, block |-> FALSE, atStart |-> 0, threw |-> FALSE]]
    /\ ran = [c \in HookCalls |-> 0] /\ outcome = [c \in HookCalls |-> "none"]
    /\ hookTold = [c \in HookCalls |-> <<>>] /\ results = [c \in HookCalls |-> <<>>]
    /\ answers = [c \in HookCalls |-> [h \in 1 .. MaxHooks |-> [said |-> "none", input |-> 0]]]

-----------------------------------------------------------------------------
(* Steps.                                                                  *)

Moves(c, to) == hookCalls' = [hookCalls EXCEPT ![c] = to]
Result(c, r) == results' = [results EXCEPT ![c] = Append(@, r)]

UnknownTool(c) ==
    /\ hookCalls[c].at = "permission" /\ ~known[c]
    /\ Moves(c, [hookCalls[c] EXCEPT !.at = "over"]) /\ Result(c, "refused")
    /\ UNCHANGED <<known, hooks, ran, outcome, hookTold, answers>>

\* The application allows the call, with its input or with another, or denies
\* it; a check that fails denies it.
CanUseTool(c) ==
    /\ hookCalls[c].at = "permission" /\ known[c]
    /\ \/ /\ \E i \in {1, 2} : Moves(c, [hookCalls[c] EXCEPT !.at = "hooks", !.input = i, !.atStart = Len(hooks)])
          /\ UNCHANGED results
       \/ Moves(c, [hookCalls[c] EXCEPT !.at = "over"]) /\ Result(c, "refused")
    /\ UNCHANGED <<known, hooks, ran, outcome, hookTold, answers>>

\* The call's next hook, if there is one; an empty list is not gone through.
Here(c) == hookCalls[c].atStart > 0 /\ hookCalls[c].next <= Len(hooks)

\* A hook that does not match the tool is passed over.
SkipHook(c) ==
    /\ hookCalls[c].at = "hooks" /\ Here(c)
    /\ hooks[hookCalls[c].next].valid /\ c \notin hooks[hookCalls[c].next].matches
    /\ Moves(c, [hookCalls[c] EXCEPT !.next = @ + 1])
    /\ UNCHANGED <<known, hooks, ran, outcome, hookTold, results, answers>>

AskHook(c) ==
    /\ hookCalls[c].at = "hooks" /\ Here(c) /\ c \in hooks[hookCalls[c].next].matches
    /\ Moves(c, [hookCalls[c] EXCEPT !.at = "hook"])
    /\ UNCHANGED <<known, hooks, ran, outcome, hookTold, results, answers>>

\* A matcher that is no regular expression throws outside the loop's try, and
\* the engine takes that for no answers: a block is lost, no later hook is
\* asked, and the tool runs.
MatcherThrows(c) ==
    /\ hookCalls[c].at = "hooks" /\ Here(c) /\ ~hooks[hookCalls[c].next].valid
    /\ Moves(c, [hookCalls[c] EXCEPT !.at = "tool", !.block = FALSE, !.threw = TRUE])
    /\ ran' = [ran EXCEPT ![c] = hookCalls[c].input]
    /\ UNCHANGED <<known, hooks, outcome, hookTold, results, answers>>

\* Variant for a mutation check: the last hook's answer stands.
LastBlocks(b, said) == said = "block"

\* One hook that blocks is enough.
KeepsBlock(b, said) == b \/ said = "block"

\* The hook answers; one that fails, exits with an error or is late has said
\* nothing.
HookAnswers(c) ==
    \E said \in {"pass", "block", "late"} :
        /\ hookCalls[c].at = "hook"
        /\ Moves(c, [hookCalls[c] EXCEPT !.at = "hooks", !.next = @ + 1, !.block = KeepsBlock(@, said)])
        /\ answers' = [answers EXCEPT ![c][hookCalls[c].next] = [said |-> said, input |-> hookCalls[c].input]]
        /\ UNCHANGED <<known, hooks, ran, outcome, hookTold, results>>

\* Variant for a mutation check: the tool is not kept waiting for the hooks.
AskedFirst(c) == Here(c) => hookCalls[c].next > 1

\* A hook registered in the meantime is still asked.
AllAsked(c) == ~Here(c)

HooksEnd(c) ==
    /\ hookCalls[c].at = "hooks" /\ AllAsked(c)
    /\ IF hookCalls[c].block
       THEN Moves(c, [hookCalls[c] EXCEPT !.at = "over"]) /\ Result(c, "refused") /\ UNCHANGED ran
       ELSE /\ Moves(c, [hookCalls[c] EXCEPT !.at = "tool"])
            /\ ran' = [ran EXCEPT ![c] = hookCalls[c].input] /\ UNCHANGED results
    /\ UNCHANGED <<known, hooks, outcome, hookTold, answers>>

ToolEnds(c) ==
    \E o \in {"ok", "failed"} :
        /\ hookCalls[c].at = "tool" /\ Moves(c, [hookCalls[c] EXCEPT !.at = "post"])
        /\ outcome' = [outcome EXCEPT ![c] = o]
        /\ UNCHANGED <<known, hooks, ran, hookTold, results, answers>>

\* Variant for a mutation check: what a failed tool did is told as success too.
AlwaysPost(c) == <<"PostToolUse">> \o (IF outcome[c] = "ok" THEN <<>> ELSE <<"PostToolUseFailure">>)

PostEvents(c) == IF outcome[c] = "ok" THEN <<"PostToolUse">> ELSE <<"PostToolUseFailure">>

PostHooksEnd(c) ==
    /\ hookCalls[c].at = "post" /\ Moves(c, [hookCalls[c] EXCEPT !.at = "over"])
    /\ hookTold' = [hookTold EXCEPT ![c] = PostEvents(c)] /\ Result(c, outcome[c])
    /\ UNCHANGED <<known, hooks, ran, outcome, answers>>

\* A hook is added to the list that calls are going through.
RegisterHook ==
    /\ Len(hooks) < MaxHooks /\ \E d \in HookDefs : hooks' = Append(hooks, d)
    /\ UNCHANGED <<known, hookCalls, ran, outcome, hookTold, results, answers>>

HooksNext ==
    \/ \E c \in HookCalls : \/ UnknownTool(c) \/ CanUseTool(c) \/ SkipHook(c) \/ AskHook(c) \/ HookAnswers(c)
                            \/ MatcherThrows(c) \/ HooksEnd(c) \/ ToolEnds(c) \/ PostHooksEnd(c)
    \/ RegisterHook

HooksSpec == HooksInit /\ [][HooksNext]_hookVars

-----------------------------------------------------------------------------
(* Properties.                                                             *)

\* A tool runs only after every hook that matches it, of those registered when
\* the application allowed the call, was asked about the input it runs with,
\* and none that answered in time blocked it.  The one exception is a matcher
\* that throws: then only the hooks before it were asked, and what they said
\* does not count (engine.ts:166-181, 527-574, hooks.ts:137-178).
HooksAreAsked ==
    \A c \in HookCalls : ran[c] # 0 =>
        LET call == hookCalls[c]
            last == IF call.threw THEN call.next - 1 ELSE call.atStart IN
        /\ \A h \in 1 .. last : c \in hooks[h].matches => answers[c][h].said # "none"
        /\ \A h \in 1 .. MaxHooks : answers[c][h].said # "none" =>
             /\ answers[c][h].input = ran[c]
             /\ answers[c][h].said = "block" => call.threw
        /\ call.threw => call.next <= Len(hooks) /\ ~hooks[call.next].valid

\* Every call gets one result, after the hooks were told what its tool did, if
\* it ran (engine.ts:576-608).
OneOutcome ==
    \A c \in HookCalls :
        /\ Len(results[c]) = (IF hookCalls[c].at = "over" THEN 1 ELSE 0)
        /\ results[c] # <<>> =>
             CASE results[c][1] = "ok" -> ran[c] # 0 /\ hookTold[c] = <<"PostToolUse">>
               [] results[c][1] = "failed" -> ran[c] # 0 /\ hookTold[c] = <<"PostToolUseFailure">>
               [] OTHER -> ran[c] = 0 /\ hookTold[c] = <<>>
=============================================================================
