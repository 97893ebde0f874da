----------------------------- MODULE NodeProofs -----------------------------
(***************************************************************************)
(* Proofs about the components that run in the shell's Node process, for   *)
(* every value of their constants: the hooks of the SDK, and of the API    *)
(* its providers, previews, agent streams, plugins and start, and the page *)
(* that follows a preview.                                                 *)
(***************************************************************************)
EXTENDS SdkHooks, PreviewPage, NodeAgent, NodeBoot, NodeProviders, NodePreview, NodePlugins,
        FiniteSetTheorems, SequenceTheorems, WellFoundedInduction, TLAPS

-----------------------------------------------------------------------------
(* The hooks around a tool call, for every set of calls and any bound of   *)
(* hooks.                                                                  *)

CallType == [at : Ats, input : {1, 2}, next : 1 .. MaxHooks + 1, block : BOOLEAN, atStart : 0 .. MaxHooks,
             threw : BOOLEAN]
AnswerType == [said : {"none", "late", "pass", "block"}, input : 0 .. 2]

HookTypes ==
    /\ known \in [HookCalls -> BOOLEAN] /\ hooks \in Seq(HookDefs) /\ Len(hooks) <= MaxHooks
    /\ hookCalls \in [HookCalls -> CallType] /\ ran \in [HookCalls -> 0 .. 2]
    /\ outcome \in [HookCalls -> {"none", "ok", "failed"}]
    /\ hookTold \in [HookCalls -> Seq({"PostToolUse", "PostToolUseFailure"})]
    /\ results \in [HookCalls -> Seq({"refused", "ok", "failed"})]
    /\ answers \in [HookCalls -> [1 .. MaxHooks -> AnswerType]]

\* Every hook before the next one has answered if it matches, and no other.
HooksAnswered(c) ==
    LET h == hookCalls[c] IN
    /\ h.next <= Len(hooks) + 1 /\ h.atStart <= Len(hooks)
    /\ h.at = "hook" => h.next <= Len(hooks)
    /\ \A k \in 1 .. MaxHooks :
         /\ k < h.next /\ c \in hooks[k].matches => answers[c][k].said # "none"
         /\ answers[c][k].said # "none" =>
              /\ k < h.next /\ answers[c][k].input = h.input
              /\ answers[c][k].said = "block" => h.block \/ h.threw

\* What a call has done where it is.
CallDone(c) ==
    LET h == hookCalls[c] IN
    /\ h.at = "permission" => h.next = 1
    /\ h.at \in {"permission", "hooks", "hook"} => ran[c] = 0
    /\ h.at \in {"tool", "post"} => ran[c] # 0
    /\ h.at # "over" => results[c] = <<>> /\ hookTold[c] = <<>>
    /\ h.at = "post" => outcome[c] # "none"
    /\ ran[c] # 0 => ran[c] = h.input /\ ~h.block /\ (~h.threw => h.atStart < h.next)
    /\ h.threw => ran[c] # 0 /\ h.next <= Len(hooks) /\ ~hooks[h.next].valid

\* The one result of a call that is over.
OneTold(c) ==
    hookCalls[c].at = "over" =>
        \/ results[c] = <<"ok">> /\ ran[c] # 0 /\ hookTold[c] = <<"PostToolUse">>
        \/ results[c] = <<"failed">> /\ ran[c] # 0 /\ hookTold[c] = <<"PostToolUseFailure">>
        \/ results[c] = <<"refused">> /\ ran[c] = 0 /\ hookTold[c] = <<>>

CallInv(c) == HooksAnswered(c) /\ CallDone(c) /\ OneTold(c)

HooksInv == HookTypes /\ \A c \in HookCalls : CallInv(c)

-----------------------------------------------------------------------------
(* A step of one call leaves the others as they are.                       *)

CallVars(c) == <<known[c], hookCalls[c], ran[c], outcome[c], hookTold[c], results[c], answers[c]>>

\* What a step of call c has to show.
CallStep(c) ==
    /\ HookTypes' /\ UNCHANGED hooks
    /\ CallInv(c)'
    /\ \A d \in HookCalls \ {c} : UNCHANGED CallVars(d)

LEMMA OthersStay == ASSUME HooksInv, NEW c \in HookCalls, CallStep(c) PROVE HooksInv'
<1> SUFFICES ASSUME NEW d \in HookCalls, d # c PROVE CallInv(d)'
  BY DEF HooksInv, CallStep
<1>1. UNCHANGED CallVars(d) /\ UNCHANGED hooks /\ CallInv(d)
  BY DEF CallStep, HooksInv
<1> QED
  BY <1>1 DEF CallInv, CallVars, HooksAnswered, CallDone, OneTold

LEMMA UnknownToolKeeps == ASSUME HooksInv, NEW c \in HookCalls, UnknownTool(c) PROVE CallStep(c)
<1> DEFINE h == [hookCalls[c] EXCEPT !.at = "over"]
<1>1. h \in CallType
  <2>1. hookCalls[c] \in CallType
    BY DEF HooksInv, HookTypes
  <2> QED
    BY <2>1 DEF CallType, Ats
<1>2. hookCalls' = [hookCalls EXCEPT ![c] = h] /\ results' = [results EXCEPT ![c] = Append(@, "refused")]
  BY DEF UnknownTool, Moves, Result
<1>3. results[c] = <<>> /\ hookTold[c] = <<>> /\ ran[c] = 0 /\ ~hookCalls[c].threw
  BY DEF UnknownTool, HooksInv, CallInv, CallDone
<1> HIDE DEF h
<1>4. HookTypes'
  BY <1>1, <1>2 DEF HooksInv, HookTypes, UnknownTool
<1>5. results'[c] = <<"refused">> /\ ran'[c] = 0 /\ hookTold'[c] = <<>>
  BY <1>2, <1>3 DEF HooksInv, HookTypes, UnknownTool
<1>6. hookCalls'[c] = h /\ \A d \in HookCalls \ {c} : UNCHANGED CallVars(d)
  BY <1>2 DEF HooksInv, HookTypes, UnknownTool, CallVars
<1>7. HooksAnswered(c)'
  BY <1>6 DEF HooksInv, CallInv, HookTypes, CallType, HooksAnswered, UnknownTool, h
<1>8. CallDone(c)'
  BY <1>3, <1>5, <1>6 DEF HooksInv, HookTypes, CallType, CallDone, h
<1>9. OneTold(c)'
  BY <1>5 DEF OneTold
<1> QED
  BY <1>4, <1>6, <1>7, <1>8, <1>9 DEF CallStep, CallInv, UnknownTool

LEMMA CanUseToolKeeps == ASSUME HooksInv, NEW c \in HookCalls, CanUseTool(c) PROVE CallStep(c)
<1>1. /\ results[c] = <<>> /\ hookTold[c] = <<>> /\ ran[c] = 0 /\ hookCalls[c].next = 1 /\ ~hookCalls[c].threw
      /\ hookCalls[c] \in CallType /\ Len(hooks) \in 0 .. MaxHooks
  BY DEF CanUseTool, HooksInv, CallInv, CallDone, HookTypes
<1>2. ASSUME NEW i \in {1, 2}, UNCHANGED results,
             Moves(c, [hookCalls[c] EXCEPT !.at = "hooks", !.input = i, !.atStart = Len(hooks)])
      PROVE  CallStep(c)
  <2> DEFINE h == [hookCalls[c] EXCEPT !.at = "hooks", !.input = i, !.atStart = Len(hooks)]
  <2>1. /\ h \in CallType /\ h.at = "hooks" /\ h.next = 1 /\ h.block = hookCalls[c].block
        /\ h.threw = hookCalls[c].threw
        /\ h.atStart = Len(hooks)
    BY <1>1 DEF CallType, Ats
  <2>2. hookCalls' = [hookCalls EXCEPT ![c] = h]
    BY <1>2 DEF Moves
  <2> HIDE DEF h
  <2>3. HookTypes'
    BY <1>2, <2>1, <2>2 DEF HooksInv, HookTypes, CanUseTool
  <2>4. hookCalls'[c] = h /\ \A d \in HookCalls \ {c} : UNCHANGED CallVars(d)
    BY <1>2, <2>2 DEF HooksInv, HookTypes, CanUseTool, CallVars
  <2>5. HooksAnswered(c)'
    BY <1>1, <2>1, <2>4 DEF HooksInv, CallInv, HookTypes, HooksAnswered, CanUseTool
  <2>6. CallDone(c)' /\ OneTold(c)'
    BY <1>1, <1>2, <2>1, <2>4 DEF CallDone, OneTold, CanUseTool
  <2> QED
    BY <2>3, <2>4, <2>5, <2>6 DEF CallStep, CallInv, CanUseTool
<1>3. ASSUME Moves(c, [hookCalls[c] EXCEPT !.at = "over"]), Result(c, "refused") PROVE CallStep(c)
  <2> DEFINE h == [hookCalls[c] EXCEPT !.at = "over"]
  <2>1. /\ h \in CallType /\ h.at = "over" /\ h.next = 1 /\ h.atStart = hookCalls[c].atStart
        /\ h.input = hookCalls[c].input /\ h.block = hookCalls[c].block
        /\ h.threw = hookCalls[c].threw
    BY <1>1 DEF CallType, Ats
  <2>2. hookCalls' = [hookCalls EXCEPT ![c] = h] /\ results' = [results EXCEPT ![c] = Append(@, "refused")]
    BY <1>3 DEF Moves, Result
  <2> HIDE DEF h
  <2>3. HookTypes'
    BY <2>1, <2>2 DEF HooksInv, HookTypes, CanUseTool
  <2>4. hookCalls'[c] = h /\ \A d \in HookCalls \ {c} : UNCHANGED CallVars(d)
    BY <2>2 DEF HooksInv, HookTypes, CanUseTool, CallVars
  <2>5. results'[c] = <<"refused">> /\ ran'[c] = 0 /\ hookTold'[c] = <<>>
    BY <1>1, <2>2 DEF HooksInv, HookTypes, CanUseTool
  <2>6. HooksAnswered(c)'
    BY <1>1, <2>1, <2>4 DEF HooksInv, CallInv, HookTypes, HooksAnswered, CanUseTool
  <2>7. CallDone(c)' /\ OneTold(c)'
    BY <1>1, <2>1, <2>4, <2>5 DEF CallDone, OneTold
  <2> QED
    BY <2>3, <2>4, <2>6, <2>7 DEF CallStep, CallInv, CanUseTool
<1> QED
  BY <1>2, <1>3 DEF CanUseTool

LEMMA SkipHookKeeps == ASSUME HooksInv, NEW c \in HookCalls, SkipHook(c) PROVE CallStep(c)
<1> DEFINE h == [hookCalls[c] EXCEPT !.next = @ + 1]
<1>1. /\ hookCalls[c] \in CallType /\ hookCalls[c].at = "hooks" /\ hookCalls[c].next <= Len(hooks)
      /\ c \notin hooks[hookCalls[c].next].matches /\ Len(hooks) \in 0 .. MaxHooks
  BY DEF SkipHook, Here, HooksInv, HookTypes
<1>2. /\ h \in CallType /\ h.at = "hooks" /\ h.next = hookCalls[c].next + 1
      /\ h.atStart = hookCalls[c].atStart /\ h.input = hookCalls[c].input /\ h.block = hookCalls[c].block
      /\ h.threw = hookCalls[c].threw
  BY <1>1, HooksAssumption DEF CallType
<1>3. hookCalls' = [hookCalls EXCEPT ![c] = h]
  BY DEF SkipHook, Moves
<1> HIDE DEF h
<1>4. HookTypes'
  BY <1>2, <1>3 DEF HooksInv, HookTypes, SkipHook
<1>5. hookCalls'[c] = h /\ \A d \in HookCalls \ {c} : UNCHANGED CallVars(d)
  BY <1>3 DEF HooksInv, HookTypes, SkipHook, CallVars
<1>6. HooksAnswered(c)'
  <2>1. /\ HooksAnswered(c) /\ hooks' = hooks /\ answers' = answers /\ Len(hooks) \in Nat
        /\ hookCalls[c].next \in Nat
    BY <1>1, HooksAssumption DEF HooksInv, CallInv, CallType, SkipHook
  <2> QED
    BY <1>1, <1>2, <1>5, <2>1, HooksAssumption DEF HooksAnswered
<1>7. CallDone(c)' /\ OneTold(c)'
  BY <1>1, <1>2, <1>5 DEF HooksInv, CallInv, CallType, CallDone, OneTold, SkipHook
<1> QED
  BY <1>4, <1>5, <1>6, <1>7 DEF CallStep, CallInv, SkipHook

LEMMA AskHookKeeps == ASSUME HooksInv, NEW c \in HookCalls, AskHook(c) PROVE CallStep(c)
<1> DEFINE h == [hookCalls[c] EXCEPT !.at = "hook"]
<1>1. /\ hookCalls[c] \in CallType /\ hookCalls[c].at = "hooks" /\ hookCalls[c].next <= Len(hooks)
  BY DEF AskHook, Here, HooksInv, HookTypes
<1>2. /\ h \in CallType /\ h.at = "hook" /\ h.next = hookCalls[c].next
      /\ h.atStart = hookCalls[c].atStart /\ h.input = hookCalls[c].input /\ h.block = hookCalls[c].block
      /\ h.threw = hookCalls[c].threw
  BY <1>1 DEF CallType, Ats
<1>3. hookCalls' = [hookCalls EXCEPT ![c] = h]
  BY DEF AskHook, Moves
<1> HIDE DEF h
<1>4. HookTypes'
  BY <1>2, <1>3 DEF HooksInv, HookTypes, AskHook
<1>5. hookCalls'[c] = h /\ \A d \in HookCalls \ {c} : UNCHANGED CallVars(d)
  BY <1>3 DEF HooksInv, HookTypes, AskHook, CallVars
<1>6. HooksAnswered(c)'
  BY <1>1, <1>2, <1>5 DEF HooksInv, CallInv, HooksAnswered, AskHook
<1>7. CallDone(c)' /\ OneTold(c)'
  BY <1>1, <1>2, <1>5 DEF HooksInv, CallInv, CallDone, OneTold, AskHook
<1> QED
  BY <1>4, <1>5, <1>6, <1>7 DEF CallStep, CallInv, AskHook

LEMMA HookAnswersKeeps == ASSUME HooksInv, NEW c \in HookCalls, HookAnswers(c) PROVE CallStep(c)
<1>1. PICK said \in {"pass", "block", "late"} :
        /\ hookCalls[c].at = "hook"
        /\ Moves(c, [hookCalls[c] EXCEPT !.at = "hooks", !.next = @ + 1, !.block = KeepsBlock(@, said)])
        /\ answers' = [answers EXCEPT ![c][hookCalls[c].next] = [said |-> said, input |-> hookCalls[c].input]]
        /\ UNCHANGED <<known, hooks, ran, outcome, hookTold, results>>
  BY DEF HookAnswers
<1> DEFINE n == hookCalls[c].next
           b == hookCalls[c].block \/ said = "block"
           h == [hookCalls[c] EXCEPT !.at = "hooks", !.next = @ + 1, !.block = b]
           a == [said |-> said, input |-> hookCalls[c].input]
           as == [answers[c] EXCEPT ![n] = a]
<1>2. /\ hookCalls[c] \in CallType /\ n \in 1 .. Len(hooks) /\ Len(hooks) \in 0 .. MaxHooks
      /\ answers[c] \in [1 .. MaxHooks -> AnswerType]
  BY <1>1 DEF HooksInv, CallInv, HooksAnswered, HookTypes, CallType
<1>3. n \in 1 .. MaxHooks /\ a \in AnswerType /\ a.said = said /\ a.input = hookCalls[c].input
  BY <1>2, HooksAssumption DEF CallType, AnswerType
<1>4. b \in BOOLEAN /\ (said = "block" => b) /\ (hookCalls[c].block => b)
  OBVIOUS
<1> HIDE DEF b
<1>5. /\ h \in CallType /\ h.at = "hooks" /\ h.next = n + 1 /\ h.atStart = hookCalls[c].atStart
      /\ h.input = hookCalls[c].input /\ h.block = b /\ h.threw = hookCalls[c].threw
  <2> DEFINE m == n + 1
             g == [hookCalls[c] EXCEPT !.at = "hooks", !.next = m, !.block = b]
  <2>1. m \in 1 .. MaxHooks + 1 /\ h = g
    BY <1>2, <1>3, HooksAssumption DEF CallType
  <2> HIDE DEF m, h, n
  <2>2. /\ g \in CallType /\ g.at = "hooks" /\ g.next = m /\ g.atStart = hookCalls[c].atStart
        /\ g.input = hookCalls[c].input /\ g.block = b /\ g.threw = hookCalls[c].threw
    BY <1>2, <1>4, <2>1 DEF CallType, Ats
  <2> QED
    BY <2>1, <2>2 DEF m
<1>6. hookCalls' = [hookCalls EXCEPT ![c] = h]
  BY <1>1 DEF Moves, KeepsBlock, b
<1> HIDE DEF h, a
<1>7. as \in [1 .. MaxHooks -> AnswerType] /\ as[n] = a /\ \A k \in 1 .. MaxHooks \ {n} : as[k] = answers[c][k]
  BY <1>2, <1>3
<1>8. answers' = [answers EXCEPT ![c] = as]
  <2>1. answers' = [answers EXCEPT ![c][n] = a] /\ answers \in [HookCalls -> [1 .. MaxHooks -> AnswerType]]
    BY <1>1 DEF HooksInv, HookTypes, a
  <2> HIDE DEF n
  <2> QED
    BY <2>1
<1> HIDE DEF as
<1>9. HookTypes'
  BY <1>1, <1>5, <1>6, <1>7, <1>8 DEF HooksInv, HookTypes
<1>10. hookCalls'[c] = h /\ answers'[c] = as /\ \A d \in HookCalls \ {c} : UNCHANGED CallVars(d)
  BY <1>1, <1>6, <1>8 DEF HooksInv, HookTypes, CallVars
<1> HIDE DEF n
<1>11. HooksAnswered(c)'
  <2>1. HooksAnswered(c) /\ hooks' = hooks /\ n = hookCalls[c].next
    BY <1>1 DEF HooksInv, CallInv, n
  <2>2. ASSUME NEW k \in 1 .. MaxHooks, k # n
        PROVE  /\ k < n + 1 /\ c \in hooks[k].matches => as[k].said # "none"
               /\ as[k].said # "none" =>
                    k < n + 1 /\ as[k].input = h.input /\ (as[k].said = "block" => b \/ h.threw)
    <3>1. as[k] = answers[c][k]
      BY <1>7, <2>2
    <3> QED
      BY <1>3, <1>4, <1>5, <2>1, <2>2, <3>1 DEF HooksAnswered
  <2>3. as[n].said # "none" /\ as[n].input = h.input /\ (as[n].said = "block" => b) /\ n < n + 1
    BY <1>3, <1>4, <1>5, <1>7
  <2>4. n + 1 <= Len(hooks) + 1 /\ h.atStart <= Len(hooks)
    BY <1>2, <1>5, <2>1 DEF HooksAnswered
  <2> QED
    BY <1>5, <1>10, <2>1, <2>2, <2>3, <2>4 DEF HooksAnswered
<1>12. CallDone(c)' /\ OneTold(c)'
  BY <1>1, <1>5, <1>10 DEF HooksInv, CallInv, CallDone, OneTold
<1> QED
  BY <1>1, <1>9, <1>10, <1>11, <1>12 DEF CallStep, CallInv

LEMMA MatcherThrowsKeeps == ASSUME HooksInv, NEW c \in HookCalls, MatcherThrows(c) PROVE CallStep(c)
<1> DEFINE h == [hookCalls[c] EXCEPT !.at = "tool", !.block = FALSE, !.threw = TRUE]
<1>1. /\ hookCalls[c] \in CallType /\ hookCalls[c].at = "hooks" /\ hookCalls[c].next <= Len(hooks)
      /\ ~hooks[hookCalls[c].next].valid
  BY DEF MatcherThrows, Here, HooksInv, HookTypes
<1>2. /\ h \in CallType /\ h.at = "tool" /\ h.next = hookCalls[c].next /\ h.atStart = hookCalls[c].atStart
      /\ h.input = hookCalls[c].input /\ ~h.block /\ h.threw
  BY <1>1 DEF CallType, Ats
<1>3. hookCalls' = [hookCalls EXCEPT ![c] = h] /\ ran' = [ran EXCEPT ![c] = hookCalls[c].input]
  BY DEF MatcherThrows, Moves
<1> HIDE DEF h
<1>4. HookTypes'
  <2>1. hookCalls[c].input \in 0 .. 2
    BY <1>1 DEF CallType
  <2> QED
    BY <1>2, <1>3, <2>1 DEF HooksInv, HookTypes, MatcherThrows
<1>5. hookCalls'[c] = h /\ ran'[c] = h.input /\ \A d \in HookCalls \ {c} : UNCHANGED CallVars(d)
  BY <1>2, <1>3 DEF HooksInv, HookTypes, MatcherThrows, CallVars
<1>6. HooksAnswered(c)'
  BY <1>1, <1>2, <1>5 DEF HooksInv, CallInv, HooksAnswered, MatcherThrows
<1>7. h.input # 0
  BY <1>1, <1>2 DEF CallType
<1>8. CallDone(c)' /\ OneTold(c)'
  BY <1>1, <1>2, <1>5, <1>7 DEF HooksInv, CallInv, CallDone, OneTold, MatcherThrows
<1> QED
  BY <1>4, <1>5, <1>6, <1>8 DEF CallStep, CallInv, MatcherThrows

LEMMA HooksEndKeeps == ASSUME HooksInv, NEW c \in HookCalls, HooksEnd(c) PROVE CallStep(c)
<1> DEFINE to == IF hookCalls[c].block THEN "over" ELSE "tool"
           h == [hookCalls[c] EXCEPT !.at = to]
<1>1. /\ hookCalls[c] \in CallType /\ hookCalls[c].at = "hooks" /\ ~hookCalls[c].threw
      /\ ran[c] = 0 /\ results[c] = <<>> /\ hookTold[c] = <<>> /\ Len(hooks) \in Nat
      /\ hookCalls[c].atStart < hookCalls[c].next
  <2>1. hookCalls[c] \in CallType /\ Len(hooks) \in Nat /\ hookCalls[c].at = "hooks"
    BY DEF HooksEnd, HooksInv, HookTypes
  <2>2. /\ ~(hookCalls[c].atStart > 0 /\ hookCalls[c].next <= Len(hooks))
        /\ hookCalls[c].atStart <= Len(hooks)
    BY DEF HooksEnd, AllAsked, Here, HooksInv, CallInv, HooksAnswered
  <2>3. hookCalls[c].next \in 1 .. MaxHooks + 1 /\ hookCalls[c].atStart \in Nat
    BY <2>1, HooksAssumption DEF CallType
  <2>4. ran[c] = 0 /\ results[c] = <<>> /\ hookTold[c] = <<>> /\ ~hookCalls[c].threw
    BY <2>1 DEF HooksInv, CallInv, CallDone
  <2> QED
    BY <2>1, <2>2, <2>3, <2>4, HooksAssumption
<1>2. /\ hookCalls' = [hookCalls EXCEPT ![c] = h]
      /\ IF hookCalls[c].block THEN Result(c, "refused") /\ UNCHANGED ran
         ELSE ran' = [ran EXCEPT ![c] = hookCalls[c].input] /\ UNCHANGED results
  BY DEF HooksEnd, Moves
<1>3. /\ h \in CallType /\ h.at = to /\ h.next = hookCalls[c].next /\ h.atStart = hookCalls[c].atStart
      /\ h.input = hookCalls[c].input /\ h.block = hookCalls[c].block
      /\ h.threw = hookCalls[c].threw
  BY <1>1 DEF CallType, Ats
<1> HIDE DEF h
<1>4. hookCalls[c].input \in 1 .. 2
  BY <1>1 DEF CallType
<1>5. HookTypes'
  <2>1. hookCalls' \in [HookCalls -> CallType]
    BY <1>2, <1>3 DEF HooksInv, HookTypes
  <2> DEFINE Rs == Seq({"refused", "ok", "failed"})
  <2>0. results \in [HookCalls -> Rs] /\ ran \in [HookCalls -> 0 .. 2]
    BY DEF HooksInv, HookTypes
  <2>2. CASE results' = [results EXCEPT ![c] = Append(@, "refused")] /\ UNCHANGED ran
    <3>1. Append(results[c], "refused") \in Rs
      BY <2>0
    <3> HIDE DEF Rs
    <3>2. results' \in [HookCalls -> Rs] /\ ran' \in [HookCalls -> 0 .. 2]
      BY <2>0, <2>2, <3>1
    <3> QED
      BY <2>1, <3>2 DEF HooksInv, HookTypes, HooksEnd, Rs
  <2>3. CASE ran' = [ran EXCEPT ![c] = hookCalls[c].input] /\ UNCHANGED results
    <3>1. ran' \in [HookCalls -> 0 .. 2]
      BY <1>4, <2>0, <2>3
    <3> QED
      BY <2>1, <2>3, <3>1 DEF HooksInv, HookTypes, HooksEnd
  <2> QED
    BY <1>2, <2>2, <2>3 DEF Result
<1>6. hookCalls'[c] = h /\ \A d \in HookCalls \ {c} : UNCHANGED CallVars(d)
  BY <1>2 DEF HooksInv, HookTypes, HooksEnd, CallVars, Result
<1>7. HooksAnswered(c)'
  BY <1>1, <1>3, <1>6 DEF HooksInv, CallInv, HooksAnswered, HooksEnd
<1>8. \/ h.block /\ ran'[c] = 0 /\ results'[c] = <<"refused">>
      \/ ~h.block /\ ran'[c] = h.input /\ results'[c] = <<>>
  BY <1>1, <1>2, <1>3 DEF HooksInv, HookTypes, Result
<1>9. CallDone(c)' /\ OneTold(c)'
  BY <1>1, <1>3, <1>4, <1>6, <1>8 DEF CallDone, OneTold, HooksEnd
<1> QED
  BY <1>5, <1>6, <1>7, <1>9 DEF CallStep, CallInv, HooksEnd

LEMMA ToolEndsKeeps == ASSUME HooksInv, NEW c \in HookCalls, ToolEnds(c) PROVE CallStep(c)
<1> DEFINE h == [hookCalls[c] EXCEPT !.at = "post"]
<1>1. hookCalls[c] \in CallType /\ hookCalls[c].at = "tool"
  BY DEF ToolEnds, HooksInv, HookTypes
<1>2. /\ h \in CallType /\ h.at = "post" /\ h.next = hookCalls[c].next
      /\ h.atStart = hookCalls[c].atStart /\ h.input = hookCalls[c].input /\ h.block = hookCalls[c].block
      /\ h.threw = hookCalls[c].threw
  BY <1>1 DEF CallType, Ats
<1>3. PICK o \in {"ok", "failed"} : hookCalls' = [hookCalls EXCEPT ![c] = h] /\ outcome' = [outcome EXCEPT ![c] = o]
  BY DEF ToolEnds, Moves
<1> HIDE DEF h
<1>4. HookTypes'
  BY <1>2, <1>3 DEF HooksInv, HookTypes, ToolEnds
<1>5. hookCalls'[c] = h /\ outcome'[c] = o /\ \A d \in HookCalls \ {c} : UNCHANGED CallVars(d)
  BY <1>3 DEF HooksInv, HookTypes, ToolEnds, CallVars
<1>6. HooksAnswered(c)' /\ OneTold(c)'
  BY <1>1, <1>2, <1>5 DEF HooksInv, CallInv, HooksAnswered, OneTold, ToolEnds
<1>7. CallDone(c)'
  BY <1>1, <1>2, <1>5 DEF HooksInv, CallInv, CallDone, ToolEnds
<1> QED
  BY <1>4, <1>5, <1>6, <1>7 DEF CallStep, CallInv, ToolEnds

LEMMA PostHooksEndKeeps == ASSUME HooksInv, NEW c \in HookCalls, PostHooksEnd(c) PROVE CallStep(c)
<1> DEFINE h == [hookCalls[c] EXCEPT !.at = "over"]
           e == PostEvents(c)
<1>1. /\ hookCalls[c] \in CallType /\ hookCalls[c].at = "post" /\ results[c] = <<>> /\ ran[c] # 0
      /\ outcome[c] \in {"ok", "failed"}
  BY DEF PostHooksEnd, HooksInv, CallInv, CallDone, HookTypes
<1>2. /\ h \in CallType /\ h.at = "over" /\ h.next = hookCalls[c].next
      /\ h.atStart = hookCalls[c].atStart /\ h.input = hookCalls[c].input /\ h.block = hookCalls[c].block
      /\ h.threw = hookCalls[c].threw
  BY <1>1 DEF CallType, Ats
<1>3. e \in Seq({"PostToolUse", "PostToolUseFailure"})
  <2>1. /\ <<"PostToolUse">> \in Seq({"PostToolUse", "PostToolUseFailure"})
        /\ <<"PostToolUseFailure">> \in Seq({"PostToolUse", "PostToolUseFailure"})
    OBVIOUS
  <2>2. e = <<"PostToolUse">> \/ e = <<"PostToolUseFailure">>
    BY DEF PostEvents
  <2> HIDE DEF e
  <2> QED
    BY <2>1, <2>2
<1>4. /\ hookCalls' = [hookCalls EXCEPT ![c] = h] /\ hookTold' = [hookTold EXCEPT ![c] = e]
      /\ results' = [results EXCEPT ![c] = Append(@, outcome[c])]
  BY DEF PostHooksEnd, Moves, Result
<1>5. \/ outcome[c] = "ok" /\ e = <<"PostToolUse">>
      \/ outcome[c] = "failed" /\ e = <<"PostToolUseFailure">>
  BY <1>1 DEF PostEvents
<1> HIDE DEF h, e
<1>6. HookTypes'
  BY <1>1, <1>2, <1>3, <1>4 DEF HooksInv, HookTypes, PostHooksEnd
<1>7. /\ hookCalls'[c] = h /\ hookTold'[c] = e /\ results'[c] = Append(results[c], outcome[c])
      /\ \A d \in HookCalls \ {c} : UNCHANGED CallVars(d)
  BY <1>4 DEF HooksInv, HookTypes, PostHooksEnd, CallVars
<1>8. results'[c] = <<outcome[c]>>
  BY <1>1, <1>7
<1>9. HooksAnswered(c)'
  BY <1>2, <1>7 DEF HooksInv, CallInv, HooksAnswered, PostHooksEnd
<1>10. CallDone(c)' /\ OneTold(c)'
  BY <1>1, <1>2, <1>5, <1>7, <1>8 DEF HooksInv, CallInv, CallDone, OneTold, PostHooksEnd
<1> QED
  BY <1>6, <1>7, <1>9, <1>10 DEF CallStep, CallInv, PostHooksEnd

\* A registered hook comes last, so that calls under way still meet it.
LEMMA RegisterHookKeeps == ASSUME HooksInv, RegisterHook PROVE HooksInv'
<1>1. PICK d \in HookDefs : hooks' = Append(hooks, d) /\ Len(hooks) < MaxHooks
  BY DEF RegisterHook
<1>2. /\ hooks' \in Seq(HookDefs) /\ Len(hooks') = Len(hooks) + 1 /\ Len(hooks) \in Nat
      /\ \A k \in 1 .. Len(hooks) : hooks'[k] = hooks[k]
  BY <1>1 DEF HooksInv, HookTypes
<1>3. HookTypes'
  BY <1>1, <1>2, HooksAssumption DEF HooksInv, HookTypes, RegisterHook
<1>4. ASSUME NEW c \in HookCalls PROVE CallInv(c)'
  <2>1. hookCalls[c] \in CallType /\ hookCalls[c].next <= Len(hooks) + 1 /\ hookCalls[c].next \in Nat
    BY HooksAssumption DEF HooksInv, CallInv, HooksAnswered, HookTypes, CallType
  <2>2. HooksAnswered(c)'
    <3>1. ASSUME NEW k \in 1 .. MaxHooks, k < hookCalls[c].next, c \in hooks'[k].matches PROVE answers[c][k].said # "none"
      <4>1. k \in 1 .. Len(hooks)
        BY <1>2, <2>1, <3>1, HooksAssumption
      <4> QED
        BY <1>2, <3>1, <4>1 DEF HooksInv, CallInv, HooksAnswered
    <3>2. /\ hookCalls[c].atStart <= Len(hooks) /\ hookCalls[c].atStart \in Nat
          /\ (hookCalls[c].at = "hook" => hookCalls[c].next <= Len(hooks))
      BY <2>1, HooksAssumption DEF HooksInv, CallInv, HooksAnswered, CallType
    <3> QED
      BY <1>2, <2>1, <3>1, <3>2 DEF HooksInv, CallInv, HooksAnswered, RegisterHook
  <2>3. CallDone(c)'
    <3>1. hookCalls[c].threw => hookCalls[c].next <= Len(hooks') /\ ~hooks'[hookCalls[c].next].valid
      <4>1. hookCalls[c].next \in 1 .. MaxHooks + 1
        BY <2>1 DEF CallType
      <4>2. hookCalls[c].threw => hookCalls[c].next <= Len(hooks) /\ ~hooks[hookCalls[c].next].valid
        BY DEF HooksInv, CallInv, CallDone
      <4> QED
        BY <1>2, <4>1, <4>2, HooksAssumption
    <3> QED
      BY <3>1 DEF HooksInv, CallInv, CallDone, RegisterHook
  <2>4. OneTold(c)'
    BY DEF HooksInv, CallInv, OneTold, RegisterHook
  <2> QED
    BY <2>2, <2>3, <2>4 DEF CallInv
<1> QED
  BY <1>3, <1>4 DEF HooksInv

LEMMA Invariance == HooksSpec => []HooksInv
<1>1. ASSUME HooksInit PROVE HooksInv
  <2> DEFINE h == [at |-> "permission", input |-> 1, next |-> 1, block |-> FALSE, atStart |-> 0, threw |-> FALSE]
             a == [said |-> "none", input |-> 0]
  <2>1. h \in CallType /\ h.at = "permission" /\ h.next = 1 /\ h.atStart = 0 /\ ~h.threw
    BY HooksAssumption DEF CallType, Ats
  <2>2. a \in AnswerType /\ a.said = "none"
    BY DEF AnswerType
  <2>3. /\ hookCalls = [c \in HookCalls |-> h]
        /\ answers = [c \in HookCalls |-> [k \in 1 .. MaxHooks |-> a]]
    BY <1>1 DEF HooksInit
  <2> HIDE DEF h, a
  <2>4. hooks \in Seq(HookDefs) /\ Len(hooks) <= MaxHooks /\ Len(hooks) \in Nat
    <3>1. CASE hooks = <<>>
      BY <3>1, HooksAssumption
    <3>2. ASSUME NEW d \in HookDefs, hooks = <<d>>
          PROVE  hooks \in Seq(HookDefs) /\ Len(hooks) <= MaxHooks /\ Len(hooks) \in Nat
      BY <3>2, HooksAssumption
    <3> QED
      BY <1>1, <3>1, <3>2 DEF HooksInit
  <2>5. HookTypes
    <3>1. hookCalls \in [HookCalls -> CallType] /\ answers \in [HookCalls -> [1 .. MaxHooks -> AnswerType]]
      BY <2>1, <2>2, <2>3
    <3>2. <<>> \in Seq({"PostToolUse", "PostToolUseFailure"}) /\ <<>> \in Seq({"refused", "ok", "failed"})
      OBVIOUS
    <3>3. known \in [HookCalls -> BOOLEAN]
      BY <1>1 DEF HooksInit
    <3> QED
      BY <1>1, <2>4, <3>1, <3>2, <3>3 DEF HooksInit, HookTypes
  <2>6. ASSUME NEW c \in HookCalls PROVE CallInv(c)
    BY <1>1, <2>1, <2>2, <2>3, <2>4, HooksAssumption DEF HooksInit, CallInv, HooksAnswered, CallDone, OneTold
  <2> QED
    BY <2>5, <2>6 DEF HooksInv
<1>2. ASSUME HooksInv, [HooksNext]_hookVars PROVE HooksInv'
  <2>1. ASSUME NEW c \in HookCalls,
               \/ UnknownTool(c) \/ CanUseTool(c) \/ SkipHook(c) \/ AskHook(c) \/ HookAnswers(c)
               \/ MatcherThrows(c) \/ HooksEnd(c) \/ ToolEnds(c) \/ PostHooksEnd(c)
        PROVE  HooksInv'
    BY <1>2, <2>1, OthersStay, UnknownToolKeeps, CanUseToolKeeps, SkipHookKeeps, AskHookKeeps, HookAnswersKeeps,
       MatcherThrowsKeeps, HooksEndKeeps, ToolEndsKeeps, PostHooksEndKeeps
  <2>2. CASE UNCHANGED hookVars
    BY <1>2, <2>2 DEF hookVars, HooksInv, HookTypes, CallInv, HooksAnswered, CallDone, OneTold
  <2> QED
    BY <1>2, <2>1, <2>2, RegisterHookKeeps DEF HooksNext
<1> QED
  BY <1>1, <1>2, PTL DEF HooksSpec

-----------------------------------------------------------------------------
\* The types of one call's steps, for any number of calls and hooks
\* (engine.ts, executeSingleTool).
THEOREM HooksTyping == HooksSpec => []HooksTypeOK
<1>1. HooksInv => HooksTypeOK
  <2> SUFFICES ASSUME HooksInv PROVE HooksTypeOK
    OBVIOUS
  <2>1. ASSUME NEW c \in HookCalls
        PROVE  hookCalls[c] \in CallType /\ answers[c] \in [1 .. MaxHooks -> AnswerType]
    BY DEF HooksInv, HookTypes
  <2> QED
    BY <2>1 DEF HooksInv, HookTypes, CallType, AnswerType, HooksTypeOK
<1> QED
  BY <1>1, Invariance, PTL

\* A tool runs only after every hook that matches it was asked about the input
\* it runs with and none blocked it, while other calls go through the same
\* list and hooks are added to it; only a matcher that throws ends the asking
\* early and drops a block (engine.ts:166-181, 527-574, hooks.ts:137-178).
THEOREM HooksAsked == HooksSpec => []HooksAreAsked
<1>1. HooksInv => HooksAreAsked
  <2> DEFINE last(c) == IF hookCalls[c].threw THEN hookCalls[c].next - 1 ELSE hookCalls[c].atStart
  <2> SUFFICES ASSUME HooksInv, NEW c \in HookCalls, ran[c] # 0
               PROVE  /\ \A h \in 1 .. last(c) : c \in hooks[h].matches => answers[c][h].said # "none"
                      /\ \A h \in 1 .. MaxHooks : answers[c][h].said # "none" =>
                           /\ answers[c][h].input = ran[c]
                           /\ answers[c][h].said = "block" => hookCalls[c].threw
                      /\ hookCalls[c].threw =>
                           hookCalls[c].next <= Len(hooks) /\ ~hooks[hookCalls[c].next].valid
    BY DEF HooksAreAsked
  <2>1. /\ hookCalls[c] \in CallType /\ (~hookCalls[c].threw => hookCalls[c].atStart < hookCalls[c].next)
        /\ ran[c] = hookCalls[c].input /\ ~hookCalls[c].block
        /\ hookCalls[c].threw => hookCalls[c].next <= Len(hooks) /\ ~hooks[hookCalls[c].next].valid
    BY DEF HooksInv, CallInv, CallDone, HookTypes
  <2>2. ASSUME NEW h \in 1 .. last(c), c \in hooks[h].matches PROVE answers[c][h].said # "none"
    <3>1. h \in 1 .. MaxHooks /\ h < hookCalls[c].next
      BY <2>1, <2>2, HooksAssumption DEF CallType
    <3> QED
      BY <2>2, <3>1 DEF HooksInv, CallInv, HooksAnswered
  <2>3. ASSUME NEW h \in 1 .. MaxHooks, answers[c][h].said # "none"
        PROVE  answers[c][h].input = ran[c] /\ (answers[c][h].said = "block" => hookCalls[c].threw)
    BY <2>1, <2>3 DEF HooksInv, CallInv, HooksAnswered
  <2> QED
    BY <2>1, <2>2, <2>3
<1> QED
  BY <1>1, Invariance, PTL

\* Every call gets one result, after the hooks were told what its tool did, if
\* it ran (engine.ts:576-608).
THEOREM OneResult == HooksSpec => []OneOutcome
<1>1. HooksInv => OneOutcome
  <2> SUFFICES ASSUME HooksInv, NEW c \in HookCalls
               PROVE  /\ Len(results[c]) = (IF hookCalls[c].at = "over" THEN 1 ELSE 0)
                      /\ results[c] # <<>> =>
                           CASE results[c][1] = "ok" -> ran[c] # 0 /\ hookTold[c] = <<"PostToolUse">>
                             [] results[c][1] = "failed" -> ran[c] # 0 /\ hookTold[c] = <<"PostToolUseFailure">>
                             [] OTHER -> ran[c] = 0 /\ hookTold[c] = <<>>
    BY DEF OneOutcome
  <2>1. CASE hookCalls[c].at # "over"
    BY <2>1 DEF HooksInv, CallInv, CallDone
  <2>2. CASE results[c] = <<"refused">> /\ hookCalls[c].at = "over" /\ ran[c] = 0 /\ hookTold[c] = <<>>
    BY <2>2
  <2>3. CASE results[c] = <<"ok">> /\ hookCalls[c].at = "over" /\ ran[c] # 0 /\ hookTold[c] = <<"PostToolUse">>
    BY <2>3
  <2>4. CASE /\ results[c] = <<"failed">> /\ hookCalls[c].at = "over" /\ ran[c] # 0
             /\ hookTold[c] = <<"PostToolUseFailure">>
    BY <2>4
  <2> QED
    BY <2>1, <2>2, <2>3, <2>4 DEF HooksInv, CallInv, OneTold
<1> QED
  BY <1>1, Invariance, PTL

-----------------------------------------------------------------------------
(* The page that follows a preview.                                        *)

PageRequest == [kind : {"start", "stop", "status"}, task : PageTasks, n : 0 .. MaxClicks, here : BOOLEAN,
            answer : {"none"} \cup ServerStatuses]

PreviewPageInv ==
    /\ server \in [PageTasks -> ServerStatuses] /\ pageTask \in PageTasks
    /\ shows \in ({"idle"} \cup ServerStatuses) \X {"start", "look"}
    /\ poll \in [ref : BOOLEAN, lost : BOOLEAN] /\ clicks \in 0 .. MaxClicks
    /\ requests \subseteq PageRequest
    /\ StartsAreFollowed

LEMMA PageStarts == ASSUME PageInit PROVE PreviewPageInv
  BY PageAssumption DEF PageInit, PreviewPageInv, StartsAreFollowed, Asked, PageRequest, ServerStatuses

LEMMA PageShows == PreviewPageInv => PageTypeOK /\ StartsAreFollowed
  BY DEF PreviewPageInv, PageTypeOK, PageRequest

LEMMA AskedIsRequest ==
    ASSUME NEW k \in {"start", "stop", "status"}, NEW t \in PageTasks, NEW n \in 0 .. MaxClicks
    PROVE  Asked(k, t, n) \in PageRequest /\ Asked(k, t, n).kind = k /\ Asked(k, t, n).here
  BY DEF Asked, PageRequest

LEMMA PageUserKeeps ==
    ASSUME PreviewPageInv, StartPreview \/ StopPreview \/ ChangeTask \/ Remount \/ PollTicks PROVE PreviewPageInv'
<1>0. 0 \in 0 .. MaxClicks /\ (Click => clicks' \in 0 .. MaxClicks)
  BY PageAssumption DEF PreviewPageInv, Click
<1>a. poll' = [poll EXCEPT !.ref = FALSE] => poll' \in [ref : BOOLEAN, lost : BOOLEAN]
  BY DEF PreviewPageInv
<1>b. clicks \in 0 .. MaxClicks /\ pageTask \in PageTasks
  BY DEF PreviewPageInv
<1>1. CASE StartPreview
  <2> DEFINE c == Asked("start", pageTask, clicks')
  <2>1. c \in PageRequest /\ c.kind = "start" /\ c.here
    BY <1>0, <1>b, <1>1, AskedIsRequest DEF StartPreview
  <2>2. requests' = requests \cup {c}
    BY <1>1 DEF StartPreview
  <2> HIDE DEF c
  <2>3. requests' \subseteq PageRequest /\ poll' \in [ref : BOOLEAN, lost : BOOLEAN]
    BY <1>1, <1>a, <2>1, <2>2 DEF StartPreview, PreviewPageInv
  <2>4. StartsAreFollowed'
    BY <2>1, <2>2 DEF StartsAreFollowed
  <2>5. shows' \in ({"idle"} \cup ServerStatuses) \X {"start", "look"}
    BY <1>1 DEF StartPreview, ServerStatuses
  <2> QED
    BY <1>0, <1>1, <2>3, <2>4, <2>5 DEF StartPreview, PreviewPageInv
<1>2. CASE StopPreview
  <2> DEFINE c == Asked("stop", pageTask, clicks')
  <2>1. c \in PageRequest /\ c.kind = "stop" /\ c.here
    BY <1>0, <1>b, <1>2, AskedIsRequest DEF StopPreview
  <2>2. requests' = requests \cup {c}
    BY <1>2 DEF StopPreview
  <2> HIDE DEF c
  <2>3. requests' \subseteq PageRequest /\ poll' \in [ref : BOOLEAN, lost : BOOLEAN]
    BY <1>2, <1>a, <2>1, <2>2 DEF StopPreview, PreviewPageInv
  <2>4. StartsAreFollowed'
    BY <2>1, <2>2 DEF StartsAreFollowed
  <2> QED
    BY <1>0, <1>2, <2>3, <2>4 DEF StopPreview, PreviewPageInv
<1>3. CASE ChangeTask
  <2>0. PICK t \in PageTasks : /\ pageTask' = t
                              /\ requests' = requests \cup {Asked("status", t, clicks'), Asked("stop", t, clicks')}
    BY <1>3 DEF ChangeTask
  <2> DEFINE c == Asked("status", t, clicks')
             d == Asked("stop", t, clicks')
  <2>1. c \in PageRequest /\ d \in PageRequest /\ d.kind = "stop" /\ d.here
    BY <1>0, <1>3, AskedIsRequest DEF ChangeTask
  <2>2. requests' = requests \cup {c, d}
    BY <2>0
  <2> HIDE DEF c, d
  <2>3. requests' \subseteq PageRequest /\ poll' \in [ref : BOOLEAN, lost : BOOLEAN]
    BY <1>3, <1>a, <2>1, <2>2 DEF ChangeTask, PreviewPageInv
  <2>4. StartsAreFollowed'
    BY <2>1, <2>2 DEF StartsAreFollowed
  <2> QED
    BY <1>0, <1>3, <2>0, <2>3, <2>4 DEF ChangeTask, PreviewPageInv
<1>4. CASE Remount
  <2>1. \A c \in PageRequest : [c EXCEPT !.here = FALSE] \in PageRequest
    BY DEF PageRequest
  <2>2. requests' \subseteq PageRequest
    BY <1>0, <1>4, <2>1, AskedIsRequest DEF Remount, PreviewPageInv
  <2> QED
    BY <1>0, <1>4, <2>2 DEF Remount, PreviewPageInv, StartsAreFollowed, ServerStatuses
<1>5. CASE PollTicks
  BY <1>0, <1>5, AskedIsRequest DEF PollTicks, PreviewPageInv, StartsAreFollowed
<1> QED
  BY <1>1, <1>2, <1>3, <1>4, <1>5

LEMMA PageServerKeeps == ASSUME PreviewPageInv, ServerMoves \/ Serve PROVE PreviewPageInv'
<1>1. CASE ServerMoves
  BY <1>1 DEF ServerMoves, PreviewPageInv, StartsAreFollowed, ServerStatuses
<1>2. CASE Serve
  <2>1. PICK c \in requests : \E o \in Outcomes(c) :
          /\ server' = [server EXCEPT ![c.task] = o[1]]
          /\ requests' = (requests \ {c}) \cup {[c EXCEPT !.answer = o[2]]}
    BY <1>2 DEF Serve
  <2>2. PICK o \in Outcomes(c) :
          /\ server' = [server EXCEPT ![c.task] = o[1]]
          /\ requests' = (requests \ {c}) \cup {[c EXCEPT !.answer = o[2]]}
    BY <2>1
  <2>3. c \in PageRequest /\ o[1] \in ServerStatuses /\ o[2] \in ServerStatuses
    BY <2>1, <2>2 DEF PreviewPageInv, Outcomes, PageRequest, ServerStatuses
  <2> DEFINE d == [c EXCEPT !.answer = o[2]]
  <2>4. d \in PageRequest /\ d.kind = c.kind /\ d.here = c.here
    BY <2>3 DEF PageRequest
  <2>5. requests' = (requests \ {c}) \cup {d}
    BY <2>2
  <2> HIDE DEF d
  <2>6. server' \in [PageTasks -> ServerStatuses] /\ requests' \subseteq PageRequest
    BY <2>2, <2>3, <2>4, <2>5 DEF PreviewPageInv
  <2>7. StartsAreFollowed'
    BY <1>2, <2>4, <2>5 DEF Serve, PreviewPageInv, StartsAreFollowed
  <2> QED
    BY <1>2, <2>6, <2>7 DEF Serve, PreviewPageInv
<1> QED
  BY <1>1, <1>2

LEMMA PageHears == ASSUME PreviewPageInv, Hears \/ CallFails PROVE PreviewPageInv'
<1>1. CASE Hears
  <2>1. PICK c \in requests : /\ c.answer # "none" /\ requests' = requests \ {c}
                              /\ IF ~c.here THEN OldHears(c) ELSE IF c.kind = "stop" THEN ShowStopped ELSE ShowAnswer(c)
    BY <1>1 DEF Hears
  <2>2. c \in PageRequest /\ requests' \subseteq PageRequest /\ c.answer \in ServerStatuses
    BY <2>1 DEF PreviewPageInv, PageRequest
  <2>3. CASE ~c.here
    BY <1>1, <2>1, <2>2, <2>3 DEF Hears, OldHears, PreviewPageInv, StartsAreFollowed, PageRequest
  <2>4. CASE c.here /\ c.kind = "stop"
    BY <1>1, <2>1, <2>2, <2>4 DEF Hears, ShowStopped, PreviewPageInv, StartsAreFollowed
  <2>5. CASE c.here /\ c.kind # "stop"
    <3>1. ShowAnswer(c)
      BY <2>1, <2>5
    <3>2. shows' \in ({"idle"} \cup ServerStatuses) \X {"start", "look"}
      BY <2>2, <3>1 DEF ShowAnswer, ServerStatuses
    <3>3. poll' \in [ref : BOOLEAN, lost : BOOLEAN]
      BY <3>1 DEF ShowAnswer, PreviewPageInv, Polled
    <3>4. StartsAreFollowed'
      BY <3>1 DEF ShowAnswer, PreviewPageInv, StartsAreFollowed, Polled
    <3> QED
      BY <1>1, <2>2, <3>2, <3>3, <3>4 DEF Hears, PreviewPageInv
  <2> QED
    BY <2>3, <2>4, <2>5
<1>2. CASE CallFails
  BY <1>2 DEF CallFails, PreviewPageInv, StartsAreFollowed, PageRequest, ServerStatuses
<1> QED
  BY <1>1, <1>2

LEMMA PageKeeps == ASSUME PreviewPageInv, [PageNext]_pageVars PROVE PreviewPageInv'
  BY PageUserKeeps, PageServerKeeps, PageHears DEF PageNext, pageVars, PreviewPageInv, StartsAreFollowed

\* A page that asked for a preview and shows it starting is told when that is
\* over, whatever answers come late, get lost, or belong to the task before
\* (useVitePreview.ts).
THEOREM StartsFollowed == PageSpec => [](PageTypeOK /\ StartsAreFollowed)
<1>1. PageInit => PreviewPageInv
  BY PageStarts
<1>2. PreviewPageInv /\ [PageNext]_pageVars => PreviewPageInv'
  BY PageKeeps
<1>3. PreviewPageInv => PageTypeOK /\ StartsAreFollowed
  BY PageShows
<1> QED
  BY <1>1, <1>2, <1>3, PTL DEF PageSpec

-----------------------------------------------------------------------------
(* The agent's streams.                                                    *)

StreamType ==
    [kind : {"none", "chat", "plan", "execute", "run"},
     pc : {"none", "made", "start", "query", "parse", "failed", "missing", "last", "end", "closed"},
     agent : Streams \cup {0}, plan : Streams \cup {0}, out : {"open", "done", "broken", "extra"},
     todo : Seq(Blocks), texts : SUBSET Texts, ids : SUBSET Tools, twice : BOOLEAN, early : BOOLEAN]

AgentTypes ==
    /\ sess \subseteq Streams /\ stopped \subseteq Streams /\ store \subseteq Streams
    /\ inAgent \subseteq Streams /\ gone \subseteq Streams
    /\ own \subseteq (Streams \cup {0}) \X Streams /\ st \in [Streams -> StreamType]

\* A stream has sent its last event when it ends and not before; it can be
\* stopped from its opening on; its agent knows it from its first event to the
\* last; and the plan it executes stays in the store.
StreamInv(s) ==
    /\ Pc(s) \notin {"end", "closed"} => st[s].out = "open"
    /\ Pc(s) = "end" => st[s].out = "done"
    /\ Pc(s) = "closed" => st[s].out \in {"done", "broken"} \/ (s \in gone /\ st[s].out = "open")
    /\ st[s].twice = FALSE /\ Pc(s) # "missing"
    /\ Pc(s) \notin {"none", "closed"} /\ st[s].kind # "chat" => s \in sess \cup stopped
    /\ st[s].kind = "execute" => st[s].plan \in store
    /\ Pc(s) \in {"none", "made"} => s \notin inAgent
    /\ s \in inAgent /\ st[s].kind # "plan" => Pc(s) \notin {"end", "closed"} \/ st[s].early

AgentInv == AgentTypes /\ \A s \in Streams : StreamInv(s)

LEMMA AgentStarts == ASSUME NodeAgentInit PROVE AgentInv
<1>1. <<>> \in Seq(Blocks)
  OBVIOUS
<1>2. Unopened \in StreamType
  BY <1>1 DEF Unopened, StreamType
<1> QED
  BY <1>2 DEF NodeAgentInit, AgentInv, AgentTypes, StreamInv, Pc, Unopened

LEMMA AgentShows ==
    AgentInv => /\ NodeAgentTypeOK /\ DoneIsLast /\ CallsSentOnce /\ StreamsCanBeStopped
                /\ PlansCanBeExecuted /\ SessionsForgotten
<1> SUFFICES ASSUME AgentInv
             PROVE  /\ NodeAgentTypeOK /\ DoneIsLast /\ CallsSentOnce /\ StreamsCanBeStopped
                    /\ PlansCanBeExecuted /\ SessionsForgotten
  OBVIOUS
<1>1. NodeAgentTypeOK
  BY DEF AgentInv, AgentTypes, NodeAgentTypeOK, StreamType
<1>2. DoneIsLast /\ CallsSentOnce
  BY DEF AgentInv, StreamInv, DoneIsLast, CallsSentOnce, Pc
<1>3. StreamsCanBeStopped /\ PlansCanBeExecuted /\ SessionsForgotten
  BY DEF AgentInv, AgentTypes, StreamInv, StreamsCanBeStopped, PlansCanBeExecuted, SessionsForgotten, Pc
<1> QED
  BY <1>1, <1>2, <1>3

\* What a step of stream s has to show: the others keep what they have.
StreamStep(s) ==
    /\ AgentTypes' /\ StreamInv(s)'
    /\ store \subseteq store'
    /\ \A d \in Streams \ {s} :
         /\ st'[d] = st[d] /\ (d \in gone' <=> d \in gone) /\ (d \in inAgent' <=> d \in inAgent)
         /\ d \in sess \cup stopped => d \in sess' \cup stopped'

LEMMA StreamsStay == ASSUME AgentInv, NEW s \in Streams, StreamStep(s) PROVE AgentInv'
<1> SUFFICES ASSUME NEW d \in Streams, d # s PROVE StreamInv(d)'
  BY DEF AgentInv, StreamStep
<1>1. /\ StreamInv(d) /\ st'[d] = st[d] /\ (d \in gone' <=> d \in gone) /\ (d \in inAgent' <=> d \in inAgent)
      /\ d \in sess \cup stopped => d \in sess' \cup stopped'
      /\ store \subseteq store'
  BY DEF AgentInv, StreamStep
<1> QED
  BY <1>1 DEF StreamInv, Pc

\* The same for a step that sets the stream's record to r.
LEMMA SetsRecord ==
    ASSUME AgentInv, NEW s \in Streams, NEW r \in StreamType, Turns(s, r),
           sess \subseteq sess', sess' \subseteq sess \cup {s}, stopped' = stopped, gone' = gone,
           store \subseteq store', store' \subseteq Streams,
           own' \subseteq (Streams \cup {0}) \X Streams,
           inAgent' = inAgent \/ inAgent' = inAgent \cup {s} \/ inAgent' = inAgent \ {s},
           r.pc \notin {"end", "closed"} => r.out = "open",
           r.pc = "end" => r.out = "done",
           r.pc = "closed" => r.out \in {"done", "broken"} \/ (s \in gone /\ r.out = "open"),
           r.twice = FALSE /\ r.pc # "missing",
           r.pc \notin {"none", "closed"} /\ r.kind # "chat" => s \in sess' \cup stopped,
           r.kind = "execute" => r.plan \in store',
           r.pc \in {"none", "made"} => s \notin inAgent',
           s \in inAgent' /\ r.kind # "plan" => r.pc \notin {"end", "closed"} \/ r.early
    PROVE  AgentInv'
<1>1. st' = [st EXCEPT ![s] = r] /\ st \in [Streams -> StreamType]
  BY DEF Turns, AgentInv, AgentTypes
<1>2. st'[s] = r /\ st' \in [Streams -> StreamType] /\ \A d \in Streams \ {s} : st'[d] = st[d]
  BY <1>1
<1>3. AgentTypes'
  BY <1>2 DEF AgentInv, AgentTypes
<1>4. StreamInv(s)'
  BY <1>2 DEF StreamInv, Pc
<1>5. StreamStep(s)
  BY <1>2, <1>3, <1>4 DEF StreamStep
<1> QED
  BY <1>5, StreamsStay

LEMMA NewStream ==
    ASSUME AgentInv, NEW s \in Streams, Pc(s) = "none"
    PROVE  /\ Unopened \in StreamType /\ s \notin inAgent
           /\ sess \subseteq Streams /\ store \subseteq Streams /\ own \subseteq (Streams \cup {0}) \X Streams
<1>1. <<>> \in Seq(Blocks)
  OBVIOUS
<1> QED
  BY <1>1 DEF Unopened, StreamType, AgentInv, AgentTypes, StreamInv

LEMMA ChatKeeps == ASSUME AgentInv, NEW s \in Streams, Chat(s) PROVE AgentInv'
<1>1. Pc(s) = "none"
  BY DEF Chat
<1>2. PICK pc \in {"start", "failed"} : Turns(s, [Unopened EXCEPT !.kind = "chat", !.pc = pc])
  BY DEF Chat
<1>3. PICK r \in StreamType : r = [Unopened EXCEPT !.kind = "chat", !.pc = pc]
  BY <1>1, NewStream DEF StreamType
<1>4. r.pc \in {"start", "failed"} /\ r.kind = "chat" /\ r.out = "open" /\ r.twice = FALSE
  BY <1>3 DEF Unopened
<1> QED
  BY <1>1, <1>2, <1>3, <1>4, NewStream, SetsRecord DEF Chat

LEMMA AskKeeps == ASSUME AgentInv, NEW s \in Streams, Ask(s) PROVE AgentInv'
<1>1. Pc(s) = "none"
  BY DEF Ask
<1>2. PICK k \in {"plan", "run"}, a \in {0, s} :
          Turns(s, [Unopened EXCEPT !.kind = k, !.pc = "made", !.agent = a])
  BY DEF Ask
<1>3. PICK r \in StreamType : r = [Unopened EXCEPT !.kind = k, !.pc = "made", !.agent = a]
  BY <1>1, NewStream DEF StreamType
<1>4. r.pc = "made" /\ r.kind # "execute" /\ r.out = "open" /\ r.twice = FALSE
  BY <1>3 DEF Unopened
<1> QED
  BY <1>1, <1>2, <1>3, <1>4, NewStream, SetsRecord DEF Ask

LEMMA ExecuteKeeps == ASSUME AgentInv, NEW s \in Streams, ExecutePlan(s) PROVE AgentInv'
<1>1. Pc(s) = "none" /\ UNCHANGED <<stopped, store, own, inAgent, gone>>
  BY Zenon DEF ExecutePlan
<1>2. PICK p \in Streams, a \in {0, s} :
          /\ p \in store /\ sess' = sess \cup {s}
          /\ Turns(s, [Unopened EXCEPT !.kind = "execute", !.pc = "made", !.agent = a, !.plan = p])
  BY Zenon DEF ExecutePlan
<1>3. PICK r \in StreamType : r = [Unopened EXCEPT !.kind = "execute", !.pc = "made", !.agent = a, !.plan = p]
  BY <1>1, NewStream DEF StreamType
<1>4. r.pc = "made" /\ r.plan = p /\ r.out = "open" /\ r.twice = FALSE
  BY <1>3 DEF Unopened
<1>5. Turns(s, r)
  BY <1>2, <1>3
<1> QED
  BY <1>1, <1>2, <1>4, <1>5, NewStream, SetsRecord

LEMMA SessionStarts == ASSUME AgentInv, NEW s \in Streams, StartSession(s) PROVE AgentInv'
<1>0. /\ st[s] \in StreamType /\ StreamInv(s) /\ Pc(s) = "made" /\ s \notin inAgent /\ st[s].out = "open"
      /\ sess \subseteq Streams /\ store \subseteq Streams /\ own \subseteq (Streams \cup {0}) \X Streams
      /\ st[s].twice = FALSE
  BY DEF StartSession, AgentInv, AgentTypes, StreamInv
<1>a. /\ UNCHANGED <<sess, stopped, store, own, gone>>
      /\ st[s].kind = "execute" => st[s].plan \in store
      /\ st[s].kind # "chat" => s \in sess \cup stopped
  BY <1>0 DEF StartSession, StreamInv
<1>1. CASE Turns(s, [st[s] EXCEPT !.pc = "closed", !.out = "broken"]) /\ UNCHANGED inAgent
  <2>1. PICK r \in StreamType : r = [st[s] EXCEPT !.pc = "closed", !.out = "broken"]
    BY <1>0 DEF StreamType
  <2>2. r.pc = "closed" /\ r.out = "broken" /\ r.twice = FALSE /\ r.kind = st[s].kind /\ r.plan = st[s].plan
    BY <1>0, <2>1 DEF StreamType
  <2>3. Turns(s, r) /\ inAgent' = inAgent
    BY <1>1, <2>1
  <2> QED
    BY <1>0, <1>a, <2>2, <2>3, SetsRecord
<1>2. CASE ~(Turns(s, [st[s] EXCEPT !.pc = "closed", !.out = "broken"]) /\ UNCHANGED inAgent)
  <2>1. st[s].kind # "execute" \/ PlanFound(st[s].agent, st[s].plan)
    BY <1>0 DEF PlanFound, StreamInv
  <2>2. /\ Turns(s, IF s \in gone THEN [st[s] EXCEPT !.pc = "closed", !.early = TRUE]
                    ELSE [st[s] EXCEPT !.pc = "start"])
        /\ inAgent' = inAgent \cup {s}
    BY <1>2, <2>1 DEF StartSession
  <2>3. CASE s \in gone
    <3>1. PICK r \in StreamType : r = [st[s] EXCEPT !.pc = "closed", !.early = TRUE]
      BY <1>0 DEF StreamType
    <3>2. r.pc = "closed" /\ r.out = "open" /\ r.twice = FALSE /\ r.kind = st[s].kind /\ r.plan = st[s].plan /\ r.early
      BY <1>0, <3>1 DEF StreamType
    <3>3. Turns(s, r)
      BY <2>2, <2>3, <3>1
    <3> QED
      BY <1>0, <1>a, <2>2, <2>3, <3>2, <3>3, SetsRecord
  <2>4. CASE s \notin gone
    <3>1. PICK r \in StreamType : r = [st[s] EXCEPT !.pc = "start"]
      BY <1>0 DEF StreamType
    <3>2. r.pc = "start" /\ r.out = "open" /\ r.twice = FALSE /\ r.kind = st[s].kind /\ r.plan = st[s].plan
      BY <1>0, <3>1 DEF StreamType
    <3>3. Turns(s, r)
      BY <2>2, <2>4, <3>1
    <3> QED
      BY <1>0, <1>a, <2>2, <3>2, <3>3, SetsRecord
  <2> QED
    BY <2>3, <2>4
<1> QED
  BY <1>1, <1>2

\* A step that only changes where the stream is, from one open state to another.
LEMMA StreamMoves ==
    ASSUME AgentInv, NEW s \in Streams, Pc(s) \in {"start", "query", "parse"},
           NEW pc \in {"query", "parse", "failed", "last"},
           Turns(s, [st[s] EXCEPT !.pc = pc]), UNCHANGED <<sess, stopped, store, own, inAgent, gone>>
    PROVE  AgentInv'
<1>0. st[s] \in StreamType /\ StreamInv(s) /\ st[s].out = "open" /\ st[s].twice = FALSE
      /\ sess \subseteq Streams /\ store \subseteq Streams /\ own \subseteq (Streams \cup {0}) \X Streams
  BY DEF AgentInv, AgentTypes, StreamInv
<1>1. PICK r \in StreamType : r = [st[s] EXCEPT !.pc = pc]
  BY <1>0 DEF StreamType
<1>2. r.pc = pc /\ r.out = "open" /\ r.twice = FALSE /\ r.kind = st[s].kind /\ r.plan = st[s].plan
  BY <1>0, <1>1 DEF StreamType
<1>3. /\ Turns(s, r)
      /\ st[s].kind = "execute" => st[s].plan \in store
      /\ st[s].kind # "chat" => s \in sess \cup stopped
  BY <1>0, <1>1 DEF StreamInv
<1> QED
  BY <1>0, <1>2, <1>3, SetsRecord

\* An event is sent, or the stream closes because nobody hears it.
LEMMA Sends ==
    ASSUME AgentInv, NEW s \in Streams, Pc(s) \in {"query", "parse", "failed"}, NEW n \in StreamType,
           n.pc \in {"query", "last"}, n.out = "open", n.twice = FALSE, n.kind = st[s].kind, n.plan = st[s].plan,
           NEW ev, ev # "done", Send(s, n, ev), UNCHANGED <<sess, stopped, gone>>,
           store \subseteq store', store' \subseteq Streams, own' \subseteq (Streams \cup {0}) \X Streams
    PROVE  AgentInv'
<1>0. st[s] \in StreamType /\ StreamInv(s) /\ sess \subseteq Streams /\ Pc(s) # "made"
  BY DEF AgentInv, AgentTypes
<1>1. CASE s \in gone
  <2>1. (Pc(s) = "made") = FALSE /\ <<>> \in Seq(Blocks)
    BY <1>0
  <2>2. PICK r \in StreamType : r = [n EXCEPT !.pc = "closed", !.todo = <<>>, !.early = FALSE]
    BY <2>1 DEF StreamType
  <2>3. r.pc = "closed" /\ r.out = "open" /\ r.twice = FALSE /\ r.kind = st[s].kind /\ r.plan = st[s].plan
    BY <2>2 DEF StreamType
  <2>4. Turns(s, r) /\ inAgent' = Forgets(s)
    BY <1>1, <2>1, <2>2 DEF Send
  <2> QED
    BY <1>0, <1>1, <2>3, <2>4, SetsRecord DEF StreamInv, Forgets
<1>2. CASE s \notin gone
  <2>1. After(n.out, ev) = "open"
    BY DEF After
  <2>2. [n EXCEPT !.out = After(@, ev)] = [n EXCEPT !.out = "open"]
    BY <2>1
  <2>3. PICK r \in StreamType : r = [n EXCEPT !.out = "open"]
    BY DEF StreamType
  <2>4. r.pc = n.pc /\ r.out = "open" /\ r.twice = FALSE /\ r.kind = st[s].kind /\ r.plan = st[s].plan
    BY <2>3 DEF StreamType
  <2>5. Turns(s, r) /\ inAgent' = inAgent
    BY <1>2, <2>2, <2>3 DEF Send
  <2> QED
    BY <1>0, <2>4, <2>5, SetsRecord DEF StreamInv
<1> QED
  BY <1>1, <1>2

LEMMA QueryKeeps ==
    ASSUME AgentInv, NEW s \in Streams, Query(s) \/ QueryOver(s) PROVE AgentInv'
<1>1. CASE Query(s)
  BY <1>1, StreamMoves DEF Query
<1>2. CASE QueryOver(s)
  <2>1. PICK pc \in {IF st[s].kind = "plan" THEN "parse" ELSE "last", "failed"} :
            Turns(s, [st[s] EXCEPT !.pc = pc])
    BY <1>2 DEF QueryOver
  <2>2. pc \in {"query", "parse", "failed", "last"} /\ Pc(s) = "query"
    BY <1>2, <2>1 DEF QueryOver
  <2> QED
    BY <1>2, <2>1, <2>2, StreamMoves DEF QueryOver
<1> QED
  BY <1>1, <1>2

LEMMA MessageKeeps == ASSUME AgentInv, NEW s \in Streams, Message(s) PROVE AgentInv'
<1>0. /\ st[s] \in StreamType /\ StreamInv(s) /\ st[s].out = "open" /\ st[s].twice = FALSE /\ Pc(s) = "query"
      /\ sess \subseteq Streams /\ store \subseteq Streams /\ own \subseteq (Streams \cup {0}) \X Streams
      /\ UNCHANGED <<sess, stopped, store, own, inAgent, gone>>
  BY DEF Message, AgentInv, AgentTypes, StreamInv
<1>1. CASE s \in stopped
  <2>1. PICK pc \in {"parse", "last"} : pc = IF st[s].kind = "plan" THEN "parse" ELSE "last"
    OBVIOUS
  <2>2. Turns(s, [st[s] EXCEPT !.pc = pc])
    BY <1>1, <2>1 DEF Message
  <2> QED
    BY <1>0, <2>2, StreamMoves
<1>2. CASE s \notin stopped
  <2>1. PICK b \in Blocks, c \in Blocks : Turns(s, [st[s] EXCEPT !.todo = <<b, c>>])
    BY <1>2 DEF Message
  <2>2. <<b, c>> \in Seq(Blocks)
    OBVIOUS
  <2>3. PICK r \in StreamType : r = [st[s] EXCEPT !.todo = <<b, c>>]
    BY <1>0, <2>2 DEF StreamType
  <2>4. r.pc = "query" /\ r.out = "open" /\ r.twice = FALSE /\ r.kind = st[s].kind /\ r.plan = st[s].plan
    BY <1>0, <2>3 DEF StreamType, Pc
  <2>5. /\ Turns(s, r)
        /\ st[s].kind = "execute" => st[s].plan \in store
        /\ st[s].kind # "chat" => s \in sess \cup stopped
    BY <1>0, <2>1, <2>3 DEF StreamInv
  <2> QED
    BY <1>0, <2>4, <2>5, SetsRecord
<1> QED
  BY <1>1, <1>2

LEMMA BlockKeeps == ASSUME AgentInv, NEW s \in Streams, SendBlock(s) PROVE AgentInv'
<1> DEFINE r == st[s]
           b == Head(r.todo)
<1>0. /\ r \in StreamType /\ StreamInv(s) /\ r.out = "open" /\ r.twice = FALSE /\ Pc(s) = "query" /\ r.pc = "query"
      /\ sess \subseteq Streams /\ store \subseteq Streams /\ own \subseteq (Streams \cup {0}) \X Streams
      /\ UNCHANGED <<sess, stopped, store, own, gone>> /\ r.todo # <<>>
  BY DEF SendBlock, AgentInv, AgentTypes, StreamInv, Pc
<1>1. b \in Blocks /\ Tail(r.todo) \in Seq(Blocks)
  <2>1. r.todo \in Seq(Blocks)
    BY <1>0 DEF StreamType
  <2> QED
    BY <1>0, <2>1
<1>2. (b[1] = "text" => b[2] \in Texts) /\ (b[1] = "tool" => b[2] \in Tools)
  BY <1>1 DEF Blocks
<1> DEFINE X == IF b[1] = "text" /\ r.kind # "plan" THEN r.texts \cup {b[2]} ELSE r.texts
           Y == IF b[1] = "tool" /\ r.kind # "plan" THEN r.ids \cup {b[2]} ELSE r.ids
           next == [r EXCEPT !.todo = Tail(@),
                             !.texts = IF b[1] = "text" /\ r.kind # "plan" THEN @ \cup {b[2]} ELSE @,
                             !.ids = IF b[1] = "tool" /\ r.kind # "plan" THEN @ \cup {b[2]} ELSE @,
                             !.twice = @ \/ (b[1] = "tool" /\ b[2] \in r.ids)]
           sent == IF r.kind = "plan" THEN b[1] = "text" ELSE IsNew(r, b)
<1>3. (sent /\ Send(s, next, b[1])) \/ (~sent /\ Turns(s, [r EXCEPT !.todo = Tail(@)]) /\ UNCHANGED inAgent)
  BY Zenon DEF SendBlock
<1>4. CASE sent /\ Send(s, next, b[1])
  <2>1. (r.twice \/ (b[1] = "tool" /\ b[2] \in r.ids)) = FALSE
    BY <1>0, <1>4 DEF IsNew
  <2>2. X \in SUBSET Texts /\ Y \in SUBSET Tools
    BY <1>0, <1>2 DEF StreamType
  <2>3. next = [r EXCEPT !.todo = Tail(@), !.texts = X, !.ids = Y, !.twice = FALSE]
    BY <2>1
  <2>4. Send(s, next, b[1])
    BY <1>4
  <2> HIDE DEF X, Y, next, sent
  <2>5. next \in StreamType /\ next.pc = "query" /\ next.out = "open" /\ next.twice = FALSE
        /\ next.kind = r.kind /\ next.plan = r.plan
    BY <1>0, <1>1, <2>2, <2>3 DEF StreamType
  <2>6. b[1] # "done"
    BY <1>1 DEF Blocks
  <2>7. PICK n \in StreamType : n = next
    BY <2>5
  <2>8. PICK ev : ev = b[1]
    OBVIOUS
  <2> HIDE DEF r, b
  <2>9. Send(s, n, ev) /\ ev # "done"
    BY <2>4, <2>6, <2>7, <2>8
  <2> QED
    BY <1>0, <2>5, <2>7, <2>9, Sends DEF r
<1>5. CASE ~sent /\ Turns(s, [r EXCEPT !.todo = Tail(@)]) /\ UNCHANGED inAgent
  <2>1. PICK q \in StreamType : q = [r EXCEPT !.todo = Tail(@)]
    BY <1>0, <1>1 DEF StreamType
  <2>2. q.pc = "query" /\ q.out = "open" /\ q.twice = FALSE /\ q.kind = r.kind /\ q.plan = r.plan
    BY <1>0, <2>1 DEF StreamType
  <2>3. /\ Turns(s, q)
        /\ r.kind = "execute" => r.plan \in store
        /\ r.kind # "chat" => s \in sess \cup stopped
    BY <1>0, <1>5, <2>1 DEF StreamInv
  <2> QED
    BY <1>0, <1>5, <2>2, <2>3, SetsRecord
<1> QED
  BY <1>3, <1>4, <1>5

LEMMA OtherKeeps ==
    ASSUME AgentInv, NEW s \in Streams, SendOther(s) \/ Parse(s) \/ SendError(s) PROVE AgentInv'
<1>0. /\ st[s] \in StreamType /\ StreamInv(s) /\ Pc(s) # "missing" /\ st[s].twice = FALSE
      /\ sess \subseteq Streams /\ store \subseteq Streams /\ own \subseteq (Streams \cup {0}) \X Streams
  BY DEF AgentInv, AgentTypes, StreamInv
<1>1. CASE SendOther(s)
  <2>1. st[s].out = "open" /\ st[s].pc = "query" /\ Pc(s) = "query" /\ Send(s, st[s], "other")
        /\ UNCHANGED <<sess, stopped, store, own, gone>>
    BY <1>0, <1>1 DEF SendOther, StreamInv, Pc
  <2>2. PICK n \in StreamType : n = st[s]
    BY <1>0
  <2>3. Send(s, n, "other")
    BY <2>1, <2>2
  <2> QED
    BY <1>0, <2>1, <2>2, <2>3, Sends
<1>2. ASSUME Parse(s) \/ SendError(s)
      PROVE  \E n \in StreamType : /\ n = [st[s] EXCEPT !.pc = "last"]
                                   /\ n.pc = "last" /\ n.out = "open" /\ n.twice = FALSE
                                   /\ n.kind = st[s].kind /\ n.plan = st[s].plan
  <2>1. st[s].out = "open"
    BY <1>0, <1>2 DEF Parse, SendError, StreamInv
  <2>2. PICK n \in StreamType : n = [st[s] EXCEPT !.pc = "last"]
    BY <1>0 DEF StreamType
  <2> QED
    BY <1>0, <2>1, <2>2 DEF StreamType
<1>3. CASE Parse(s)
  <2>1. PICK n \in StreamType : /\ n = [st[s] EXCEPT !.pc = "last"]
                                /\ n.pc = "last" /\ n.out = "open" /\ n.twice = FALSE
                                /\ n.kind = st[s].kind /\ n.plan = st[s].plan
    BY <1>2, <1>3
  <2>2. Pc(s) = "parse" /\ UNCHANGED <<sess, stopped, gone>>
    BY <1>3 DEF Parse
  <2>3. CASE Send(s, [st[s] EXCEPT !.pc = "last"], "answer") /\ UNCHANGED <<store, own>>
    <3>1. Send(s, n, "answer")
      BY <2>1, <2>3
    <3> QED
      BY <1>0, <2>1, <2>2, <2>3, <3>1, Sends
  <2>4. CASE /\ own' = own \cup {<<st[s].agent, s>>} /\ store' = store \cup {s}
             /\ Send(s, [st[s] EXCEPT !.pc = "last"], "plan")
    <3>1. Send(s, n, "plan") /\ st[s].agent \in Streams \cup {0}
      BY <1>0, <2>1, <2>4 DEF StreamType
    <3>2. store' \subseteq Streams /\ store \subseteq store' /\ own' \subseteq (Streams \cup {0}) \X Streams
      BY <1>0, <2>4, <3>1
    <3> QED
      BY <1>0, <2>1, <2>2, <3>1, <3>2, Sends
  <2>5. CASE Turns(s, [st[s] EXCEPT !.pc = "failed"]) /\ UNCHANGED <<store, own, inAgent>>
    BY <2>2, <2>5, StreamMoves
  <2> QED
    BY <1>3, <2>3, <2>4, <2>5 DEF Parse
<1>4. CASE SendError(s)
  <2>1. PICK n \in StreamType : /\ n = [st[s] EXCEPT !.pc = "last"]
                                /\ n.pc = "last" /\ n.out = "open" /\ n.twice = FALSE
                                /\ n.kind = st[s].kind /\ n.plan = st[s].plan
    BY <1>2, <1>4
  <2>2. Pc(s) = "failed" /\ UNCHANGED <<sess, stopped, store, own, gone>> /\ Send(s, n, "error")
    BY <1>0, <1>4, <2>1 DEF SendError
  <2> QED
    BY <1>0, <2>1, <2>2, Sends
<1> QED
  BY <1>1, <1>3, <1>4

LEMMA DoneKeeps == ASSUME AgentInv, NEW s \in Streams, SendDone(s) PROVE AgentInv'
<1>0. /\ st[s] \in StreamType /\ StreamInv(s) /\ Pc(s) = "last" /\ st[s].out = "open" /\ st[s].twice = FALSE
      /\ sess \subseteq Streams /\ store \subseteq Streams /\ own \subseteq (Streams \cup {0}) \X Streams
      /\ UNCHANGED <<sess, stopped, store, gone>> /\ inAgent' = Forgets(s)
      /\ own' \subseteq (Streams \cup {0}) \X Streams
  BY DEF SendDone, AgentInv, AgentTypes, StreamInv
<1>1. /\ st[s].kind = "execute" => st[s].plan \in store
      /\ st[s].kind # "chat" => s \in sess \cup stopped
  BY <1>0 DEF StreamInv
<1>2. CASE s \in gone
  <2>1. PICK r \in StreamType : r = [st[s] EXCEPT !.pc = "closed"]
    BY <1>0 DEF StreamType
  <2>2. r.pc = "closed" /\ r.out = "open" /\ r.twice = FALSE /\ r.kind = st[s].kind /\ r.plan = st[s].plan
    BY <1>0, <2>1 DEF StreamType
  <2>3. Turns(s, r)
    BY <1>2, <2>1 DEF SendDone
  <2> QED
    BY <1>0, <1>1, <1>2, <2>2, <2>3, SetsRecord DEF Forgets
<1>3. CASE s \notin gone
  <2>1. LastSeen(s) = "done"
    BY <1>0 DEF LastSeen, After
  <2>2. PICK r \in StreamType : r = [st[s] EXCEPT !.pc = "end", !.out = LastSeen(s)]
    BY <1>0, <2>1 DEF StreamType
  <2>3. r.pc = "end" /\ r.out = "done" /\ r.twice = FALSE /\ r.kind = st[s].kind /\ r.plan = st[s].plan
    BY <1>0, <2>1, <2>2 DEF StreamType
  <2>4. Turns(s, r)
    BY <1>3, <2>2 DEF SendDone
  <2> QED
    BY <1>0, <1>1, <2>3, <2>4, SetsRecord DEF Forgets
<1> QED
  BY <1>2, <1>3

LEMMA CloseKeeps == ASSUME AgentInv, NEW s \in Streams, CloseStream(s) PROVE AgentInv'
<1>0. /\ st[s] \in StreamType /\ StreamInv(s) /\ Pc(s) = "end" /\ st[s].out = "done" /\ st[s].twice = FALSE
      /\ sess \subseteq Streams /\ store \subseteq Streams /\ own \subseteq (Streams \cup {0}) \X Streams
      /\ UNCHANGED <<sess, stopped, store, own, inAgent, gone>>
      /\ st[s].kind = "execute" => st[s].plan \in store
  BY DEF CloseStream, AgentInv, AgentTypes, StreamInv
<1>1. PICK r \in StreamType : r = [st[s] EXCEPT !.pc = "closed"]
  BY <1>0 DEF StreamType
<1>2. r.pc = "closed" /\ r.out = "done" /\ r.twice = FALSE /\ r.kind = st[s].kind /\ r.plan = st[s].plan
      /\ r.early = st[s].early
  BY <1>0, <1>1 DEF StreamType
<1>3. Turns(s, r) /\ (s \in inAgent /\ st[s].kind # "plan" => st[s].early)
  BY <1>0, <1>1 DEF CloseStream, StreamInv
<1> QED
  BY <1>0, <1>2, <1>3, SetsRecord

LEMMA StreamOutsideKeeps ==
    ASSUME AgentInv, NEW s \in Streams, ClientLeaves(s) \/ StopSession(s) PROVE AgentInv'
<1>1. CASE ClientLeaves(s)
  BY <1>1 DEF ClientLeaves, AgentInv, AgentTypes, StreamInv, Pc
<1>2. CASE StopSession(s)
  BY <1>2 DEF StopSession, Aborted, AgentInv, AgentTypes, StreamInv, Pc
<1> QED
  BY <1>1, <1>2

LEMMA AgentKeeps == ASSUME AgentInv, [NodeAgentNext]_nodeAgentVars PROVE AgentInv'
<1>1. ASSUME NEW s \in Streams,
             \/ CloseStream(s) \/ ClientLeaves(s) \/ Chat(s) \/ Ask(s) \/ ExecutePlan(s) \/ StartSession(s)
             \/ StopSession(s) \/ Query(s) \/ Message(s) \/ SendBlock(s) \/ SendOther(s) \/ QueryOver(s)
             \/ Parse(s) \/ SendError(s) \/ SendDone(s)
      PROVE  AgentInv'
  BY <1>1, CloseKeeps, StreamOutsideKeeps, ChatKeeps, AskKeeps, ExecuteKeeps, SessionStarts, QueryKeeps,
     MessageKeeps, BlockKeeps, OtherKeeps, DoneKeeps
<1>2. CASE UNCHANGED nodeAgentVars
  BY <1>2 DEF nodeAgentVars, AgentInv, AgentTypes, StreamInv, Pc
<1> QED
  BY <1>1, <1>2 DEF NodeAgentNext

\* A client that stays gets "done" as the last event, a tool call is sent
\* once, an open stream can be stopped, accepted plans are found and ended
\* sessions forgotten, for any number of streams, texts and tools
\* (api/agent.ts, services/agent.ts, extensions/agent/duangcode).
THEOREM StreamsEndAsPromised ==
    NodeAgentSpec => [](/\ NodeAgentTypeOK /\ DoneIsLast /\ CallsSentOnce /\ StreamsCanBeStopped
                        /\ PlansCanBeExecuted /\ SessionsForgotten)
<1>1. NodeAgentInit => AgentInv
  BY AgentStarts
<1>2. AgentInv /\ [NodeAgentNext]_nodeAgentVars => AgentInv'
  BY AgentKeeps
<1> QED
  BY <1>1, <1>2, AgentShows, PTL DEF NodeAgentSpec

-----------------------------------------------------------------------------
(* The life of the API.                                                    *)

BootTypes ==
    /\ bootPhase \in {"down", "installing", "managing", "serving", "up", "closed"}
    /\ signals \in Nat /\ environ \in [BootKinds -> ProviderKinds \cup {"none"}]
    /\ confFile \in [BootKinds -> ProviderKinds \cup {"none"}] /\ readable \in BOOLEAN
    /\ loaderOf \in [BootKinds -> ProviderKinds \cup {"none"}]
    /\ managerOf \in [BootKinds -> ProviderKinds \cup {"none"}]
    /\ lives \subseteq BootKinds /\ synced \subseteq BootKinds
    /\ syncing \in [Syncs -> [pc : {"idle", "sandbox", "agent", "loader"},
                              want : [BootKinds -> ProviderKinds \cup {"none"}]]]
    /\ cleanups \subseteq (1 .. MaxSignals) \X {"previews", "manager"}
    /\ clock \in Nat /\ app \in [version : Nat \ {0}, built : 0 .. clock]
    /\ builtins \in [Builtins -> [md : Nat, rest : Nat, at : 0 .. clock]]
    /\ todo \subseteq Builtins
    /\ earlySignal \in BOOLEAN /\ lateSwitch \in BOOLEAN /\ crossedSync \in BOOLEAN
    /\ tornSkills \subseteq Builtins /\ backdated \subseteq Builtins

\* A signal that came in time has a cleanup under way until the server closes;
\* and from then on no switch is, unless one is known to have been late.
LifeInv ==
    /\ bootPhase = "down" => signals = 0 /\ cleanups = {}
    /\ bootPhase \in {"installing", "managing", "serving"} /\ signals > 0 => earlySignal
    /\ bootPhase = "up" /\ signals > 0 /\ ~earlySignal => cleanups # {}
    /\ bootPhase = "closed" \/ cleanups # {} => lateSwitch \/ SyncsUnderWay = {}
    /\ bootPhase = "closed" => lateSwitch \/ lives = {}

\* Where the loader and the manager may differ.
Agrees(k) ==
    \/ loaderOf[k] = managerOf[k]
    \/ /\ k \notin synced
       /\ IF environ[k] = "none" THEN readable /\ confFile[k] # "none" ELSE environ[k] = "codeany"

\* What a sync has told the manager so far.
ConfInv ==
    /\ bootPhase \in {"down", "installing", "managing", "serving"} =>
         SyncsUnderWay = {} /\ synced = {} /\ ~crossedSync
    /\ bootPhase \in {"installing", "managing"} => loaderOf = LoadedConf
    /\ bootPhase \in {"serving", "up"} /\ ~crossedSync =>
         /\ SyncsUnderWay = {} => \A k \in BootKinds : Agrees(k)
         /\ \A s, r \in SyncsUnderWay : s = r
         /\ \A s \in SyncsUnderWay : /\ syncing[s].pc # "sandbox" => managerOf["sandbox"] = syncing[s].want["sandbox"]
                                     /\ syncing[s].pc = "loader" => managerOf["agent"] = syncing[s].want["agent"]

\* A skill that was looked at, or is not older than the app, is whole, unless
\* it is being copied.
Whole(b) == builtins[b].md = app.version /\ builtins[b].rest = app.version
Settled(b) == b \notin tornSkills \cup backdated /\ (copying.left = {} \/ b # copying.of)

SkillInv ==
    /\ copying = NotCopying \/
         /\ bootPhase = "installing" /\ copying \in [of : Builtins, left : SUBSET Parts]
         /\ copying.left # {} /\ \A p \in Parts \ copying.left : builtins[copying.of][p] = app.version
    /\ bootPhase \in {"installing", "managing", "serving", "up"} =>
         \A b \in Builtins \ todo : Settled(b) => Whole(b)
    /\ \A b \in Builtins : Settled(b) /\ builtins[b].md # 0 /\ builtins[b].at >= app.built => Whole(b)

BootInv == BootTypes /\ LifeInv /\ ConfInv /\ SkillInv

LEMMA BootBegins == ASSUME BootInit PROVE BootInv
<1> DEFINE no == [k \in BootKinds |-> "none"]
<1>a. no \in [BootKinds -> ProviderKinds \cup {"none"}] /\ NoSync = [pc |-> "idle", want |-> no]
  BY DEF NoSync
<1>b. managerOf = no /\ syncing = [s \in Syncs |-> [pc |-> "idle", want |-> no]]
  BY <1>a DEF BootInit
<1> HIDE DEF no
<1>c. /\ managerOf \in [BootKinds -> ProviderKinds \cup {"none"}]
      /\ syncing \in [Syncs -> [pc : {"idle", "sandbox", "agent", "loader"},
                                want : [BootKinds -> ProviderKinds \cup {"none"}]]]
  BY <1>a, <1>b
<1>d. loaderOf \in [BootKinds -> ProviderKinds \cup {"none"}]
  BY BootAssumption DEF BootInit
<1>e. /\ builtins \in [Builtins -> [md : Nat, rest : Nat, at : 0 .. clock]]
      /\ app \in [version : Nat \ {0}, built : 0 .. clock] /\ clock \in Nat
  BY DEF BootInit
<1>1. BootTypes
  BY <1>c, <1>d, <1>e DEF BootInit, BootTypes
<1>2. LifeInv /\ ConfInv
  BY DEF BootInit, LifeInv, ConfInv, SyncsUnderWay, NoSync
<1>3. SkillInv
  BY DEF BootInit, SkillInv, NotCopying
<1> QED
  BY <1>1, <1>2, <1>3 DEF BootInv

LEMMA BootShows == BootInv => BootTypeOK /\ ConfigsAgree /\ SkillsAreCurrent /\ CleanupsClose
<1> SUFFICES ASSUME BootInv PROVE BootTypeOK /\ ConfigsAgree /\ SkillsAreCurrent /\ CleanupsClose
  OBVIOUS
<1>1. BootTypeOK
  BY DEF BootInv, BootTypes, BootTypeOK, SkillInv, NotCopying
<1>2. ConfigsAgree
  BY DEF BootInv, ConfInv, ConfigsAgree, Agrees
<1>3. SkillsAreCurrent
  <2> SUFFICES ASSUME bootPhase \in {"managing", "serving", "up"},
                      NEW b \in Builtins \ (todo \cup tornSkills \cup backdated)
               PROVE  Whole(b)
    BY DEF SkillsAreCurrent, Whole
  <2>1. copying.left = {}
    BY DEF BootInv, SkillInv, NotCopying
  <2> QED
    BY <2>1 DEF BootInv, SkillInv, Settled
<1>4. CleanupsClose
  BY DEF BootInv, BootTypes, LifeInv, CleanupsClose
<1> QED
  BY <1>1, <1>2, <1>3, <1>4

-----------------------------------------------------------------------------
(* The start.                                                              *)

LEMMA BootStartKeeps == ASSUME BootInv, BootStart PROVE BootInv'
<1>1. LoadedConf \in [BootKinds -> ProviderKinds \cup {"none"}]
  BY BootAssumption DEF LoadedConf, BootInv, BootTypes
<1>2. BootTypes'
  BY <1>1 DEF BootStart, BootInv, BootTypes, syncVars
<1>3. LifeInv'
  BY DEF BootStart, BootInv, LifeInv, SyncsUnderWay, syncVars
<1>4. ConfInv'
  BY DEF BootStart, BootInv, ConfInv, SyncsUnderWay, syncVars, LoadedConf
<1>5. SkillInv'
  BY DEF BootStart, BootInv, SkillInv, Settled, Whole
<1> QED
  BY <1>2, <1>3, <1>4, <1>5 DEF BootInv

\* Nothing but the skills changes, or the phase from installing to managing.
LEMMA InstallKeepsRest ==
    ASSUME BootInv, bootPhase = "installing", bootPhase' \in {"installing", "managing"},
           UNCHANGED <<starts, signals, cleanups, earlySignal, lateSwitch, confVars, lives, syncVars>>
    PROVE  LifeInv' /\ ConfInv'
  BY DEF BootInv, LifeInv, ConfInv, SyncsUnderWay, confVars, syncVars, LoadedConf

LEMMA LookKeeps == ASSUME BootInv, NEW b \in Builtins, LookAtSkill(b) PROVE BootInv'
<1>1. LifeInv' /\ ConfInv'
  BY InstallKeepsRest DEF LookAtSkill, lifeVars
<1>2. BootTypes'
  BY DEF LookAtSkill, BootInv, BootTypes, lifeVars, confVars, syncVars
<1>3. CASE builtins[b].md = 0 \/ app.built > builtins[b].at
  <2>1. copying' = [of |-> b, left |-> Parts] /\ Parts # {}
    BY <1>3 DEF LookAtSkill, Parts
  <2> QED
    BY <1>1, <1>2, <2>1 DEF LookAtSkill, BootInv, SkillInv, Settled, Whole, NotCopying, lifeVars
<1>4. CASE ~(builtins[b].md = 0 \/ app.built > builtins[b].at)
  <2>1. builtins[b].md # 0 /\ builtins[b].at >= app.built /\ copying' = NotCopying /\ copying = NotCopying
    BY <1>4 DEF LookAtSkill, BootInv, BootTypes
  <2>2. Settled(b) => Whole(b)
    BY <2>1 DEF BootInv, SkillInv
  <2> QED
    BY <1>1, <1>2, <2>1, <2>2 DEF LookAtSkill, BootInv, SkillInv, Settled, Whole, lifeVars
<1> QED
  BY <1>3, <1>4

LEMMA CopyKeeps == ASSUME BootInv, NEW p \in Parts, CopyPart(p) PROVE BootInv'
<1>1. LifeInv' /\ ConfInv'
  BY InstallKeepsRest DEF CopyPart, lifeVars
<1>0. PICK b \in Builtins : b = copying.of
  BY DEF CopyPart, BootInv, SkillInv, NotCopying
<1> DEFINE rest == copying.left \ {p}
<1>2. copying.left \subseteq Parts /\ copying # NotCopying
      /\ \A q \in Parts \ copying.left : builtins[b][q] = app.version
  BY <1>0 DEF CopyPart, BootInv, SkillInv, NotCopying
<1>3. PICK at \in {clock, app.built} :
         builtins' = [builtins EXCEPT ![b] = IF p = "md" THEN [@ EXCEPT !.md = app.version, !.at = at]
                                                     ELSE [@ EXCEPT !.rest = app.version]]
  BY <1>0 DEF CopyPart
<1> DEFINE new == IF p = "md" THEN [builtins[b] EXCEPT !.md = app.version, !.at = at]
                              ELSE [builtins[b] EXCEPT !.rest = app.version]
<1>4. builtins[b] \in [md : Nat, rest : Nat, at : 0 .. clock] /\ at \in 0 .. clock /\ app.version \in Nat
  BY <1>2 DEF BootInv, BootTypes
<1>5. new \in [md : Nat, rest : Nat, at : 0 .. clock] /\ new[p] = app.version
      /\ \A q \in Parts \ {p} : new[q] = builtins[b][q]
  BY <1>4 DEF Parts
<1>6. builtins' = [builtins EXCEPT ![b] = new]
  BY <1>3
<1> HIDE DEF new
<1>7. /\ builtins'[b] = new /\ \A c \in Builtins \ {b} : builtins'[c] = builtins[c]
      /\ builtins' \in [Builtins -> [md : Nat, rest : Nat, at : 0 .. clock]]
  BY <1>2, <1>5, <1>6 DEF BootInv, BootTypes
<1>8. \A q \in Parts \ rest : builtins'[b][q] = app.version
  BY <1>2, <1>5, <1>7
<1>9. BootTypes'
  BY <1>2, <1>7 DEF CopyPart, BootInv, BootTypes, lifeVars, confVars, syncVars
<1>10. CASE rest = {}
  <2>1. copying' = NotCopying /\ tornSkills' = tornSkills \ {b}
    BY <1>0, <1>10 DEF CopyPart
  <2>2. Whole(b)'
    BY <1>8, <1>10 DEF Whole, Parts, CopyPart, builtinVars
  <2>3. \A c \in Builtins \ {b} : (Settled(c)' => Settled(c)) /\ (Whole(c) => Whole(c)')
    BY <1>0, <1>7, <2>1 DEF Settled, Whole, CopyPart
  <2>4. SkillInv'
    BY <1>7, <2>1, <2>2, <2>3 DEF CopyPart, BootInv, SkillInv, lifeVars
  <2> QED
    BY <1>1, <1>9, <2>4 DEF BootInv
<1>11. CASE rest # {}
  <2>1. copying' = [copying EXCEPT !.left = rest] /\ tornSkills' = tornSkills
    BY <1>11 DEF CopyPart
  <2>2. copying \in [of : Builtins, left : SUBSET Parts]
    BY <1>2 DEF BootInv, SkillInv
  <2>3. copying' \in [of : Builtins, left : SUBSET Parts] /\ copying'.of = b /\ copying'.left = rest
    BY <1>0, <2>1, <2>2
  <2>4. \A c \in Builtins \ {b} : (Settled(c)' => Settled(c)) /\ (Whole(c) => Whole(c)')
    BY <1>0, <1>7, <2>1 DEF Settled, Whole, CopyPart
  <2>5. ~Settled(b)'
    BY <1>11, <2>3 DEF Settled
  <2>6. SkillInv'
    BY <1>7, <1>8, <1>11, <2>3, <2>4, <2>5 DEF CopyPart, BootInv, SkillInv, lifeVars
  <2> QED
    BY <1>1, <1>9, <2>6 DEF BootInv
<1> QED
  BY <1>10, <1>11

LEMMA InstalledKeeps == ASSUME BootInv, CopyFails \/ Installed PROVE BootInv'
<1>1. LifeInv' /\ ConfInv'
  BY InstallKeepsRest DEF CopyFails, Installed
<1>2. CASE CopyFails
  <2>1. copying.of \in Builtins /\ copying' = NotCopying /\ tornSkills' = tornSkills \cup {copying.of}
    BY <1>2 DEF CopyFails, CutShort, BootInv, SkillInv
  <2>2. BootTypes'
    BY <1>2, <2>1 DEF CopyFails, BootInv, BootTypes, confVars, syncVars
  <2>3. \A c \in Builtins : (Settled(c)' => Settled(c)) /\ (Whole(c) => Whole(c)')
    BY <1>2, <2>1 DEF Settled, Whole, CopyFails
  <2>4. SkillInv'
    BY <1>2, <2>1, <2>3 DEF CopyFails, BootInv, SkillInv
  <2> QED
    BY <1>1, <2>2, <2>4 DEF BootInv
<1>3. CASE Installed
  <2>1. BootTypes'
    BY <1>3 DEF Installed, BootInv, BootTypes, confVars, syncVars, builtinVars
  <2>2. SkillInv'
    BY <1>3 DEF Installed, BootInv, SkillInv, Settled, Whole, builtinVars
  <2> QED
    BY <1>1, <2>1, <2>2 DEF BootInv
<1> QED
  BY <1>2, <1>3

LEMMA ServeKeeps == ASSUME BootInv, Initialize \/ ServerUp PROVE BootInv'
<1>1. CASE Initialize
  <2>1. managerOf' \in [BootKinds -> ProviderKinds \cup {"none"}]
    BY <1>1, BootAssumption DEF Initialize, BootInv, BootTypes
  <2>2. BootTypes'
    BY <1>1, <2>1 DEF Initialize, BootInv, BootTypes, syncVars, builtinVars
  <2>3. LifeInv'
    BY <1>1 DEF Initialize, BootInv, LifeInv, SyncsUnderWay, syncVars
  <2>4. SyncsUnderWay = {} /\ synced = {} /\ ~crossedSync /\ loaderOf = LoadedConf
    BY <1>1 DEF Initialize, BootInv, ConfInv
  <2>5. SyncsUnderWay' = {} /\ synced' = {} /\ ~crossedSync'
    BY <1>1, <2>4 DEF Initialize, SyncsUnderWay, syncVars
  <2>6. ASSUME NEW k \in BootKinds PROVE Agrees(k)'
    BY <1>1, <2>4, <2>5, BootAssumption DEF Initialize, Agrees, LoadedConf, BootInv, BootTypes
  <2>7. ConfInv'
    BY <1>1, <2>5, <2>6 DEF Initialize, ConfInv
  <2>8. SkillInv'
    BY <1>1 DEF Initialize, BootInv, SkillInv, Settled, Whole, builtinVars
  <2> QED
    BY <2>2, <2>3, <2>7, <2>8 DEF BootInv
<1>2. CASE ServerUp
  <2>1. BootTypes'
    BY <1>2 DEF ServerUp, BootInv, BootTypes, syncVars, confVars, builtinVars
  <2>2. LifeInv' /\ ConfInv'
    BY <1>2 DEF ServerUp, BootInv, LifeInv, ConfInv, Agrees, SyncsUnderWay, confVars, syncVars
  <2>3. SkillInv'
    BY <1>2 DEF ServerUp, BootInv, SkillInv, Settled, Whole, builtinVars
  <2> QED
    BY <2>1, <2>2, <2>3 DEF BootInv
<1> QED
  BY <1>1, <1>2

-----------------------------------------------------------------------------
(* Syncs.                                                                  *)

\* The skills stay when neither they nor the phase change.
LEMMA SkillsStay == ASSUME BootInv, UNCHANGED <<bootPhase, builtinVars>> PROVE SkillInv'
  BY DEF BootInv, SkillInv, Settled, Whole, builtinVars

SyncType == [pc : {"idle", "sandbox", "agent", "loader"}, want : [BootKinds -> ProviderKinds \cup {"none"}]]

LEMMA NoSyncType == NoSync \in SyncType /\ NoSync.pc = "idle"
<1> DEFINE no == [k \in BootKinds |-> "none"]
<1>1. no \in [BootKinds -> ProviderKinds \cup {"none"}] /\ NoSync = [pc |-> "idle", want |-> no]
  BY DEF NoSync
<1> HIDE DEF no
<1> QED
  BY <1>1 DEF SyncType

LEMMA SyncKeeps == ASSUME BootInv, NEW s \in Syncs, SettingsSync(s) PROVE BootInv'
<1>1. PICK want \in [BootKinds -> ProviderKinds \ {"codeany"}] :
         syncing' = [syncing EXCEPT ![s] = [pc |-> "sandbox", want |-> want]]
  BY DEF SettingsSync
<1>2. [pc |-> "sandbox", want |-> want] \in SyncType
  BY DEF SyncType
<1>3. PICK w \in SyncType : w = [pc |-> "sandbox", want |-> want]
  BY <1>2
<1>4. syncing \in [Syncs -> SyncType] /\ syncing' = [syncing EXCEPT ![s] = w] /\ w.pc = "sandbox"
  BY <1>1, <1>3 DEF BootInv, BootTypes, SyncType
<1>5. syncing' \in [Syncs -> SyncType] /\ syncing'[s] = w /\ \A r \in Syncs \ {s} : syncing'[r] = syncing[r]
  BY <1>4
<1>6. crossedSync' = (crossedSync \/ SyncsUnderWay # {}) /\ lateSwitch' = (lateSwitch \/ cleanups # {})
      /\ bootPhase = "up"
      /\ UNCHANGED <<bootPhase, starts, signals, cleanups, earlySignal, confVars, lives, synced, builtinVars>>
  BY DEF SettingsSync
<1>7. BootTypes'
  BY <1>5, <1>6 DEF BootInv, BootTypes, SyncType, confVars, builtinVars
<1>8. LifeInv'
  BY <1>6 DEF BootInv, LifeInv
<1>9. ASSUME ~crossedSync' PROVE SyncsUnderWay' = {s} /\ ~crossedSync
  <2>1. ~crossedSync /\ SyncsUnderWay = {}
    BY <1>6, <1>9
  <2>2. \A r \in Syncs \ {s} : syncing'[r].pc = "idle"
    BY <1>5, <2>1 DEF SyncsUnderWay
  <2>3. syncing'[s].pc = "sandbox"
    BY <1>4, <1>5
  <2>4. SyncsUnderWay' = {s}
    BY <2>2, <2>3 DEF SyncsUnderWay
  <2> QED
    BY <2>1, <2>4
<1>10. ConfInv'
  BY <1>4, <1>5, <1>6, <1>9 DEF ConfInv
<1> QED
  BY <1>6, <1>7, <1>8, <1>10, SkillsStay DEF BootInv

LEMMA SwitchKeeps == ASSUME BootInv, NEW s \in Syncs, NEW k \in BootKinds, SwitchKind(s, k) PROVE BootInv'
<1>1. syncing \in [Syncs -> SyncType] /\ syncing[s].pc = k /\ k \in {"sandbox", "agent"} /\ s \in SyncsUnderWay
      /\ bootPhase \in {"up", "closed"} /\ syncing[s] \in SyncType
      /\ UNCHANGED <<lifeVars, environ, confFile, readable, loaderOf, synced, syncCount, builtinVars>>
  BY DEF SwitchKind, BootInv, BootTypes, SyncType, SyncsUnderWay, BootKinds
<1>2. managerOf' = [managerOf EXCEPT ![k] = syncing[s].want[k]]
  BY DEF SwitchKind
<1>3. managerOf' \in [BootKinds -> ProviderKinds \cup {"none"}] /\ managerOf'[k] = syncing[s].want[k]
      /\ \A j \in BootKinds \ {k} : managerOf'[j] = managerOf[j]
  BY <1>1, <1>2 DEF BootInv, BootTypes, SyncType
<1>4. PICK w \in SyncType : /\ syncing' = [syncing EXCEPT ![s] = w] /\ crossedSync' \in BOOLEAN
                            /\ \/ w.pc = Then[k] /\ w.want = syncing[s].want /\ crossedSync' = crossedSync
                               \/ w.pc = "idle" /\ crossedSync'
  <2>1. CASE syncing' = [syncing EXCEPT ![s].pc = Then[k]] /\ UNCHANGED crossedSync
    <3>1. Then[k] \in {"agent", "loader"}
      BY <1>1 DEF Then
    <3>2. [syncing[s] EXCEPT !.pc = Then[k]] \in SyncType
      BY <1>1, <3>1 DEF SyncType
    <3>3. PICK w \in SyncType : w = [syncing[s] EXCEPT !.pc = Then[k]]
      BY <3>2
    <3>4. w.pc = Then[k] /\ w.want = syncing[s].want
      BY <1>1, <3>3 DEF SyncType
    <3> QED
      BY <1>1, <2>1, <3>3, <3>4 DEF BootInv, BootTypes
  <2>2. CASE syncing' = [syncing EXCEPT ![s] = NoSync] /\ crossedSync' = TRUE
    BY <2>2, NoSyncType
  <2> QED
    BY <2>1, <2>2 DEF SwitchKind
<1>5. syncing' \in [Syncs -> SyncType] /\ syncing'[s] = w /\ \A r \in Syncs \ {s} : syncing'[r] = syncing[r]
  BY <1>1, <1>4
<1>6. lives' \subseteq BootKinds
  BY DEF SwitchKind, BootInv, BootTypes
<1>7. BootTypes'
  BY <1>1, <1>3, <1>4, <1>5, <1>6 DEF BootInv, BootTypes, SyncType, lifeVars, builtinVars
<1>8. LifeInv'
  BY <1>1 DEF BootInv, LifeInv, lifeVars
<1>9. ConfInv'
  <2>1. CASE bootPhase = "closed" \/ crossedSync'
    BY <1>1, <2>1 DEF ConfInv, lifeVars
  <2>2. CASE bootPhase = "up" /\ ~crossedSync'
    <3>1. w.pc = Then[k] /\ w.want = syncing[s].want /\ ~crossedSync
      BY <1>4, <2>2
    <3>2. SyncsUnderWay = {s} /\ (k = "agent" => managerOf["sandbox"] = syncing[s].want["sandbox"])
      BY <1>1, <2>2, <3>1 DEF BootInv, ConfInv
    <3>3. Then[k] \in {"agent", "loader"} /\ (Then[k] = "loader" => k = "agent") /\ (k = "sandbox" \/ k = "agent")
      BY <1>1 DEF Then
    <3>4. SyncsUnderWay' = {s}
      BY <1>5, <3>1, <3>2, <3>3 DEF SyncsUnderWay
    <3>5. /\ managerOf'["sandbox"] = syncing[s].want["sandbox"]
          /\ k = "agent" => managerOf'["agent"] = syncing[s].want["agent"]
      BY <1>3, <3>2, <3>3 DEF BootKinds
    <3> QED
      BY <1>1, <1>5, <2>2, <3>1, <3>3, <3>4, <3>5 DEF ConfInv, lifeVars
  <2> QED
    BY <1>1, <2>1, <2>2
<1> QED
  BY <1>1, <1>7, <1>8, <1>9, SkillsStay DEF BootInv, lifeVars

LEMMA ToldKeeps == ASSUME BootInv, NEW s \in Syncs, LoaderTold(s) PROVE BootInv'
<1>1. syncing \in [Syncs -> SyncType] /\ syncing[s].pc = "loader" /\ s \in SyncsUnderWay
      /\ bootPhase \in {"up", "closed"} /\ syncing[s] \in SyncType
      /\ loaderOf' = syncing[s].want /\ synced' = BootKinds
      /\ syncing' = [syncing EXCEPT ![s] = NoSync]
      /\ UNCHANGED <<lifeVars, environ, confFile, readable, managerOf, lives, syncCount, crossedSync, builtinVars>>
  BY DEF LoaderTold, BootInv, BootTypes, SyncType, SyncsUnderWay
<1>2. syncing' \in [Syncs -> SyncType] /\ syncing'[s].pc = "idle" /\ \A r \in Syncs \ {s} : syncing'[r] = syncing[r]
  BY <1>1, NoSyncType
<1>3. loaderOf' \in [BootKinds -> ProviderKinds \cup {"none"}]
  BY <1>1 DEF SyncType
<1>4. BootTypes'
  BY <1>1, <1>2, <1>3 DEF BootInv, BootTypes, SyncType, lifeVars, builtinVars
<1>5. LifeInv'
  BY <1>1 DEF BootInv, LifeInv, lifeVars
<1>6. ConfInv'
  <2>1. CASE bootPhase = "closed" \/ crossedSync
    BY <1>1, <2>1 DEF ConfInv, lifeVars
  <2>2. CASE bootPhase = "up" /\ ~crossedSync
    <3>1. /\ SyncsUnderWay = {s} /\ managerOf["sandbox"] = syncing[s].want["sandbox"]
          /\ managerOf["agent"] = syncing[s].want["agent"]
      BY <1>1, <2>2 DEF BootInv, ConfInv
    <3>2. \A k \in BootKinds : Agrees(k)'
      BY <1>1, <3>1 DEF Agrees, BootKinds
    <3>3. SyncsUnderWay' = {}
      BY <1>2, <3>1 DEF SyncsUnderWay
    <3> QED
      BY <1>1, <2>2, <3>2, <3>3 DEF ConfInv, lifeVars
  <2> QED
    BY <1>1, <2>1, <2>2
<1> QED
  BY <1>1, <1>4, <1>5, <1>6, SkillsStay DEF BootInv, lifeVars

-----------------------------------------------------------------------------
(* The end.                                                                *)

LEMMA CleanupKeeps ==
    ASSUME BootInv, Signalled \/ \E n \in 1 .. MaxSignals : PreviewsStopped(n) \/ CleanedUp(n) PROVE BootInv'
<1>1. CASE Signalled
  <2>1. signals + 1 \in 1 .. MaxSignals
    <3>1. signals \in Nat /\ signals < MaxSignals /\ MaxSignals \in Nat
      BY <1>1, BootAssumption DEF Signalled, BootInv, BootTypes
    <3> QED
      BY <3>1
  <2>2. BootTypes'
    BY <1>1, <2>1 DEF Signalled, BootInv, BootTypes, syncVars, confVars, builtinVars
  <2>3. LifeInv'
    BY <1>1 DEF Signalled, BootInv, BootTypes, LifeInv, SyncsUnderWay, syncVars
  <2>4. ConfInv'
    BY <1>1 DEF Signalled, BootInv, ConfInv, SyncsUnderWay, Agrees, LoadedConf, confVars, syncVars
  <2> QED
    BY <1>1, <2>2, <2>3, <2>4, SkillsStay DEF Signalled, BootInv
<1>2. ASSUME NEW n \in 1 .. MaxSignals, PreviewsStopped(n) PROVE BootInv'
  <2>2. BootTypes'
    BY <1>2 DEF PreviewsStopped, BootInv, BootTypes, syncVars, confVars, builtinVars
  <2>3. LifeInv'
    BY <1>2 DEF PreviewsStopped, BootInv, LifeInv, SyncsUnderWay, syncVars
  <2>4. ConfInv'
    BY <1>2 DEF PreviewsStopped, BootInv, ConfInv, SyncsUnderWay, Agrees, LoadedConf, confVars, syncVars
  <2> QED
    BY <1>2, <2>2, <2>3, <2>4, SkillsStay DEF PreviewsStopped, BootInv
<1>3. ASSUME NEW n \in 1 .. MaxSignals, CleanedUp(n) PROVE BootInv'
  <2>1. bootPhase' = IF bootPhase = "up" THEN "closed" ELSE bootPhase
    BY <1>3 DEF CleanedUp
  <2>2. BootTypes'
    BY <1>3, <2>1 DEF CleanedUp, BootInv, BootTypes, syncVars, confVars, builtinVars
  <2>3. LifeInv'
    BY <1>3, <2>1 DEF CleanedUp, BootInv, BootTypes, LifeInv, SyncsUnderWay, syncVars
  <2>4. ConfInv'
    BY <1>3, <2>1 DEF CleanedUp, BootInv, ConfInv, SyncsUnderWay, Agrees, LoadedConf, confVars, syncVars
  <2>5. SkillInv'
    BY <1>3, <2>1 DEF CleanedUp, BootInv, SkillInv, Settled, Whole, builtinVars
  <2> QED
    BY <2>2, <2>3, <2>4, <2>5 DEF BootInv
<1> QED
  BY <1>1, <1>2, <1>3

LEMMA EndKeeps == ASSUME BootInv, ProcessEnds \/ Upgraded PROVE BootInv'
<1>1. CASE ProcessEnds
  <2>1. tornSkills' \subseteq Builtins /\ tornSkills \subseteq tornSkills'
        /\ (copying # NotCopying => copying.of \in tornSkills')
    BY <1>1 DEF ProcessEnds, CutShort, BootInv, BootTypes, SkillInv
  <2> DEFINE no == [k \in BootKinds |-> "none"]
  <2>2. managerOf' \in [BootKinds -> ProviderKinds \cup {"none"}]
    BY <1>1 DEF ProcessEnds
  <2>3. syncing' \in [Syncs -> SyncType] /\ SyncsUnderWay' = {}
    BY <1>1, NoSyncType DEF ProcessEnds, SyncsUnderWay
  <2>4. BootTypes'
    BY <1>1, <2>1, <2>2, <2>3 DEF ProcessEnds, BootInv, BootTypes, SyncType
  <2>5. LifeInv' /\ ConfInv'
    BY <1>1, <2>3 DEF ProcessEnds, LifeInv, ConfInv
  <2>6. \A c \in Builtins : (Settled(c)' => Settled(c)) /\ (Whole(c) => Whole(c)')
    BY <1>1, <2>1 DEF ProcessEnds, Settled, Whole, BootInv, SkillInv, NotCopying
  <2>7. SkillInv'
    BY <1>1, <2>6 DEF ProcessEnds, BootInv, SkillInv
  <2> QED
    BY <2>4, <2>5, <2>7 DEF BootInv
<1>2. CASE Upgraded
  <2>1. PICK b \in app.built .. clock + 1 :
           /\ app' = [version |-> app.version + 1, built |-> b]
           /\ backdated' = backdated \cup {s \in Builtins : builtins[s].at >= b}
    BY <1>2 DEF Upgraded
  <2>2. app.built \in 0 .. clock /\ app.version \in Nat /\ clock \in Nat
        /\ clock' = clock + 1 /\ b \in 0 .. clock + 1 /\ bootPhase = "down"
    BY <1>2, <2>1 DEF Upgraded, BootInv, BootTypes
  <2>3. app' \in [version : Nat \ {0}, built : 0 .. clock'] /\ clock' \in Nat
    BY <2>1, <2>2
  <2>4. builtins' \in [Builtins -> [md : Nat, rest : Nat, at : 0 .. clock']]
    BY <1>2, <2>2 DEF Upgraded, BootInv, BootTypes
  <2>5. BootTypes'
    BY <1>2, <2>1, <2>3, <2>4 DEF Upgraded, BootInv, BootTypes, lifeVars, confVars, syncVars
  <2>6. LifeInv' /\ ConfInv'
    BY <1>2 DEF Upgraded, BootInv, LifeInv, ConfInv, SyncsUnderWay, Agrees, LoadedConf, lifeVars, confVars, syncVars
  <2>7. SkillInv'
    BY <1>2, <2>1, <2>2 DEF Upgraded, BootInv, SkillInv, Settled, lifeVars
  <2> QED
    BY <2>5, <2>6, <2>7 DEF BootInv
<1> QED
  BY <1>1, <1>2

LEMMA BootKeeps == ASSUME BootInv, [BootNext]_bootVars PROVE BootInv'
<1>1. CASE UNCHANGED bootVars
  <2>1. LifeInv' /\ ConfInv'
    BY <1>1 DEF BootInv, LifeInv, ConfInv, SyncsUnderWay, Agrees, LoadedConf, bootVars, lifeVars, confVars, syncVars
  <2>2. BootTypes'
    BY <1>1 DEF BootInv, BootTypes, bootVars, lifeVars, confVars, syncVars, builtinVars
  <2> QED
    BY <1>1, <2>1, <2>2, SkillsStay DEF BootInv, bootVars, lifeVars
<1> QED
  BY <1>1, BootStartKeeps, LookKeeps, CopyKeeps, InstalledKeeps, ServeKeeps, SyncKeeps, SwitchKeeps, ToldKeeps,
     CleanupKeeps, EndKeeps DEF BootNext

\* The loader and the manager agree on the providers, the built-in skills are
\* whole and current, and a cleanup closes the server and leaves no provider,
\* with the exceptions named, over any number of starts, syncs, signals and
\* upgrades (index.ts, providers.ts, skills/loader.ts).
THEOREM ApiBoots == BootSpec => [](BootTypeOK /\ ConfigsAgree /\ SkillsAreCurrent /\ CleanupsClose)
<1>1. BootInit => BootInv
  BY BootBegins
<1>2. BootInv /\ [BootNext]_bootVars => BootInv'
  BY BootKeeps
<1> QED
  BY <1>1, <1>2, BootShows, PTL DEF BootSpec

-----------------------------------------------------------------------------
(* The providers: what the manager, the loader and the page each know of a *)
(* switch under way, and what the calls under way of a registry may have   *)
(* done to the entries of their type.                                      *)

MadeType == [type : Types, config : Configs, alive : BOOLEAN,
             state : {"initializing", "ready", "error", "own"}]
AskedType == [op : {"none", "switch", "exec", "fallback"},
              pc : {"idle", "best", "stopcur", "shut", "clear", "init", "got", "failed", "apply", "reply", "run"},
              type : Types, config : Configs, id : Nat, old : Nat]

RegTypes ==
    /\ prov \in Seq(MadeType) /\ reg \in [Types \X Configs -> 0 .. Len(prov)]
    /\ who \in [Callers -> AskedType]
    /\ \A c \in Callers : who[c].id \in 0 .. Len(prov) /\ who[c].old \in 0 .. Len(prov)

ProvTypes ==
    /\ RegTypes /\ category \in {"sandbox", "agent"} /\ installed \subseteq Types
    /\ active \in 0 .. Len(prov)
    /\ managerCfg \in Types \X Configs /\ loaderCfg \in Types \X Configs /\ shown \in Types
    /\ answer \in {"none", "success", "failure"}
    /\ stopping = NotStopping \/ stopping \subseteq 1 .. Len(prov)
    /\ mixed \subseteq Types /\ jumbled \in BOOLEAN /\ ousted \subseteq 1 .. Len(prov)

\* What a call's record says at each of its awaits.
Stage(w) ==
    /\ w.pc \in {"shut", "stopcur"} => w.old # 0
    /\ w.pc \in {"stopcur", "apply", "reply"} => w.op = "switch"
    /\ w.pc = "idle" => w.op = "none"
    /\ w.pc \in {"best", "run"} => w.op # "switch"
    /\ w.pc = "shut" => prov[w.old].type = w.type
    /\ w.pc \in {"init", "got"} => w.id # 0 /\ prov[w.id].type = w.type /\ prov[w.id].config = w.config
    /\ w.pc = "init" => category = "sandbox"
    /\ w.pc = "clear" => category = "agent"
Stages == \A c \in Callers : Stage(who[c])

KeysFit == \A k \in Types \X Configs : reg[k] # 0 => k = Key(prov[reg[k]].type, prov[reg[k]].config)

\* Calls for a type that did not overlap are alone in the registry, and what
\* they work on is what the registry holds.
Alone == \A c \in Callers : Inside(c) /\ who[c].type \notin mixed =>
            /\ stopping = NotStopping
            /\ \A d \in Callers \ {c} : Inside(d) => who[d].type # who[c].type
            /\ who[c].pc = "init" => reg[Key(who[c].type, who[c].config)] = who[c].id
            /\ who[c].pc = "shut" /\ category = "sandbox" => reg[Key(who[c].type, who[c].config)] = who[c].old

Entered(i) == reg[Key(prov[i].type, prov[i].config)] = i

Known == \A i \in DOMAIN prov : prov[i].type \notin mixed =>
            /\ prov[i].alive /\ prov[i].state = "ready" /\ category = "sandbox" =>
                  Entered(i) /\ (stopping = NotStopping \/ i \in stopping)
            /\ Entered(i) /\ prov[i].state = "ready" => prov[i].alive \/ i \in ousted

\* What a switch that is alone has done so far.
Switched == ~jumbled =>
    /\ Switching = {} => managerCfg = loaderCfg /\ shown = managerCfg[1]
                         /\ (active # 0 => <<prov[active].type, prov[active].config>> = managerCfg)
    /\ \A c \in Switching :
         /\ Switching = {c}
         /\ who[c].pc \in {"shut", "clear", "init", "got", "apply", "reply"} =>
               managerCfg = <<who[c].type, who[c].config>>
         /\ who[c].pc \in {"apply", "reply"} =>
               active # 0 /\ <<prov[active].type, prov[active].config>> = managerCfg
         /\ who[c].pc = "reply" => loaderCfg = managerCfg

ProvInv == ProvTypes /\ Stages /\ KeysFit /\ Alone /\ Known /\ Switched

\* The initial states.
LEMMA ProvStarts == ProviderInit => ProvInv
<1> SUFFICES ASSUME ProviderInit PROVE ProvInv
  OBVIOUS
<1>1. PICK t \in Types : managerCfg = <<t, "none">>
  BY DEF ProviderInit
<1>2. prov = <<>> /\ Len(prov) = 0 /\ prov \in Seq(MadeType) /\ DOMAIN prov = {}
  BY DEF ProviderInit
<1>3. Nobody \in AskedType /\ Nobody.op = "none" /\ Nobody.pc = "idle" /\ Nobody.id = 0 /\ Nobody.old = 0
  BY ProvidersAssumption DEF Nobody, AskedType
<1>4. \A c \in Callers : who[c] = Nobody
  BY DEF ProviderInit
<1>5. managerCfg[1] = t /\ managerCfg \in Types \X Configs
  BY <1>1, ProvidersAssumption
<1>6. ProvTypes
  <2>1. who \in [Callers -> AskedType] /\ \A c \in Callers : who[c].id = 0 /\ who[c].old = 0
    BY <1>3 DEF ProviderInit
  <2>2. 0 \in 0 .. Len(prov) /\ reg \in [Types \X Configs -> 0 .. Len(prov)]
    BY <1>2 DEF ProviderInit
  <2>3. loaderCfg \in Types \X Configs /\ shown \in Types
    BY <1>5 DEF ProviderInit
  <2>4. prov \in Seq(MadeType)
    BY <1>2
  <2> QED
    BY <1>5, <2>1, <2>2, <2>3, <2>4 DEF ProviderInit, ProvTypes, RegTypes
<1>7. Stages /\ Alone
  BY <1>3, <1>4 DEF Stages, Stage, Alone, Inside
<1>8. KeysFit /\ Known
  BY <1>2 DEF ProviderInit, KeysFit, Known
<1>9. Switched
  BY <1>3, <1>4, <1>5 DEF ProviderInit, Switched, Switching
<1> QED
  BY <1>6, <1>7, <1>8, <1>9 DEF ProvInv

\* The registry holds a provider if it holds it under its own key.
LEMMA ItsOwnKey == ASSUME ProvInv, NEW i \in DOMAIN prov PROVE Entered(i) <=> i \in Registered
<1>1. prov \in Seq(MadeType) /\ i \in 1 .. Len(prov) /\ prov[i] \in MadeType
  BY DEF ProvInv, ProvTypes, RegTypes
<1>2. prov[i].type \in Types /\ prov[i].config \in Configs
  BY <1>1 DEF MadeType
<1>3. Key(prov[i].type, prov[i].config) \in Types \X Configs
  BY <1>2, ProvidersAssumption DEF Key
<1>4. DOMAIN reg = Types \X Configs
  BY DEF ProvInv, ProvTypes, RegTypes
<1>5. ASSUME Entered(i) PROVE i \in Registered
  BY <1>1, <1>3, <1>4, <1>5 DEF Registered, Entered
<1>6. ASSUME i \in Registered PROVE Entered(i)
  <2>1. PICK k \in Types \X Configs : reg[k] = i /\ reg[k] # 0
    BY <1>4, <1>6 DEF Registered
  <2> QED
    BY <2>1 DEF ProvInv, KeysFit, Entered
<1> QED
  BY <1>5, <1>6

LEMMA ProvShows == ProvInv => ProviderTypeOK /\ RegistryKnowsItsProviders /\ SwitchesAgree
<1> SUFFICES ASSUME ProvInv PROVE ProviderTypeOK /\ RegistryKnowsItsProviders /\ SwitchesAgree
  OBVIOUS
<1>1. ProviderTypeOK
  <2>1. \A c \in Callers : who[c] \in AskedType
    BY DEF ProvInv, ProvTypes, RegTypes
  <2>2. stopping \subseteq 0 .. Len(prov)
    BY DEF ProvInv, ProvTypes, RegTypes, NotStopping
  <2>3. ousted \subseteq 1 .. Len(prov)
    BY DEF ProvInv, ProvTypes, RegTypes
  <2> QED
    BY <2>1, <2>2, <2>3 DEF ProvInv, ProvTypes, RegTypes, ProviderTypeOK, MadeType, AskedType
<1>2. RegistryKnowsItsProviders
  BY ItsOwnKey DEF ProvInv, Known, RegistryKnowsItsProviders
<1>3. SwitchesAgree
  BY DEF ProvInv, Switched, SwitchesAgree
<1> QED
  BY <1>1, <1>2, <1>3

-----------------------------------------------------------------------------
(* What the registry does.                                                 *)

\* The providers after some of them were shut down.
Lessened(pr) ==
    /\ pr \in Seq(MadeType) /\ Len(pr) = Len(prov)
    /\ \A i \in 1 .. Len(prov) : /\ pr[i].type = prov[i].type /\ pr[i].config = prov[i].config
                                 /\ pr[i].state = prov[i].state /\ (pr[i].alive => prov[i].alive)

LEMMA DeadLessens == ASSUME ProvTypes, NEW o \in 1 .. Len(prov)
                     PROVE Lessened(Dead(o)) /\ ~Dead(o)[o].alive /\ \A i \in 1 .. Len(prov) \ {o} : Dead(o)[i] = prov[i]
<1>1. prov \in Seq(MadeType) /\ prov[o] \in MadeType
  BY DEF ProvTypes, RegTypes
<1>2. [prov[o] EXCEPT !.alive = FALSE] \in MadeType
  BY <1>1 DEF MadeType
<1>3. PICK m \in MadeType : m = [prov[o] EXCEPT !.alive = FALSE]
  BY <1>2
<1>4. m.type = prov[o].type /\ m.config = prov[o].config /\ m.state = prov[o].state /\ ~m.alive
  BY <1>1, <1>3 DEF MadeType
<1>5. Dead(o) = [prov EXCEPT ![o] = m]
  BY <1>3 DEF Dead
<1>6. Dead(o) \in Seq(MadeType) /\ Len(Dead(o)) = Len(prov) /\ Dead(o)[o] = m
      /\ \A i \in 1 .. Len(prov) \ {o} : Dead(o)[i] = prov[i]
  BY <1>1, <1>5
<1> QED
  BY <1>4, <1>6 DEF Lessened

LEMMA ItselfLessens == ASSUME ProvTypes PROVE Lessened(prov)
  BY DEF ProvTypes, RegTypes, Lessened

LEMMA EntriesGrow == ASSUME NEW T, NEW s \in Seq(T), NEW m \in T
               PROVE /\ Append(s, m) \in Seq(T) /\ Len(Append(s, m)) = Len(s) + 1
                     /\ Append(s, m)[Len(s) + 1] = m
                     /\ \A i \in 1 .. Len(s) : Append(s, m)[i] = s[i]
  OBVIOUS

\* Create: what is made, and what its caller goes on with.
LEMMA WhatIsMade ==
    ASSUME ProvTypes, NEW c \in Callers, NEW r \in AskedType, NEW pr, Lessened(pr), Create(c, r, pr)
    PROVE \E w \in AskedType, m \in MadeType :
             /\ who' = [who EXCEPT ![c] = w] /\ w.op = r.op /\ w.type = r.type /\ w.config = r.config
             /\ w.old = r.old /\ w.id = Len(prov) + 1
             /\ w.pc = IF category = "agent" THEN "got" ELSE "init"
             /\ prov' = Append(pr, m) /\ m.type = r.type /\ m.config = r.config
             /\ IF category = "agent" THEN m.alive ELSE ~m.alive /\ m.state # "ready"
             /\ reg' = [reg EXCEPT ![Key(r.type, r.config)] = Len(prov) + 1]
<1>1. Len(prov) \in Nat /\ Len(pr) = Len(prov) /\ category \in {"sandbox", "agent"}
  BY DEF ProvTypes, RegTypes, Lessened
<1>4. PICK n \in Nat : n = Len(prov) + 1
  BY <1>1
<1>2. CASE category = "agent"
  <2>1. (category = "agent") = TRUE
    BY <1>2
  <2>2. [type |-> r.type, config |-> r.config, alive |-> TRUE, state |-> "ready"] \in MadeType
    BY DEF MadeType, AskedType
  <2>3. PICK m \in MadeType : m = [type |-> r.type, config |-> r.config, alive |-> TRUE, state |-> "ready"]
    BY <2>2
  <2>4. [r EXCEPT !.pc = "got", !.id = n] \in AskedType
    BY DEF AskedType
  <2>5. PICK w \in AskedType : w = [r EXCEPT !.pc = "got", !.id = Len(prov) + 1]
    BY <1>4, <2>4
  <2>6. w.op = r.op /\ w.type = r.type /\ w.config = r.config /\ w.old = r.old /\ w.id = Len(prov) + 1 /\ w.pc = "got"
    BY <1>4, <2>5 DEF AskedType
  <2>7. m.type = r.type /\ m.config = r.config /\ m.alive
    BY <2>3
  <2>8. prov' = Append(pr, m) /\ who' = [who EXCEPT ![c] = w] /\ reg' = [reg EXCEPT ![Key(r.type, r.config)] = Len(prov) + 1]
    BY <1>1, <1>2, <2>1, <2>3, <2>5 DEF Create, Goes
  <2> QED
    BY <1>2, <2>6, <2>7, <2>8
<1>3. CASE category # "agent"
  <2>1. (category = "agent") = FALSE
    BY <1>3
  <2>2. [type |-> r.type, config |-> r.config, alive |-> FALSE, state |-> "initializing"] \in MadeType
    BY DEF MadeType, AskedType
  <2>3. PICK m \in MadeType : m = [type |-> r.type, config |-> r.config, alive |-> FALSE, state |-> "initializing"]
    BY <2>2
  <2>4. [r EXCEPT !.pc = "init", !.id = n] \in AskedType
    BY DEF AskedType
  <2>5. PICK w \in AskedType : w = [r EXCEPT !.pc = "init", !.id = Len(prov) + 1]
    BY <1>4, <2>4
  <2>6. w.op = r.op /\ w.type = r.type /\ w.config = r.config /\ w.old = r.old /\ w.id = Len(prov) + 1 /\ w.pc = "init"
    BY <1>4, <2>5 DEF AskedType
  <2>7. m.type = r.type /\ m.config = r.config /\ ~m.alive /\ m.state # "ready"
    BY <2>3
  <2>8. prov' = Append(pr, m) /\ who' = [who EXCEPT ![c] = w] /\ reg' = [reg EXCEPT ![Key(r.type, r.config)] = Len(prov) + 1]
    BY <1>1, <1>3, <2>1, <2>3, <2>5 DEF Create, Goes
  <2> QED
    BY <1>3, <2>6, <2>7, <2>8
<1> QED
  BY <1>2, <1>3

\* A call's record after a step of its own; the others keep theirs.
LEMMA GoesOn == ASSUME ProvTypes, NEW c \in Callers, NEW w \in AskedType, who' = [who EXCEPT ![c] = w]
                PROVE /\ who' \in [Callers -> AskedType] /\ who'[c] = w
                      /\ \A d \in Callers \ {c} : who'[d] = who[d]
  BY DEF ProvTypes, RegTypes

\* The providers' types and configurations stay, so the other calls' stages do.
LEMMA StagesStay ==
    ASSUME ProvInv, NEW c \in Callers, \A d \in Callers \ {c} : who'[d] = who[d], Stage(who[c])', UNCHANGED category,
           \A i \in 1 .. Len(prov) : prov'[i].type = prov[i].type /\ prov'[i].config = prov[i].config
    PROVE Stages'
<1> SUFFICES ASSUME NEW d \in Callers PROVE Stage(who[d])'
  BY DEF Stages
<1>1. CASE d = c
  BY <1>1
<1>2. CASE d # c
  <2>1. who'[d] = who[d] /\ Stage(who[d]) /\ who[d].id \in 0 .. Len(prov) /\ who[d].old \in 0 .. Len(prov)
        /\ Len(prov) \in Nat
    BY <1>2 DEF ProvInv, ProvTypes, RegTypes, Stages
  <2> QED
    BY <2>1 DEF Stage
<1> QED
  BY <1>1, <1>2

RegKept == RegTypes /\ Stages /\ KeysFit /\ Alone /\ Known

\* A provider is made: nothing of its type goes on beside it, and nothing of
\* its type runs in a sandbox.
LEMMA MakingKeeps ==
    ASSUME ProvInv, NEW c \in Callers, NEW r \in AskedType, NEW pr, Lessened(pr), Create(c, r, pr),
           r.old \in 0 .. Len(prov), UNCHANGED <<category, stopping>>, mixed \subseteq mixed', ousted \subseteq ousted',
           r.type \notin mixed' =>
              /\ stopping = NotStopping
              /\ \A d \in Callers \ {c} : Inside(d) => who[d].type # r.type
              /\ category = "sandbox" => \A i \in 1 .. Len(prov) :
                    prov[i].type = r.type /\ prov[i].state = "ready" => ~pr[i].alive,
           \A i \in 1 .. Len(prov) : prov[i].alive /\ ~pr[i].alive =>
              i \in ousted' \/ Key(prov[i].type, prov[i].config) = Key(r.type, r.config)
                            \/ ~Entered(i)
    PROVE  RegKept' /\ Len(prov') = Len(prov) + 1
           /\ \A i \in 1 .. Len(prov) : prov'[i].type = prov[i].type /\ prov'[i].config = prov[i].config
<1> DEFINE n == Len(prov) + 1
           key == Key(r.type, r.config)
<1>1. PICK w \in AskedType, m \in MadeType :
             /\ who' = [who EXCEPT ![c] = w] /\ w.op = r.op /\ w.type = r.type /\ w.config = r.config
             /\ w.old = r.old /\ w.id = n
             /\ w.pc = IF category = "agent" THEN "got" ELSE "init"
             /\ prov' = Append(pr, m) /\ m.type = r.type /\ m.config = r.config
             /\ IF category = "agent" THEN m.alive ELSE ~m.alive /\ m.state # "ready"
             /\ reg' = [reg EXCEPT ![key] = n]
  BY WhatIsMade DEF ProvInv
<1>2. pr \in Seq(MadeType) /\ Len(pr) = Len(prov) /\ Len(prov) \in Nat /\ category \in {"sandbox", "agent"}
      /\ r.type \in Types /\ r.config \in Configs /\ key \in Types \X Configs /\ prov \in Seq(MadeType)
      /\ DOMAIN prov = 1 .. Len(prov)
  BY ProvidersAssumption DEF ProvInv, ProvTypes, RegTypes, Lessened, AskedType, Key
<1>3. /\ prov' \in Seq(MadeType) /\ Len(prov') = n /\ prov'[n] = m /\ \A i \in 1 .. Len(prov) : prov'[i] = pr[i]
      /\ DOMAIN prov' = 1 .. n
  BY <1>1, <1>2, EntriesGrow
<1>4. \A i \in 1 .. Len(prov) : /\ prov'[i].type = prov[i].type /\ prov'[i].config = prov[i].config
                                /\ prov'[i].state = prov[i].state /\ (prov'[i].alive => prov[i].alive)
  BY <1>3 DEF Lessened
<1>5. reg' \in [Types \X Configs -> 0 .. n] /\ reg'[key] = n /\ \A k \in Types \X Configs \ {key} : reg'[k] = reg[k]
      /\ reg \in [Types \X Configs -> 0 .. Len(prov)]
  BY <1>1, <1>2 DEF ProvInv, ProvTypes, RegTypes
<1>6. who' \in [Callers -> AskedType] /\ who'[c] = w /\ \A d \in Callers \ {c} : who'[d] = who[d]
  BY <1>1, GoesOn DEF ProvInv
<1>7. \A d \in Callers : who'[d].id \in 0 .. n /\ who'[d].old \in 0 .. n
  BY <1>1, <1>2, <1>6 DEF ProvInv, ProvTypes, RegTypes
<1>8. RegTypes'
  BY <1>3, <1>5, <1>6, <1>7 DEF RegTypes
<1> HIDE DEF n, key
<1>9. n = Len(prov) + 1 /\ key = Key(r.type, r.config)
  BY DEF n, key
<1>10. Stages'
  <2>1. Stage(who[c])'
    BY <1>1, <1>2, <1>3, <1>6, <1>9 DEF Stage
  <2> QED
    BY <1>4, <1>6, <2>1, StagesStay
<1>11. KeysFit'
  <2> SUFFICES ASSUME NEW k \in Types \X Configs, reg'[k] # 0
               PROVE  k = Key(prov'[reg'[k]].type, prov'[reg'[k]].config)
    BY DEF KeysFit, Key
  <2>1. CASE k = key
    BY <1>1, <1>3, <1>5, <1>9, <2>1 DEF Key
  <2>2. CASE k # key
    <3>1. reg'[k] = reg[k] /\ reg[k] \in 1 .. Len(prov) /\ k = Key(prov[reg[k]].type, prov[reg[k]].config)
      BY <1>2, <1>5, <2>2 DEF ProvInv, KeysFit
    <3> QED
      BY <1>4, <3>1 DEF Key
  <2> QED
    BY <2>1, <2>2
<1>12. ASSUME NEW k \in Types \X Configs, k[1] # r.type PROVE reg'[k] = reg[k]
  BY <1>5, <1>9, <1>12 DEF Key
<1>13. Alone'
  <2> SUFFICES ASSUME NEW d \in Callers, Inside(d)', who'[d].type \notin mixed'
               PROVE  /\ stopping' = NotStopping
                      /\ \A e \in Callers \ {d} : Inside(e)' => who'[e].type # who'[d].type
                      /\ who'[d].pc = "init" => reg'[Key(who'[d].type, who'[d].config)] = who'[d].id
                      /\ who'[d].pc = "shut" /\ category' = "sandbox" =>
                            reg'[Key(who'[d].type, who'[d].config)] = who'[d].old
    BY DEF Alone, Key
  <2>1. \A e \in Callers \ {c} : Inside(e)' <=> Inside(e)
    BY <1>6 DEF Inside
  <2>2. CASE d = c
    <3>1. who'[d] = w /\ w.pc = "init" /\ category = "sandbox"
      BY <1>1, <1>2, <1>6, <2>2 DEF Inside
    <3> QED
      BY <1>1, <1>5, <1>6, <1>9, <2>1, <2>2, <3>1 DEF Key
  <2>3. CASE d # c
    <3>1. who'[d] = who[d] /\ Inside(d) /\ who[d].type \notin mixed /\ who[d].type # r.type /\ who[d] \in AskedType
      BY <1>6, <2>1, <2>3 DEF ProvInv, ProvTypes, RegTypes
    <3>2. who'[d].type # who'[c].type
      BY <1>1, <1>6, <3>1
    <3>3. Key(who[d].type, who[d].config) \in Types \X Configs /\ Key(who[d].type, who[d].config)[1] = who[d].type
      BY <3>1, ProvidersAssumption DEF Key, AskedType
    <3>4. reg'[Key(who[d].type, who[d].config)] = reg[Key(who[d].type, who[d].config)]
      BY <1>12, <3>1, <3>3
    <3>5. \A e \in Callers \ {d} : Inside(e)' => who'[e].type # who'[d].type
      BY <1>6, <2>1, <3>1, <3>2 DEF ProvInv, Alone
    <3> QED
      BY <3>1, <3>4, <3>5 DEF ProvInv, Alone, Key
  <2> QED
    BY <2>2, <2>3
<1>14. Known'
  <2> SUFFICES ASSUME NEW i \in 1 .. Len(prov'), prov'[i].type \notin mixed'
               PROVE  /\ prov'[i].alive /\ prov'[i].state = "ready" /\ category' = "sandbox" =>
                            Entered(i)' /\ (stopping' = NotStopping \/ i \in stopping')
                      /\ Entered(i)' /\ prov'[i].state = "ready" => prov'[i].alive \/ i \in ousted'
    BY <1>3 DEF Known
  <2>1. CASE i = n
    BY <1>1, <1>2, <1>3, <2>1
  <2>2. CASE i # n
    <3>1. i \in 1 .. Len(prov) /\ prov[i] \in MadeType /\ prov[i].type \notin mixed
      BY <1>2, <1>3, <1>4, <1>9, <2>2
    <3>2. Key(prov[i].type, prov[i].config) \in Types \X Configs /\ Key(prov[i].type, prov[i].config)[1] = prov[i].type
      BY <3>1, ProvidersAssumption DEF Key, MadeType
    <3>3. Entered(i)' <=> reg'[Key(prov[i].type, prov[i].config)] = i
      BY <1>4, <3>1 DEF Entered, Key
    <3>4. Entered(i)' => Entered(i) /\ Key(prov[i].type, prov[i].config) # key
      BY <1>2, <1>5, <1>9, <3>1, <3>2, <3>3 DEF Entered
    <3>5. ASSUME prov'[i].alive, prov'[i].state = "ready", category = "sandbox"
          PROVE  Entered(i)' /\ (stopping' = NotStopping \/ i \in stopping')
      <4>1. prov[i].alive /\ prov[i].state = "ready" /\ pr[i].alive
        BY <1>3, <1>4, <3>1, <3>5
      <4>2. prov[i].type # r.type
        BY <1>4, <3>1, <3>5, <4>1
      <4>3. Entered(i) /\ (stopping = NotStopping \/ i \in stopping)
        BY <1>2, <3>1, <3>5, <4>1 DEF ProvInv, Known
      <4> QED
        BY <1>12, <3>2, <3>3, <4>2, <4>3 DEF Entered
    <3>6. ASSUME Entered(i)', prov'[i].state = "ready" PROVE prov'[i].alive \/ i \in ousted'
      <4>1. Entered(i) /\ prov[i].state = "ready" /\ Key(prov[i].type, prov[i].config) # key
        BY <1>4, <3>1, <3>4, <3>6
      <4>2. prov[i].alive \/ i \in ousted
        BY <1>2, <3>1, <4>1 DEF ProvInv, Known
      <4> QED
        BY <1>3, <1>9, <3>1, <4>1, <4>2
    <3> QED
      BY <3>5, <3>6
  <2> QED
    BY <2>1, <2>2
<1> QED
  BY <1>3, <1>4, <1>8, <1>9, <1>10, <1>11, <1>13, <1>14 DEF RegKept

\* A caller goes on and nothing is registered; providers may have been shut down.
LEMMA GoingKeeps ==
    ASSUME ProvInv, NEW c \in Callers, NEW w \in AskedType, who' = [who EXCEPT ![c] = w],
           w.id \in 0 .. Len(prov), w.old \in 0 .. Len(prov), w.pc # "init",
           Lessened(prov'), UNCHANGED <<category, stopping>>, mixed \subseteq mixed', ousted \subseteq ousted',
           reg' \in [Types \X Configs -> 0 .. Len(prov)],
           \A k \in Types \X Configs : reg'[k] = reg[k] \/ (reg'[k] = 0 /\ category = "agent"),
           Stage(who[c])',
           \A i \in 1 .. Len(prov) : prov[i].alive /\ ~prov'[i].alive =>
              i \in ousted' \/ reg'[Key(prov[i].type, prov[i].config)] # i,
           w.pc \in {"shut", "clear"} /\ w.type \notin mixed' =>
              /\ stopping = NotStopping
              /\ \A d \in Callers \ {c} : Inside(d) => who[d].type # w.type
              /\ w.pc = "shut" /\ category = "sandbox" => reg[Key(w.type, w.config)] = w.old
    PROVE  RegKept' /\ Len(prov') = Len(prov)
           /\ \A i \in 1 .. Len(prov) : prov'[i].type = prov[i].type /\ prov'[i].config = prov[i].config
<1>1. prov' \in Seq(MadeType) /\ Len(prov') = Len(prov) /\ Len(prov) \in Nat /\ prov \in Seq(MadeType)
      /\ DOMAIN prov = 1 .. Len(prov) /\ DOMAIN prov' = 1 .. Len(prov)
      /\ \A i \in 1 .. Len(prov) : prov'[i].type = prov[i].type /\ prov'[i].config = prov[i].config
                                   /\ prov'[i].state = prov[i].state /\ (prov'[i].alive => prov[i].alive)
  BY DEF ProvInv, ProvTypes, RegTypes, Lessened
<1>2. who' \in [Callers -> AskedType] /\ who'[c] = w /\ \A d \in Callers \ {c} : who'[d] = who[d]
  BY GoesOn DEF ProvInv
<1>3. RegTypes'
  BY <1>1, <1>2 DEF ProvInv, ProvTypes, RegTypes
<1>4. Stages'
  BY <1>1, <1>2, StagesStay
<1>5. KeysFit'
  <2> SUFFICES ASSUME NEW k \in Types \X Configs, reg'[k] # 0
               PROVE  k = Key(prov'[reg'[k]].type, prov'[reg'[k]].config)
    BY DEF KeysFit, Key
  <2>1. reg'[k] = reg[k] /\ reg[k] \in 1 .. Len(prov) /\ k = Key(prov[reg[k]].type, prov[reg[k]].config)
    BY DEF ProvInv, ProvTypes, RegTypes, KeysFit
  <2> QED
    BY <1>1, <2>1
<1>6. Alone'
  <2> SUFFICES ASSUME NEW d \in Callers, Inside(d)', who'[d].type \notin mixed'
               PROVE  /\ stopping' = NotStopping
                      /\ \A e \in Callers \ {d} : Inside(e)' => who'[e].type # who'[d].type
                      /\ who'[d].pc = "init" => reg'[Key(who'[d].type, who'[d].config)] = who'[d].id
                      /\ who'[d].pc = "shut" /\ category' = "sandbox" =>
                            reg'[Key(who'[d].type, who'[d].config)] = who'[d].old
    BY DEF Alone, Key
  <2>1. \A e \in Callers \ {c} : Inside(e)' <=> Inside(e)
    BY <1>2 DEF Inside
  <2>2. Inside(c)' <=> w.pc \in {"shut", "clear"}
    BY <1>2 DEF Inside
  <2>3. CASE d = c
    <3>1. Key(w.type, w.config) \in Types \X Configs /\ category \in {"sandbox", "agent"}
      BY ProvidersAssumption DEF ProvInv, ProvTypes, AskedType, Key
    <3>2. category = "sandbox" => reg'[Key(w.type, w.config)] = reg[Key(w.type, w.config)]
      BY <3>1
    <3> QED
      BY <1>2, <2>1, <2>2, <2>3, <3>2
  <2>4. CASE d # c
    <3>1. who'[d] = who[d] /\ Inside(d) /\ who[d].type \notin mixed /\ Stage(who[d])
      BY <1>2, <2>1, <2>4 DEF ProvInv, Stages
    <3>3. Key(who[d].type, who[d].config) \in Types \X Configs
      BY <2>4, ProvidersAssumption DEF ProvInv, ProvTypes, RegTypes, AskedType, Key
    <3>4. who[d].pc = "init" \/ category = "sandbox" =>
             reg'[Key(who[d].type, who[d].config)] = reg[Key(who[d].type, who[d].config)]
      BY <3>1, <3>3 DEF Stage, ProvInv, ProvTypes
    <3>2. \A e \in Callers \ {d} : Inside(e)' => who'[e].type # who'[d].type
      BY <1>2, <2>1, <2>2, <2>4, <3>1 DEF ProvInv, Alone
    <3> QED
      BY <3>1, <3>2, <3>4 DEF ProvInv, Alone
  <2> QED
    BY <2>3, <2>4
<1>7. Known'
  <2> SUFFICES ASSUME NEW i \in 1 .. Len(prov), prov'[i].type \notin mixed'
               PROVE  /\ prov'[i].alive /\ prov'[i].state = "ready" /\ category' = "sandbox" =>
                            Entered(i)' /\ (stopping' = NotStopping \/ i \in stopping')
                      /\ Entered(i)' /\ prov'[i].state = "ready" => prov'[i].alive \/ i \in ousted'
    BY <1>1 DEF Known
  <2>1. prov[i] \in MadeType /\ prov[i].type \notin mixed
    BY <1>1
  <2>2. Key(prov[i].type, prov[i].config) \in Types \X Configs
    BY <2>1, ProvidersAssumption DEF MadeType, Key
  <2>3. Entered(i)' <=> reg'[Key(prov[i].type, prov[i].config)] = i
    BY <1>1 DEF Entered, Key
  <2>4. (Entered(i)' => Entered(i)) /\ (category = "sandbox" /\ Entered(i) => Entered(i)')
    BY <2>2, <2>3 DEF Entered
  <2>5. ASSUME prov'[i].alive, prov'[i].state = "ready", category = "sandbox"
        PROVE  Entered(i)' /\ (stopping' = NotStopping \/ i \in stopping')
    BY <1>1, <2>1, <2>4, <2>5 DEF ProvInv, Known
  <2>6. ASSUME Entered(i)', prov'[i].state = "ready" PROVE prov'[i].alive \/ i \in ousted'
    BY <1>1, <2>1, <2>3, <2>4, <2>6 DEF ProvInv, Known
  <2> QED
    BY <2>5, <2>6
<1> QED
  BY <1>1, <1>3, <1>4, <1>5, <1>6, <1>7 DEF RegKept

\* getInstance up to its first await.
LEMMA GetKeeps ==
    ASSUME ProvInv, NEW c \in Callers, NEW r \in AskedType, NEW pr, Lessened(pr), GetInstance(c, r, pr),
           r.id \in 0 .. Len(prov), r.old \in 0 .. Len(prov), UNCHANGED <<category, stopping>>, ousted \subseteq ousted',
           \A i \in 1 .. Len(prov) : prov[i].alive /\ ~pr[i].alive => i \in ousted'
    PROVE  /\ RegKept' /\ Len(prov') \in Nat /\ Len(prov') >= Len(prov) /\ mixed' \subseteq Types
           /\ \A i \in 1 .. Len(prov) : prov'[i].type = prov[i].type /\ prov'[i].config = prov[i].config
           /\ \A d \in Callers \ {c} : who'[d] = who[d]
           /\ who'[c].op = r.op /\ who'[c].type = r.type /\ who'[c].config = r.config
           /\ who'[c].pc \in {"shut", "clear", "init", "got"}
<1> DEFINE i == reg[Key(r.type, r.config)]
<1>1. r.type \in Types /\ r.config \in Configs /\ Key(r.type, r.config) \in Types \X Configs
  BY ProvidersAssumption DEF AskedType, Key
<1>2. i \in 0 .. Len(prov) /\ prov \in Seq(MadeType) /\ Len(prov) \in Nat /\ category \in {"sandbox", "agent"}
      /\ DOMAIN prov = 1 .. Len(prov) /\ mixed \subseteq Types
      /\ (i # 0 => Key(r.type, r.config) = Key(prov[i].type, prov[i].config))
  BY <1>1 DEF ProvInv, ProvTypes, RegTypes, KeysFit
<1>3. i # 0 => prov[i].type = r.type
  BY <1>2 DEF Key
<1>4. mixed \subseteq mixed' /\ mixed' \subseteq Types
      /\ (r.type \notin mixed' => /\ stopping = NotStopping
                                  /\ \A d \in Callers \ {c} : Inside(d) => who[d].type # r.type)
  BY <1>1, <1>2 DEF GetInstance
<1>5. \A j \in 1 .. Len(prov) : pr[j].type = prov[j].type /\ pr[j].config = prov[j].config /\ (pr[j].alive => prov[j].alive)
  BY DEF Lessened
<1>6. ASSUME NEW w \in AskedType, w.op = r.op, w.type = r.type, w.config = r.config, w.id \in 0 .. Len(prov),
             w.old \in 0 .. Len(prov), Goes(c, w), prov' = pr, UNCHANGED reg,
             \/ w.pc = "got" /\ w.id # 0 /\ prov[w.id].type = r.type /\ prov[w.id].config = r.config
             \/ w.pc = "clear" /\ category = "agent"
             \/ w.pc = "shut" /\ category = "sandbox" /\ w.old # 0 /\ w.old = i
      PROVE  /\ RegKept' /\ Len(prov') \in Nat /\ Len(prov') >= Len(prov)
             /\ \A j \in 1 .. Len(prov) : prov'[j].type = prov[j].type /\ prov'[j].config = prov[j].config
             /\ \A d \in Callers \ {c} : who'[d] = who[d]
             /\ who'[c] = w /\ who'[c].pc \in {"shut", "clear", "init", "got"}
  <2>1. who' = [who EXCEPT ![c] = w] /\ who'[c] = w /\ \A d \in Callers \ {c} : who'[d] = who[d]
    BY <1>6, GoesOn DEF Goes, ProvInv
  <2>2. Stage(who[c])'
    BY <1>2, <1>3, <1>5, <1>6, <2>1 DEF Stage
  <2>3. Lessened(prov') /\ w.pc # "init"
    BY <1>6
  <2>4. w.pc \in {"shut", "clear"} /\ w.type \notin mixed' =>
              /\ stopping = NotStopping
              /\ \A d \in Callers \ {c} : Inside(d) => who[d].type # w.type
              /\ w.pc = "shut" /\ category = "sandbox" => reg[Key(w.type, w.config)] = w.old
    BY <1>4, <1>6
  <2>6. reg' \in [Types \X Configs -> 0 .. Len(prov)] /\ \A k \in Types \X Configs : reg'[k] = reg[k]
    BY <1>6 DEF ProvInv, ProvTypes, RegTypes
  <2>7. \A j \in 1 .. Len(prov) : prov[j].alive /\ ~prov'[j].alive => j \in ousted'
    BY <1>6
  <2>5. RegKept' /\ Len(prov') = Len(prov)
    BY <1>4, <1>6, <2>1, <2>2, <2>3, <2>4, <2>6, <2>7, GoingKeeps
  <2> QED
    BY <1>2, <1>5, <1>6, <2>1, <2>5
<1>7. ASSUME Create(c, r, pr),
             category = "sandbox" => i = 0 \/ prov[i].state # "ready"
      PROVE  /\ RegKept' /\ Len(prov') \in Nat /\ Len(prov') >= Len(prov)
             /\ \A j \in 1 .. Len(prov) : prov'[j].type = prov[j].type /\ prov'[j].config = prov[j].config
  <2>1. ASSUME r.type \notin mixed', category = "sandbox", NEW j \in 1 .. Len(prov), prov[j].type = r.type,
               prov[j].state = "ready"
        PROVE  ~pr[j].alive
    <3>1. Key(prov[j].type, prov[j].config) = Key(r.type, r.config) /\ prov[j].type \notin mixed
      BY <1>4, <2>1 DEF Key
    <3>2. prov[j].alive => i = j
      BY <1>2, <2>1, <3>1 DEF ProvInv, Known, Entered
    <3> QED
      BY <1>2, <1>5, <1>7, <2>1, <3>2
  <2>2. RegKept' /\ Len(prov') = Len(prov) + 1
           /\ \A j \in 1 .. Len(prov) : prov'[j].type = prov[j].type /\ prov'[j].config = prov[j].config
    BY <1>4, <1>7, <2>1, MakingKeeps
  <2> QED
    BY <1>2, <2>2
<1> HIDE DEF i
<1>8. CASE SandboxInstance(c, r, pr)
  <2>1. CASE Fits(i, r.config) /\ Goes(c, [r EXCEPT !.pc = "got", !.id = i]) /\ prov' = pr /\ UNCHANGED reg
    <3>1. i # 0 /\ prov[i].config = r.config /\ i \in Nat
      BY <1>2, <2>1 DEF Fits, StateOf
    <3>2. [r EXCEPT !.pc = "got", !.id = i] \in AskedType
      BY <3>1 DEF AskedType
    <3>3. PICK w \in AskedType : w = [r EXCEPT !.pc = "got", !.id = i]
      BY <3>2
    <3>4. w.op = r.op /\ w.type = r.type /\ w.config = r.config /\ w.id = i /\ w.old = r.old /\ w.pc = "got"
      BY <3>3 DEF AskedType
    <3> QED
      BY <1>2, <1>3, <1>4, <1>6, <2>1, <3>1, <3>3, <3>4
  <2>2. CASE StateOf(i) = "ready" /\ Goes(c, [r EXCEPT !.pc = "shut", !.old = i]) /\ prov' = pr /\ UNCHANGED reg
    <3>1. i # 0 /\ i \in Nat /\ category = "sandbox"
      BY <1>2, <1>8, <2>2 DEF StateOf, SandboxInstance
    <3>2. [r EXCEPT !.pc = "shut", !.old = i] \in AskedType
      BY <3>1 DEF AskedType
    <3>3. PICK w \in AskedType : w = [r EXCEPT !.pc = "shut", !.old = i]
      BY <3>2
    <3>4. w.op = r.op /\ w.type = r.type /\ w.config = r.config /\ w.old = i /\ w.id = r.id /\ w.pc = "shut"
      BY <3>3 DEF AskedType
    <3> QED
      BY <1>2, <1>4, <1>6, <2>2, <3>1, <3>3, <3>4
  <2>3. CASE StateOf(i) # "ready" /\ Create(c, r, pr)
    <3>1. i = 0 \/ prov[i].state # "ready"
      BY <2>3 DEF StateOf
    <3>2. PICK w \in AskedType : who' = [who EXCEPT ![c] = w] /\ w.op = r.op /\ w.type = r.type /\ w.config = r.config
                                 /\ w.pc \in {"got", "init"}
      BY <2>3, WhatIsMade DEF ProvInv
    <3>3. who'[c] = w /\ \A d \in Callers \ {c} : who'[d] = who[d]
      BY <3>2, GoesOn DEF ProvInv
    <3> QED
      BY <1>4, <1>7, <2>3, <3>1, <3>2, <3>3
  <2> QED
    BY <1>8, <2>1, <2>2, <2>3 DEF SandboxInstance, i
<1>9. CASE AgentInstance(c, r, pr)
  <2>1. CASE Fits(i, r.config)
    <3>1. i # 0 /\ prov[i].config = r.config /\ i \in Nat
      BY <1>2, <2>1 DEF Fits, StateOf
    <3>2. [r EXCEPT !.pc = "got", !.id = i] \in AskedType
      BY <3>1 DEF AskedType
    <3>3. PICK w \in AskedType : w = [r EXCEPT !.pc = "got", !.id = i]
      BY <3>2
    <3>4. w.op = r.op /\ w.type = r.type /\ w.config = r.config /\ w.id = i /\ w.old = r.old /\ w.pc = "got"
      BY <3>3 DEF AskedType
    <3>5. Goes(c, w) /\ prov' = pr /\ UNCHANGED reg
      BY <1>9, <2>1, <3>3 DEF AgentInstance, i
    <3> QED
      BY <1>2, <1>3, <1>4, <1>6, <3>1, <3>4, <3>5
  <2>2. CASE ~Fits(i, r.config)
    <3>1. [r EXCEPT !.pc = "clear"] \in AskedType
      BY DEF AskedType
    <3>2. PICK w \in AskedType : w = [r EXCEPT !.pc = "clear"]
      BY <3>1
    <3>3. w.op = r.op /\ w.type = r.type /\ w.config = r.config /\ w.old = r.old /\ w.id = r.id /\ w.pc = "clear"
      BY <3>2 DEF AskedType
    <3>4. Goes(c, w) /\ prov' = pr /\ UNCHANGED reg /\ category = "agent"
      BY <1>9, <2>2, <3>2 DEF AgentInstance, i
    <3> QED
      BY <1>4, <1>6, <3>3, <3>4
  <2> QED
    BY <2>1, <2>2
<1> QED
  BY <1>8, <1>9 DEF GetInstance

-----------------------------------------------------------------------------
(* The steps of a call.                                                    *)

KeptTypes == \A i \in 1 .. Len(prov) : prov'[i].type = prov[i].type /\ prov'[i].config = prov[i].config

LEMMA RestTyped ==
    ASSUME ProvInv, RegTypes', Len(prov') \in Nat, Len(prov') >= Len(prov), UNCHANGED <<category, installed>>,
           active' \in 0 .. Len(prov'), managerCfg' \in Types \X Configs, loaderCfg' \in Types \X Configs, shown' \in Types,
           answer' \in {"none", "success", "failure"}, UNCHANGED stopping, mixed' \subseteq Types,
           jumbled' \in BOOLEAN, ousted' \subseteq 1 .. Len(prov')
    PROVE  ProvTypes'
  BY DEF ProvInv, ProvTypes, NotStopping

\* What the manager, the loader and the page know stays true of the switches
\* that only went on in the registry.
LEMMA SwitchStays ==
    ASSUME ProvInv, UNCHANGED <<active, managerCfg, loaderCfg, shown>>, jumbled' = jumbled, KeptTypes,
           Switching' = Switching,
           \A d \in Switching :
              /\ who'[d].type = who[d].type /\ who'[d].config = who[d].config
              /\ who'[d].pc \in {"shut", "clear", "init", "got"} => who[d].pc \in {"shut", "clear", "init", "got"}
              /\ who'[d].pc \in {"apply", "reply"} => who'[d].pc = who[d].pc
    PROVE  Switched'
<1> SUFFICES ASSUME ~jumbled PROVE Switched'
  BY DEF Switched
<1>1. active \in 0 .. Len(prov) /\ Len(prov) \in Nat
  BY DEF ProvInv, ProvTypes, RegTypes
<1>2. active # 0 => prov'[active].type = prov[active].type /\ prov'[active].config = prov[active].config
  BY <1>1 DEF KeptTypes
<1>3. Switching' = {} => managerCfg' = loaderCfg' /\ shown' = managerCfg'[1]
                         /\ (active' # 0 => <<prov'[active'].type, prov'[active'].config>> = managerCfg')
  BY <1>2 DEF ProvInv, Switched
<1>4. ASSUME NEW c \in Switching'
      PROVE  /\ Switching' = {c}
             /\ who'[c].pc \in {"shut", "clear", "init", "got", "apply", "reply"} =>
                   managerCfg' = <<who'[c].type, who'[c].config>>
             /\ who'[c].pc \in {"apply", "reply"} =>
                   active' # 0 /\ <<prov'[active'].type, prov'[active'].config>> = managerCfg'
             /\ who'[c].pc = "reply" => loaderCfg' = managerCfg'
  <2>1. c \in Switching /\ Switching = {c}
    BY <1>4 DEF ProvInv, Switched
  <2> QED
    BY <1>2, <2>1 DEF ProvInv, Switched
<1> QED
  BY <1>3, <1>4 DEF Switched

\* Only c went on.
LEMMA SwitchingOf == ASSUME ProvInv, NEW c \in Callers, \A d \in Callers \ {c} : who'[d] = who[d]
                     PROVE  /\ who'[c].op = "switch" => Switching' = Switching \cup {c}
                            /\ who'[c].op # "switch" => Switching' = Switching \ {c}
  BY DEF Switching

\* The rest of a step that only changes the record of c, in a way the registry
\* does not depend on.
LEMMA OutsideKeeps ==
    ASSUME ProvInv, NEW c \in Callers, NEW w \in AskedType, Goes(c, w), w.id \in 0 .. Len(prov), w.old \in 0 .. Len(prov),
           w.pc \notin {"shut", "clear", "init"}, UNCHANGED <<category, prov, reg, stopping, mixed, ousted>>,
           Stage(w)
    PROVE  RegKept' /\ KeptTypes /\ Len(prov') \in Nat /\ Len(prov') >= Len(prov)
           /\ who'[c] = w /\ \A d \in Callers \ {c} : who'[d] = who[d]
<1>1. who' = [who EXCEPT ![c] = w] /\ who'[c] = w /\ \A d \in Callers \ {c} : who'[d] = who[d]
  BY GoesOn DEF Goes, ProvInv
<1>2. Stage(who[c])'
  BY <1>1 DEF Stage
<1>3. Lessened(prov')
  BY ItselfLessens DEF ProvInv, Lessened
<1>4. reg' \in [Types \X Configs -> 0 .. Len(prov)] /\ \A k \in Types \X Configs : reg'[k] = reg[k]
  BY DEF ProvInv, ProvTypes, RegTypes
<1>6. \A i \in 1 .. Len(prov) : prov[i].alive /\ ~prov'[i].alive =>
         i \in ousted' \/ reg'[Key(prov[i].type, prov[i].config)] # i
  OBVIOUS
<1>7. UNCHANGED <<category, stopping>> /\ mixed \subseteq mixed' /\ ousted \subseteq ousted' /\ w.pc # "init"
      /\ w.pc \notin {"shut", "clear"}
  OBVIOUS
<1>8. RegKept' /\ Len(prov') = Len(prov)
  BY <1>1, <1>2, <1>3, <1>4, <1>6, <1>7, GoingKeeps
<1>5. RegKept' /\ Len(prov') = Len(prov) /\ Len(prov) \in Nat
  BY <1>8 DEF ProvInv, ProvTypes, RegTypes
<1> QED
  BY <1>1, <1>5 DEF KeptTypes

LEMMA ReplacedKeeps == ASSUME ProvInv, NEW c \in Callers, Replaced(c) PROVE ProvInv'
<1> DEFINE o == who[c].old
<1>1. who[c] \in AskedType /\ Stage(who[c]) /\ who[c].pc = "shut" /\ o \in 1 .. Len(prov) /\ prov[o] \in MadeType
      /\ prov[o].type = who[c].type /\ prov \in Seq(MadeType) /\ Len(prov) \in Nat /\ category \in {"sandbox", "agent"}
  BY DEF Replaced, ProvInv, ProvTypes, RegTypes, Stages, Stage
<1>2. Lessened(Dead(o)) /\ ~Dead(o)[o].alive /\ \A i \in 1 .. Len(prov) \ {o} : Dead(o)[i] = prov[i]
  BY <1>1, DeadLessens DEF ProvInv
<1>3. who[c].type \notin mixed =>
          /\ stopping = NotStopping /\ \A d \in Callers \ {c} : Inside(d) => who[d].type # who[c].type
          /\ category = "sandbox" => reg[Key(who[c].type, who[c].config)] = o
  BY <1>1 DEF ProvInv, Alone, Inside
<1>4. UNCHANGED <<category, installed, begun, active, managerCfg, loaderCfg, shown, answer, stopping, mixed, jumbled, ousted>>
  BY DEF Replaced, mgrVars, histVars
<1>5. /\ RegKept' /\ Len(prov') \in Nat /\ Len(prov') >= Len(prov) /\ KeptTypes
      /\ \E w \in AskedType : /\ who' = [who EXCEPT ![c] = w] /\ w.op = who[c].op /\ w.type = who[c].type
                              /\ w.config = who[c].config /\ w.pc \in {"clear", "init", "got"}
  <2>1. CASE category = "agent"
    <3> DEFINE key == Key(prov[o].type, prov[o].config)
    <3>1. prov' = Dead(o) /\ reg' = [reg EXCEPT ![key] = 0] /\ Goes(c, [who[c] EXCEPT !.pc = "clear", !.old = 0])
      BY <2>1 DEF Replaced
    <3>2. [who[c] EXCEPT !.pc = "clear", !.old = 0] \in AskedType
      BY <1>1 DEF AskedType
    <3>3. PICK w \in AskedType : w = [who[c] EXCEPT !.pc = "clear", !.old = 0]
      BY <3>2
    <3>4. /\ w.op = who[c].op /\ w.type = who[c].type /\ w.config = who[c].config /\ w.pc = "clear" /\ w.old = 0
          /\ w.id = who[c].id /\ who' = [who EXCEPT ![c] = w]
      BY <1>1, <3>1, <3>3 DEF AskedType, Goes
    <3>5. key \in Types \X Configs
      BY <1>1, ProvidersAssumption DEF MadeType, Key
    <3>6. reg' \in [Types \X Configs -> 0 .. Len(prov)] /\ reg'[key] = 0
          /\ \A k \in Types \X Configs : reg'[k] = reg[k] \/ (reg'[k] = 0 /\ category = "agent")
      BY <1>1, <2>1, <3>1, <3>5 DEF ProvInv, ProvTypes, RegTypes
    <3>7. \A i \in 1 .. Len(prov) : prov[i].alive /\ ~prov'[i].alive =>
                i \in ousted' \/ reg'[Key(prov[i].type, prov[i].config)] # i
      BY <1>1, <1>2, <3>1, <3>6
    <3>8. who'[c] = w
      BY <3>4, GoesOn DEF ProvInv
    <3>9. Stage(who[c])'
      BY <1>1, <1>4, <2>1, <3>4, <3>8 DEF Stage
    <3>10. w.id \in 0 .. Len(prov) /\ w.old \in 0 .. Len(prov) /\ w.pc # "init" /\ Lessened(prov')
      BY <1>1, <1>2, <3>1, <3>4 DEF ProvInv, ProvTypes, RegTypes
    <3>11. w.pc \in {"shut", "clear"} /\ w.type \notin mixed' =>
              /\ stopping = NotStopping
              /\ \A d \in Callers \ {c} : Inside(d) => who[d].type # w.type
              /\ w.pc = "shut" /\ category = "sandbox" => reg[Key(w.type, w.config)] = w.old
      BY <1>3, <1>4, <3>4
    <3>12. RegKept' /\ Len(prov') = Len(prov) /\ KeptTypes
      BY <1>4, <3>4, <3>6, <3>7, <3>9, <3>10, <3>11, GoingKeeps DEF KeptTypes
    <3>13. Len(prov') \in Nat /\ Len(prov') >= Len(prov)
      BY <1>1, <3>12
    <3> QED
      BY <3>4, <3>12, <3>13
  <2>2. CASE category = "sandbox"
    <3>1. [who[c] EXCEPT !.old = 0] \in AskedType
      BY <1>1 DEF AskedType
    <3>2. PICK r \in AskedType : r = [who[c] EXCEPT !.old = 0]
      BY <3>1
    <3>3. r.op = who[c].op /\ r.type = who[c].type /\ r.config = who[c].config /\ r.old = 0
      BY <1>1, <3>2 DEF AskedType
    <3>4. Create(c, r, Dead(o))
      BY <2>2, <3>2 DEF Replaced
    <3>5. \A i \in 1 .. Len(prov) : prov[i].alive /\ ~Dead(o)[i].alive =>
              i \in ousted' \/ Key(prov[i].type, prov[i].config) = Key(r.type, r.config) \/ ~Entered(i)
      <4>1. Key(prov[o].type, prov[o].config) = Key(r.type, r.config)
        BY <1>1, <2>2, <3>3 DEF Key
      <4> QED
        BY <1>2, <4>1
    <3>6. ASSUME r.type \notin mixed', NEW i \in 1 .. Len(prov), prov[i].type = r.type, prov[i].state = "ready"
          PROVE  ~Dead(o)[i].alive
      <4>1. prov[i].type \notin mixed /\ Key(prov[i].type, prov[i].config) = Key(who[c].type, who[c].config)
            /\ i \in DOMAIN prov
        BY <1>1, <1>4, <2>2, <3>3, <3>6 DEF Key
      <4>2. prov[i].alive => i = o
        BY <1>3, <1>4, <2>2, <3>3, <3>6, <4>1 DEF ProvInv, Known, Entered
      <4> QED
        BY <1>2, <4>2 DEF Lessened
    <3>7. RegKept' /\ Len(prov') = Len(prov) + 1 /\ KeptTypes
      BY <1>1, <1>2, <1>3, <1>4, <3>3, <3>4, <3>5, <3>6, MakingKeeps DEF KeptTypes
    <3>8. \E w \in AskedType : who' = [who EXCEPT ![c] = w] /\ w.op = r.op /\ w.type = r.type /\ w.config = r.config
                               /\ w.pc \in {"got", "init"}
      BY <1>2, <3>4, WhatIsMade DEF ProvInv
    <3>9. Len(prov') \in Nat /\ Len(prov') >= Len(prov)
      BY <1>1, <3>7
    <3> QED
      BY <3>3, <3>7, <3>8, <3>9
  <2> QED
    BY <1>1, <2>1, <2>2
<1> HIDE DEF o
<1>6. PICK w \in AskedType : /\ who' = [who EXCEPT ![c] = w] /\ w.op = who[c].op /\ w.type = who[c].type
                              /\ w.config = who[c].config /\ w.pc \in {"clear", "init", "got"}
  BY <1>5
<1>7. who'[c] = w /\ \A d \in Callers \ {c} : who'[d] = who[d]
  BY <1>6, GoesOn DEF ProvInv
<1>8. Switching' = Switching
  BY <1>6, <1>7 DEF Switching
<1>9. Switched'
  BY <1>1, <1>4, <1>5, <1>6, <1>7, <1>8, SwitchStays
<1>10. ProvTypes'
  <2>1. RegTypes'
    BY <1>5 DEF RegKept
  <2>2. active' \in 0 .. Len(prov') /\ ousted' \subseteq 1 .. Len(prov')
    BY <1>1, <1>4, <1>5 DEF ProvInv, ProvTypes
  <2> QED
    BY <1>4, <1>5, <2>1, <2>2, RestTyped DEF ProvInv, ProvTypes
<1> QED
  BY <1>5, <1>9, <1>10 DEF ProvInv, RegKept

\* A step of a call that only went on in the registry.
LEMMA RegistryStepped ==
    ASSUME ProvInv, NEW c \in Callers, NEW w \in AskedType, who' = [who EXCEPT ![c] = w], w.op = who[c].op,
           w.type = who[c].type, w.config = who[c].config, w.pc \in {"shut", "clear", "init", "got", "failed"},
           who[c].pc \in {"shut", "clear", "init"}, RegKept', Len(prov') \in Nat, Len(prov') >= Len(prov), KeptTypes,
           UNCHANGED <<category, installed, begun, active, managerCfg, loaderCfg, shown, answer, stopping, mixed,
                       jumbled, ousted>>
    PROVE  ProvInv'
<1>1. who'[c] = w /\ \A d \in Callers \ {c} : who'[d] = who[d]
  BY GoesOn DEF ProvInv
<1>2. Switching' = Switching
  BY <1>1 DEF Switching
<1>3. \A d \in Switching :
        /\ who'[d].type = who[d].type /\ who'[d].config = who[d].config
        /\ who'[d].pc \in {"shut", "clear", "init", "got"} => who[d].pc \in {"shut", "clear", "init", "got"}
        /\ who'[d].pc \in {"apply", "reply"} => who'[d].pc = who[d].pc
  BY <1>1 DEF Switching
<1>4. Switched'
  BY <1>2, <1>3, SwitchStays
<1>5. active' \in 0 .. Len(prov') /\ ousted' \subseteq 1 .. Len(prov') /\ Len(prov) \in Nat
  BY DEF ProvInv, ProvTypes, RegTypes
<1>6. ProvTypes'
  BY <1>5, RestTyped DEF ProvInv, ProvTypes, RegKept
<1> QED
  BY <1>4, <1>6 DEF ProvInv, RegKept

LEMMA ProvClearKeeps == ASSUME ProvInv, NEW c \in Callers, ClearNext(c) PROVE ProvInv'
<1>0. who[c].pc = "clear" /\ UNCHANGED <<category, installed, begun, mgrVars, answer, stopping, histVars>>
  BY Zenon DEF ClearNext
<1>6. \/ \E k \in DOMAIN reg : /\ reg[k] # 0 /\ k[1] = who[c].type
                             /\ Goes(c, [who[c] EXCEPT !.pc = "shut", !.old = reg[k]])
                             /\ UNCHANGED <<prov, reg>>
      \/ Create(c, who[c], prov)
  BY Zenon DEF ClearNext
<1>1. who[c] \in AskedType /\ Stage(who[c]) /\ who[c].pc = "clear" /\ category = "agent" /\ Inside(c)
      /\ who[c].id \in 0 .. Len(prov) /\ who[c].old \in 0 .. Len(prov) /\ prov \in Seq(MadeType) /\ Len(prov) \in Nat
  BY <1>0 DEF ProvInv, ProvTypes, RegTypes, Stages, Stage, Inside
<1>2. UNCHANGED <<category, installed, begun, active, managerCfg, loaderCfg, shown, answer, stopping, mixed, jumbled, ousted>>
  BY <1>0 DEF mgrVars, histVars
<1>3. who[c].type \notin mixed =>
          stopping = NotStopping /\ \A d \in Callers \ {c} : Inside(d) => who[d].type # who[c].type
  BY <1>1 DEF ProvInv, Alone
<1>4. ASSUME NEW k \in DOMAIN reg, reg[k] # 0, k[1] = who[c].type, UNCHANGED <<prov, reg>>,
             Goes(c, [who[c] EXCEPT !.pc = "shut", !.old = reg[k]])
      PROVE  ProvInv'
  <2>1. k \in Types \X Configs /\ reg[k] \in 1 .. Len(prov) /\ reg[k] \in Nat
        /\ k = Key(prov[reg[k]].type, prov[reg[k]].config)
    BY <1>1, <1>4 DEF ProvInv, ProvTypes, RegTypes, KeysFit
  <2>2. prov[reg[k]].type = who[c].type
    BY <1>4, <2>1 DEF Key
  <2>3. [who[c] EXCEPT !.pc = "shut", !.old = reg[k]] \in AskedType
    BY <1>1, <2>1 DEF AskedType
  <2>4. PICK w \in AskedType : w = [who[c] EXCEPT !.pc = "shut", !.old = reg[k]]
    BY <2>3
  <2>5. /\ w.op = who[c].op /\ w.type = who[c].type /\ w.config = who[c].config /\ w.pc = "shut" /\ w.old = reg[k]
        /\ w.id = who[c].id /\ who' = [who EXCEPT ![c] = w]
    BY <1>1, <1>4, <2>4 DEF AskedType, Goes
  <2>6. who'[c] = w /\ Lessened(prov')
    BY <1>4, <2>5, GoesOn, ItselfLessens DEF ProvInv, Lessened
  <2>7. Stage(who[c])'
    BY <1>4, <2>1, <2>2, <2>5, <2>6 DEF Stage
  <2>8. reg' \in [Types \X Configs -> 0 .. Len(prov)] /\ \A j \in Types \X Configs : reg'[j] = reg[j]
    BY <1>4 DEF ProvInv, ProvTypes, RegTypes
  <2>9. w.pc \in {"shut", "clear"} /\ w.type \notin mixed' =>
              /\ stopping = NotStopping
              /\ \A d \in Callers \ {c} : Inside(d) => who[d].type # w.type
              /\ w.pc = "shut" /\ category = "sandbox" => reg[Key(w.type, w.config)] = w.old
    BY <1>1, <1>2, <1>3, <2>5
  <2>10. \A i \in 1 .. Len(prov) : prov[i].alive /\ ~prov'[i].alive =>
            i \in ousted' \/ reg'[Key(prov[i].type, prov[i].config)] # i
    BY <1>4
  <2>11. w.id \in 0 .. Len(prov) /\ w.old \in 0 .. Len(prov) /\ w.pc # "init"
    BY <1>1, <2>1, <2>5
  <2>12. RegKept' /\ Len(prov') = Len(prov) /\ KeptTypes
    BY <1>2, <2>5, <2>6, <2>7, <2>8, <2>9, <2>10, <2>11, GoingKeeps DEF KeptTypes
  <2>13. Len(prov') \in Nat /\ Len(prov') >= Len(prov)
    BY <1>1, <2>12
  <2>14. w.pc \in {"shut", "clear", "init", "got", "failed"} /\ who[c].pc \in {"shut", "clear", "init"}
    BY <1>1, <2>5
  <2> QED
    BY <1>2, <2>5, <2>12, <2>13, <2>14, RegistryStepped
<1>5. CASE Create(c, who[c], prov)
  <2>1. Lessened(prov)
    BY ItselfLessens DEF ProvInv
  <2>2. \A i \in 1 .. Len(prov) : ~(prov[i].alive /\ ~prov[i].alive)
    OBVIOUS
  <2>3. RegKept' /\ Len(prov') = Len(prov) + 1 /\ KeptTypes
    BY <1>1, <1>2, <1>3, <1>5, <2>1, <2>2, MakingKeeps DEF KeptTypes
  <2>4. PICK w \in AskedType : who' = [who EXCEPT ![c] = w] /\ w.op = who[c].op /\ w.type = who[c].type
                               /\ w.config = who[c].config /\ w.pc \in {"got", "init"}
    BY <1>1, <1>5, <2>1, WhatIsMade DEF ProvInv
  <2>5. Len(prov') \in Nat /\ Len(prov') >= Len(prov)
    BY <1>1, <2>3
  <2> QED
    BY <1>1, <1>2, <2>3, <2>4, <2>5, RegistryStepped
<1> QED
  BY Zenon, <1>4, <1>5, <1>6

LEMMA InitialisedKeeps == ASSUME ProvInv, NEW c \in Callers, Initialised(c) PROVE ProvInv'
<1> DEFINE o == who[c].id
<1>1. who[c] \in AskedType /\ Stage(who[c]) /\ who[c].pc = "init" /\ category = "sandbox" /\ Inside(c)
      /\ o \in 1 .. Len(prov) /\ who[c].old \in 0 .. Len(prov) /\ prov \in Seq(MadeType) /\ Len(prov) \in Nat
      /\ prov[o] \in MadeType /\ prov[o].type = who[c].type /\ prov[o].config = who[c].config
      /\ DOMAIN prov = 1 .. Len(prov)
  BY DEF Initialised, ProvInv, ProvTypes, RegTypes, Stages, Stage, Inside
<1>2. UNCHANGED <<category, installed, reg, begun, active, managerCfg, loaderCfg, shown, answer, stopping, mixed, jumbled,
                  ousted>>
  BY DEF Initialised, mgrVars, histVars
<1>3. who[c].type \notin mixed =>
          /\ stopping = NotStopping /\ \A d \in Callers \ {c} : Inside(d) => who[d].type # who[c].type
          /\ reg[Key(who[c].type, who[c].config)] = o
  BY <1>1 DEF ProvInv, Alone
<1>4. PICK w \in AskedType, m \in MadeType :
         /\ who' = [who EXCEPT ![c] = w] /\ w.op = who[c].op /\ w.type = who[c].type /\ w.config = who[c].config
         /\ w.id = o /\ w.old = who[c].old /\ w.pc \in {"got", "failed"}
         /\ prov' = [prov EXCEPT ![o] = m] /\ m.type = prov[o].type /\ m.config = prov[o].config
         /\ m.state = "ready" => m.alive
  <2>1. CASE prov' = [prov EXCEPT ![o] = [@ EXCEPT !.state = "ready", !.alive = TRUE]]
             /\ Goes(c, [who[c] EXCEPT !.pc = "got"])
    <3>1. [who[c] EXCEPT !.pc = "got"] \in AskedType /\ [prov[o] EXCEPT !.state = "ready", !.alive = TRUE] \in MadeType
      BY <1>1 DEF AskedType, MadeType
    <3>2. PICK w \in AskedType : w = [who[c] EXCEPT !.pc = "got"]
      BY <3>1
    <3>3. PICK m \in MadeType : m = [prov[o] EXCEPT !.state = "ready", !.alive = TRUE]
      BY <3>1
    <3>4. w.op = who[c].op /\ w.type = who[c].type /\ w.config = who[c].config /\ w.id = o /\ w.old = who[c].old
          /\ w.pc = "got"
      BY <1>1, <3>2 DEF AskedType
    <3>5. m.type = prov[o].type /\ m.config = prov[o].config /\ m.alive
      BY <1>1, <3>3 DEF MadeType
    <3> QED
      BY <1>1, <2>1, <3>2, <3>3, <3>4, <3>5 DEF Goes
  <2>2. CASE prov' = [prov EXCEPT ![o].state = "error"] /\ Goes(c, [who[c] EXCEPT !.pc = "failed"])
    <3>1. [who[c] EXCEPT !.pc = "failed"] \in AskedType /\ [prov[o] EXCEPT !.state = "error"] \in MadeType
      BY <1>1 DEF AskedType, MadeType
    <3>2. PICK w \in AskedType : w = [who[c] EXCEPT !.pc = "failed"]
      BY <3>1
    <3>3. PICK m \in MadeType : m = [prov[o] EXCEPT !.state = "error"]
      BY <3>1
    <3>4. w.op = who[c].op /\ w.type = who[c].type /\ w.config = who[c].config /\ w.id = o /\ w.old = who[c].old
          /\ w.pc = "failed"
      BY <1>1, <3>2 DEF AskedType
    <3>5. m.type = prov[o].type /\ m.config = prov[o].config /\ m.state = "error"
      BY <1>1, <3>3 DEF MadeType
    <3> QED
      BY <1>1, <2>2, <3>2, <3>3, <3>4, <3>5 DEF Goes
  <2> QED
    BY <2>1, <2>2 DEF Initialised
<1>5. /\ prov' \in Seq(MadeType) /\ Len(prov') = Len(prov) /\ DOMAIN prov' = 1 .. Len(prov) /\ prov'[o] = m
      /\ \A i \in 1 .. Len(prov) \ {o} : prov'[i] = prov[i]
  BY <1>1, <1>4
<1>6. who' \in [Callers -> AskedType] /\ who'[c] = w /\ \A d \in Callers \ {c} : who'[d] = who[d]
  BY <1>4, GoesOn DEF ProvInv
<1> HIDE DEF o
<1>7. KeptTypes
  BY <1>4, <1>5 DEF KeptTypes
<1>8. RegTypes'
  BY <1>1, <1>2, <1>4, <1>5, <1>6 DEF ProvInv, ProvTypes, RegTypes
<1>9. Stages'
  <2>1. Stage(who[c])'
    BY <1>1, <1>4, <1>5, <1>6 DEF Stage
  <2> QED
    BY <1>2, <1>6, <1>7, <2>1, StagesStay DEF KeptTypes
<1>10. KeysFit'
  <2> SUFFICES ASSUME NEW k \in Types \X Configs, reg[k] # 0
               PROVE  k = Key(prov'[reg[k]].type, prov'[reg[k]].config)
    BY <1>2 DEF KeysFit, Key
  <2>1. reg[k] \in 1 .. Len(prov) /\ k = Key(prov[reg[k]].type, prov[reg[k]].config)
    BY <1>1 DEF ProvInv, ProvTypes, RegTypes, KeysFit
  <2> QED
    BY <1>7, <2>1 DEF KeptTypes
<1>11. Alone'
  <2>1. \A d \in Callers : Inside(d)' => d # c /\ Inside(d) /\ who'[d] = who[d]
    BY <1>4, <1>6 DEF Inside
  <2> QED
    BY <1>2, <2>1 DEF ProvInv, Alone, Key
<1>12. Known'
  <2> SUFFICES ASSUME NEW i \in 1 .. Len(prov), prov'[i].type \notin mixed
               PROVE  /\ prov'[i].alive /\ prov'[i].state = "ready" =>
                            Entered(i)' /\ (stopping' = NotStopping \/ i \in stopping')
                      /\ Entered(i)' /\ prov'[i].state = "ready" => prov'[i].alive \/ i \in ousted
    BY <1>2, <1>5 DEF Known
  <2>1. Entered(i)' <=> Entered(i)
    BY <1>2, <1>7 DEF Entered, Key, KeptTypes
  <2>2. CASE i = o
    BY <1>1, <1>2, <1>3, <1>4, <1>5, <2>1, <2>2 DEF Entered
  <2>3. CASE i # o
    BY <1>1, <1>2, <1>5, <2>1, <2>3 DEF ProvInv, Known
  <2> QED
    BY <2>2, <2>3
<1>13. RegKept' /\ Len(prov') \in Nat /\ Len(prov') >= Len(prov)
  BY <1>1, <1>5, <1>8, <1>9, <1>10, <1>11, <1>12 DEF RegKept
<1> QED
  BY <1>1, <1>2, <1>4, <1>7, <1>13, RegistryStepped

LEMMA StopAllKeeps == ASSUME ProvInv, StopAllBegins \/ StopAllEnds PROVE ProvInv'
<1>0. prov \in Seq(MadeType) /\ Len(prov) \in Nat /\ DOMAIN prov = 1 .. Len(prov)
      /\ reg \in [Types \X Configs -> 0 .. Len(prov)]
  BY DEF ProvInv, ProvTypes, RegTypes
<1>1. CASE StopAllBegins
  <2>1. UNCHANGED <<category, installed, prov, reg, who, active, managerCfg, loaderCfg, shown, answer, jumbled, ousted>>
        /\ stopping = NotStopping
    BY <1>1 DEF StopAllBegins, regVars, mgrVars
  <2>2. Registered \subseteq 1 .. Len(prov)
    BY <1>0 DEF Registered
  <2>3. \A c \in Callers : who[c].type \in Types
    BY DEF ProvInv, ProvTypes, RegTypes, AskedType
  <2>4. stopping' \subseteq 1 .. Len(prov) /\ mixed \subseteq mixed' /\ mixed' \subseteq Types
    BY <1>1, <2>2, <2>3 DEF StopAllBegins, ProvInv, ProvTypes
  <2>5. ProvTypes' /\ Stages' /\ KeysFit'
    BY <2>1, <2>4 DEF ProvInv, ProvTypes, RegTypes, Stages, Stage, KeysFit, Key
  <2>6. Alone'
    <3>1. \A c \in Callers : Inside(c)' => who'[c].type \in mixed'
      BY <1>1, <2>1 DEF StopAllBegins, Inside
    <3> QED
      BY <3>1 DEF Alone
  <2>7. Known'
    <3> SUFFICES ASSUME NEW i \in 1 .. Len(prov), prov[i].type \notin mixed'
                 PROVE  /\ prov[i].alive /\ prov[i].state = "ready" /\ category = "sandbox" =>
                              Entered(i)' /\ (stopping' = NotStopping \/ i \in stopping')
                        /\ Entered(i)' /\ prov[i].state = "ready" => prov[i].alive \/ i \in ousted
      BY <1>0, <2>1 DEF Known
    <3>1. Entered(i)' <=> Entered(i)
      BY <2>1 DEF Entered, Key
    <3>2. prov[i].type \notin mixed
      BY <2>4
    <3>3. ASSUME prov[i].alive, prov[i].state = "ready", category = "sandbox" PROVE Entered(i)' /\ i \in stopping'
      <4>1. Entered(i)
        BY <1>0, <3>2, <3>3 DEF ProvInv, Known
      <4>2. i \in Registered
        BY <1>0, <4>1, ItsOwnKey
      <4> QED
        BY <1>1, <3>1, <3>3, <4>1, <4>2 DEF StopAllBegins
    <3> QED
      BY <1>0, <3>1, <3>2, <3>3 DEF ProvInv, Known
  <2>8. Switched'
    BY <2>1, SwitchStays DEF KeptTypes, Switching
  <2> QED
    BY <2>5, <2>6, <2>7, <2>8 DEF ProvInv
<1>2. CASE StopAllEnds
  <2>1. UNCHANGED <<category, installed, who, active, managerCfg, loaderCfg, shown, answer, jumbled, ousted, mixed>>
        /\ stopping # NotStopping /\ stopping' = NotStopping /\ reg' = [k \in DOMAIN reg |-> 0]
        /\ prov' = [i \in DOMAIN prov |-> IF i \in stopping THEN [prov[i] EXCEPT !.alive = FALSE] ELSE prov[i]]
    BY <1>2 DEF StopAllEnds, mgrVars, histVars
  <2>2. \A i \in 1 .. Len(prov) : /\ prov'[i] \in MadeType /\ prov'[i].type = prov[i].type
                                  /\ prov'[i].config = prov[i].config /\ prov'[i].state = prov[i].state
                                  /\ (prov'[i].alive => prov[i].alive /\ i \notin stopping)
    <3> SUFFICES ASSUME NEW i \in 1 .. Len(prov)
                 PROVE  /\ prov'[i] \in MadeType /\ prov'[i].type = prov[i].type
                        /\ prov'[i].config = prov[i].config /\ prov'[i].state = prov[i].state
                        /\ (prov'[i].alive => prov[i].alive /\ i \notin stopping)
      OBVIOUS
    <3>1. prov[i] \in MadeType
      BY <1>0
    <3>2. CASE i \in stopping
      <4>1. prov'[i] = [prov[i] EXCEPT !.alive = FALSE]
        BY <1>0, <2>1, <3>2
      <4> QED
        BY <3>1, <4>1 DEF MadeType
    <3>3. CASE i \notin stopping
      <4>1. prov'[i] = prov[i]
        BY <1>0, <2>1, <3>3
      <4> QED
        BY <3>1, <3>3, <4>1
    <3> QED
      BY <3>2, <3>3
  <2>3. prov' \in Seq(MadeType) /\ Len(prov') = Len(prov) /\ DOMAIN prov' = 1 .. Len(prov)
    <3>1. prov' = [i \in 1 .. Len(prov) |-> prov'[i]]
      BY <1>0, <2>1
    <3> QED
      BY <1>0, <2>2, <3>1
  <2>4. reg' \in [Types \X Configs -> 0 .. Len(prov)] /\ \A k \in Types \X Configs : reg'[k] = 0
    BY <1>0, <2>1
  <2>5. KeptTypes
    BY <2>2 DEF KeptTypes
  <2>6. ProvTypes'
    BY <2>1, <2>3, <2>4 DEF ProvInv, ProvTypes, RegTypes
  <2>7. Stages'
    <3> SUFFICES ASSUME NEW c \in Callers PROVE Stage(who[c])'
      BY DEF Stages
    <3>1. Stage(who[c]) /\ who'[c] = who[c] /\ who[c].id \in 0 .. Len(prov) /\ who[c].old \in 0 .. Len(prov)
      BY <2>1 DEF ProvInv, ProvTypes, RegTypes, Stages
    <3> QED
      BY <1>0, <2>1, <2>5, <3>1 DEF Stage, KeptTypes
  <2>8. KeysFit'
    BY <2>4 DEF KeysFit
  <2>9. Alone'
    <3>1. \A c \in Callers : Inside(c)' => who'[c].type \in mixed'
      BY <2>1 DEF ProvInv, Alone, Inside
    <3> QED
      BY <3>1 DEF Alone
  <2>10. Known'
    <3> SUFFICES ASSUME NEW i \in 1 .. Len(prov), prov'[i].type \notin mixed
                 PROVE  ~(prov'[i].alive /\ prov'[i].state = "ready" /\ category = "sandbox") /\ ~Entered(i)'
      BY <2>1, <2>3 DEF Known
    <3>1. prov[i] \in MadeType /\ prov'[i] \in MadeType
      BY <1>0, <2>2
    <3>5. prov'[i].type \in Types /\ prov'[i].config \in Configs
      BY <3>1 DEF MadeType
    <3>2. Key(prov'[i].type, prov'[i].config) \in Types \X Configs
      BY <3>5, ProvidersAssumption DEF Key
    <3>3. reg'[Key(prov'[i].type, prov'[i].config)] = 0
      BY <2>4, <3>2
    <3>4. ~Entered(i)'
      BY <1>0, <2>1, <3>3 DEF Entered, Key
    <3> QED
      BY <1>0, <2>1, <2>2, <3>4 DEF ProvInv, Known
  <2>11. Switched'
    BY <2>1, <2>5, SwitchStays DEF Switching
  <2> QED
    BY <2>6, <2>7, <2>8, <2>9, <2>10, <2>11 DEF ProvInv
<1> QED
  BY <1>1, <1>2

-----------------------------------------------------------------------------
(* The steps of a switch.                                                  *)

LEMMA NobodyIs == /\ Nobody \in AskedType /\ Nobody.op = "none" /\ Nobody.pc = "idle" /\ Nobody.id = 0
                  /\ Nobody.old = 0 /\ Nobody.config = "none" /\ Nobody.type = "native" /\ Stage(Nobody)
  BY ProvidersAssumption DEF Nobody, AskedType, Stage

LEMMA SwitchStarts == ASSUME ProvInv, NEW c \in Callers, StartSwitch(c) PROVE ProvInv'
<1>1. PICK t \in Types, cfg \in Configs :
         LET r == [Nobody EXCEPT !.op = "switch", !.type = t, !.config = cfg] IN
         IF active = 0
           THEN Adopt(c, r, prov)
           ELSE /\ Goes(c, [r EXCEPT !.pc = "stopcur", !.old = active])
                /\ UNCHANGED <<prov, reg, managerCfg, mixed>>
  BY Zenon DEF StartSwitch
<1>2. [Nobody EXCEPT !.op = "switch", !.type = t, !.config = cfg] \in AskedType
  BY NobodyIs DEF AskedType
<1>3. PICK r \in AskedType : r = [Nobody EXCEPT !.op = "switch", !.type = t, !.config = cfg]
  BY <1>2
<1>4. r.op = "switch" /\ r.type = t /\ r.config = cfg /\ r.id = 0 /\ r.old = 0
  BY <1>3, NobodyIs DEF AskedType
<1>5. /\ who[c].pc = "idle" /\ answer' = "none" /\ jumbled' = (jumbled \/ Switching # {})
      /\ UNCHANGED <<category, installed, active, loaderCfg, shown, stopping, ousted>>
  BY DEF StartSwitch
<1>6. active \in 0 .. Len(prov) /\ Len(prov) \in Nat /\ jumbled \in BOOLEAN /\ active \in Nat
  BY DEF ProvInv, ProvTypes, RegTypes
<1>7. /\ RegKept' /\ KeptTypes /\ Len(prov') \in Nat /\ Len(prov') >= Len(prov) /\ mixed' \subseteq Types
      /\ managerCfg' \in Types \X Configs
      /\ \A d \in Callers \ {c} : who'[d] = who[d]
      /\ who'[c].op = "switch"
      /\ \/ who'[c].pc = "stopcur"
         \/ who'[c].pc \in {"shut", "clear", "init", "got"} /\ managerCfg' = <<who'[c].type, who'[c].config>>
  <2>1. CASE active = 0
    <3>1. managerCfg' = <<t, cfg>> /\ GetInstance(c, r, prov)
      BY <1>1, <1>3, <1>4, <2>1 DEF Adopt
    <3>2. Lessened(prov) /\ \A i \in 1 .. Len(prov) : ~(prov[i].alive /\ ~prov[i].alive)
      BY ItselfLessens DEF ProvInv
    <3>3. /\ RegKept' /\ Len(prov') \in Nat /\ Len(prov') >= Len(prov) /\ mixed' \subseteq Types /\ KeptTypes
          /\ \A d \in Callers \ {c} : who'[d] = who[d]
          /\ who'[c].op = r.op /\ who'[c].type = r.type /\ who'[c].config = r.config
          /\ who'[c].pc \in {"shut", "clear", "init", "got"}
      BY <1>4, <1>5, <1>6, <3>1, <3>2, GetKeeps DEF KeptTypes
    <3> QED
      BY <1>4, <3>1, <3>3
  <2>2. CASE active # 0
    <3>1. [r EXCEPT !.pc = "stopcur", !.old = active] \in AskedType
      BY <1>6 DEF AskedType
    <3>2. PICK w \in AskedType : w = [r EXCEPT !.pc = "stopcur", !.old = active]
      BY <3>1
    <3>3. w.op = "switch" /\ w.pc = "stopcur" /\ w.old = active /\ w.id = 0
      BY <1>4, <3>2 DEF AskedType
    <3>4. Goes(c, w) /\ UNCHANGED <<prov, reg, managerCfg, mixed>>
      BY <1>1, <1>3, <2>2, <3>2
    <3>5. Stage(w)
      BY <2>2, <3>3 DEF Stage
    <3>6. RegKept' /\ KeptTypes /\ Len(prov') \in Nat /\ Len(prov') >= Len(prov)
          /\ who'[c] = w /\ \A d \in Callers \ {c} : who'[d] = who[d]
      BY <1>5, <1>6, <3>3, <3>4, <3>5, OutsideKeeps
    <3> QED
      BY <3>3, <3>4, <3>6 DEF ProvInv, ProvTypes
  <2> QED
    BY <2>1, <2>2
<1>8. Switched'
  <2> SUFFICES ASSUME ~jumbled' PROVE Switched'
    BY DEF Switched
  <2>1. Switching = {} /\ Switching' = {c}
    BY <1>5, <1>7, SwitchingOf
  <2> QED
    BY <1>7, <2>1 DEF Switched
<1>9. ProvTypes'
  <2>1. active' \in 0 .. Len(prov') /\ ousted' \subseteq 1 .. Len(prov') /\ RegTypes'
    BY <1>5, <1>6, <1>7 DEF ProvInv, ProvTypes, RegKept
  <2> QED
    BY <1>5, <1>6, <1>7, <2>1, RestTyped DEF ProvInv, ProvTypes
<1> QED
  BY <1>7, <1>8, <1>9 DEF ProvInv, RegKept

LEMMA StoppedKeeps == ASSUME ProvInv, NEW c \in Callers, CurrentStopped(c) PROVE ProvInv'
<1> DEFINE o == who[c].old
<1>1. who[c] \in AskedType /\ Stage(who[c]) /\ who[c].pc = "stopcur" /\ who[c].op = "switch" /\ o \in 1 .. Len(prov)
      /\ who[c].id \in 0 .. Len(prov) /\ Len(prov) \in Nat /\ jumbled \in BOOLEAN
  BY DEF CurrentStopped, ProvInv, ProvTypes, RegTypes, Stages, Stage
<1>2. Lessened(Dead(o)) /\ \A i \in 1 .. Len(prov) \ {o} : Dead(o)[i] = prov[i]
  BY <1>1, DeadLessens DEF ProvInv
<1>3. [who[c] EXCEPT !.old = 0] \in AskedType
  BY <1>1 DEF AskedType
<1>4. PICK r \in AskedType : r = [who[c] EXCEPT !.old = 0]
  BY <1>3
<1>5. r.op = "switch" /\ r.type = who[c].type /\ r.config = who[c].config /\ r.id = who[c].id /\ r.old = 0
  BY <1>1, <1>4 DEF AskedType
<1>6. /\ active' = 0 /\ ousted' = ousted \cup {o} /\ managerCfg' = <<r.type, r.config>> /\ GetInstance(c, r, Dead(o))
      /\ UNCHANGED <<category, installed, begun, loaderCfg, shown, answer, stopping, jumbled>>
  BY <1>4 DEF CurrentStopped, Adopt
<1>7. \A i \in 1 .. Len(prov) : prov[i].alive /\ ~Dead(o)[i].alive => i \in ousted'
  BY <1>2, <1>6
<1>8. /\ RegKept' /\ Len(prov') \in Nat /\ Len(prov') >= Len(prov) /\ mixed' \subseteq Types /\ KeptTypes
      /\ \A d \in Callers \ {c} : who'[d] = who[d]
      /\ who'[c].op = r.op /\ who'[c].type = r.type /\ who'[c].config = r.config
      /\ who'[c].pc \in {"shut", "clear", "init", "got"}
  <2>1. r.id \in 0 .. Len(prov) /\ r.old \in 0 .. Len(prov) /\ ousted \subseteq ousted'
    BY <1>1, <1>5, <1>6
  <2> QED
    BY <1>2, <1>6, <1>7, <2>1, GetKeeps DEF KeptTypes
<1>9. Switched'
  <2> SUFFICES ASSUME ~jumbled PROVE Switched'
    BY <1>6 DEF Switched
  <2>1. Switching = {c}
    BY <1>1 DEF ProvInv, Switched, Switching
  <2>2. Switching' = {c}
    BY <1>5, <1>8, <2>1, SwitchingOf
  <2> QED
    BY <1>5, <1>6, <1>8, <2>2 DEF Switched
<1>10. ProvTypes'
  <2>2. r.type \in Types /\ r.config \in Configs
    BY DEF AskedType
  <2>3. managerCfg' \in Types \X Configs /\ RegTypes' /\ active' \in 0 .. Len(prov')
    BY <1>6, <1>8, <2>2 DEF RegKept
  <2>4. ousted \subseteq 1 .. Len(prov)
    BY DEF ProvInv, ProvTypes
  <2>1. active' \in 0 .. Len(prov') /\ ousted' \subseteq 1 .. Len(prov') /\ RegTypes' /\ managerCfg' \in Types \X Configs
    <3>1. ousted' \subseteq 1 .. Len(prov)
      BY <1>1, <1>6, <2>4
    <3>2. 1 .. Len(prov) \subseteq 1 .. Len(prov')
      BY <1>1, <1>8
    <3> QED
      BY <2>3, <3>1, <3>2
  <2> QED
    BY <1>6, <1>8, <2>1, RestTyped DEF ProvInv, ProvTypes
<1> QED
  BY <1>8, <1>9, <1>10 DEF ProvInv, RegKept

\* The steps of a switch outside the registry.
LEMMA SwitchGoesOn ==
    ASSUME ProvInv, NEW c \in Callers,
           CurrentWontStop(c) \/ Activate(c) \/ UpdateFromSettings(c) \/ SwitchShown(c) \/ SwitchFails(c)
    PROVE  ProvInv'
<1>1. who[c] \in AskedType /\ Stage(who[c]) /\ who[c].op = "switch" /\ Len(prov) \in Nat
      /\ who[c].id \in 0 .. Len(prov) /\ who[c].old \in 0 .. Len(prov) /\ jumbled \in BOOLEAN
      /\ who[c].type \in Types /\ who[c].config \in Configs
  BY DEF CurrentWontStop, Activate, UpdateFromSettings, SwitchShown, SwitchFails, ProvInv, ProvTypes, RegTypes, Stages,
         Stage, AskedType
<1>2. UNCHANGED <<category, installed, prov, reg, begun, managerCfg, answer, stopping, mixed, ousted>>
  BY DEF CurrentWontStop, Activate, UpdateFromSettings, SwitchShown, SwitchFails, mgrVars, histVars
<1>3. PICK pc \in {"failed", "apply", "reply", "idle"} :
         IF pc = "idle" THEN Goes(c, Nobody) ELSE Goes(c, [who[c] EXCEPT !.pc = pc])
  BY DEF CurrentWontStop, Activate, UpdateFromSettings, SwitchShown, SwitchFails
<1>4. PICK w \in AskedType : /\ Goes(c, w) /\ w.pc = pc /\ w.id \in 0 .. Len(prov) /\ w.old \in 0 .. Len(prov) /\ Stage(w)
                             /\ IF pc = "idle" THEN w.op = "none"
                                ELSE w.op = "switch" /\ w.type = who[c].type /\ w.config = who[c].config
                                     /\ w.id = who[c].id
  <2>1. CASE pc = "idle"
    BY <1>1, <1>3, <2>1, NobodyIs
  <2>2. CASE pc # "idle"
    <3>1. [who[c] EXCEPT !.pc = pc] \in AskedType
      BY <1>1 DEF AskedType
    <3>2. PICK w \in AskedType : w = [who[c] EXCEPT !.pc = pc]
      BY <3>1
    <3>3. w.op = "switch" /\ w.pc = pc /\ w.type = who[c].type /\ w.config = who[c].config /\ w.id = who[c].id
          /\ w.old = who[c].old
      BY <1>1, <3>2 DEF AskedType
    <3>4. Stage(w)
      BY <2>2, <3>3 DEF Stage
    <3> QED
      BY <1>1, <1>3, <2>2, <3>2, <3>3, <3>4
  <2> QED
    BY <2>1, <2>2
<1>5. RegKept' /\ KeptTypes /\ Len(prov') \in Nat /\ Len(prov') >= Len(prov)
      /\ who'[c] = w /\ \A d \in Callers \ {c} : who'[d] = who[d]
  BY <1>2, <1>4, OutsideKeeps
<1>6. ASSUME ~jumbled
      PROVE  Switching = {c} /\ (pc = "idle" => Switching' = {}) /\ (pc # "idle" => Switching' = {c})
  <2>1. Switching = {c}
    BY <1>1, <1>6 DEF ProvInv, Switched, Switching
  <2>2. w.op = "switch" => Switching' = {c}
    BY <1>5, <2>1, SwitchingOf
  <2>3. w.op # "switch" => Switching' = {}
    BY <1>5, <2>1, SwitchingOf
  <2> QED
    BY <1>4, <2>1, <2>2, <2>3
<1>7. Switched' /\ active' \in 0 .. Len(prov) /\ loaderCfg' \in Types \X Configs /\ shown' \in Types /\ jumbled' \in BOOLEAN
  <2>0. active \in 0 .. Len(prov) /\ loaderCfg \in Types \X Configs /\ shown \in Types
    BY DEF ProvInv, ProvTypes
  <2>1. CASE CurrentWontStop(c)
    <3>1. pc = "failed" /\ UNCHANGED <<active, loaderCfg, shown, jumbled>>
      BY <1>1, <1>4, <1>5, <2>1, GoesOn DEF CurrentWontStop, mgrVars, histVars, Goes, ProvInv, AskedType
    <3>2. Switched'
      BY <1>4, <1>5, <1>6, <3>1 DEF Switched
    <3> QED
      BY <1>1, <2>0, <3>1, <3>2
  <2>2. CASE Activate(c)
    <3>1. pc = "apply" /\ UNCHANGED <<loaderCfg, shown, jumbled>> /\ active' = who[c].id /\ who[c].pc = "got"
      BY <1>1, <1>4, <1>5, <2>2, GoesOn DEF Activate, histVars, Goes, ProvInv, AskedType
    <3>2. who[c].id # 0 /\ prov[who[c].id].type = who[c].type /\ prov[who[c].id].config = who[c].config
      BY <1>1, <3>1 DEF Stage
    <3>3. ~jumbled => managerCfg = <<who[c].type, who[c].config>>
      BY <1>6, <3>1 DEF ProvInv, Switched
    <3>4. Switched'
      BY <1>2, <1>4, <1>5, <1>6, <3>1, <3>2, <3>3 DEF Switched
    <3> QED
      BY <1>1, <2>0, <3>1, <3>4
  <2>3. CASE UpdateFromSettings(c)
    <3>4. Goes(c, [who[c] EXCEPT !.pc = "reply"])
      BY <2>3 DEF UpdateFromSettings
    <3>5. pc = "reply"
      BY <1>1, <1>4, <1>5, <3>4 DEF Goes, ProvInv, ProvTypes, RegTypes, AskedType
    <3>1. pc = "reply" /\ UNCHANGED <<active, shown, jumbled>> /\ loaderCfg' = <<who[c].type, who[c].config>>
          /\ who[c].pc = "apply"
      BY <2>3, <3>5 DEF UpdateFromSettings, histVars
    <3>2. ~jumbled => managerCfg = <<who[c].type, who[c].config>> /\ active # 0
                      /\ <<prov[active].type, prov[active].config>> = managerCfg
      BY <1>6, <3>1 DEF ProvInv, Switched
    <3>3. Switched'
      BY <1>2, <1>4, <1>5, <1>6, <3>1, <3>2 DEF Switched
    <3> QED
      BY <1>1, <2>0, <3>1, <3>3
  <2>4. CASE SwitchShown(c)
    <3>1. pc = "idle" /\ UNCHANGED <<active, loaderCfg, jumbled>> /\ shown' = who[c].type /\ who[c].pc = "reply"
      BY <1>1, <1>4, <1>5, <2>4, GoesOn, NobodyIs DEF SwitchShown, histVars, Goes, ProvInv
    <3>2. ~jumbled => managerCfg = <<who[c].type, who[c].config>> /\ active # 0 /\ loaderCfg = managerCfg
                      /\ <<prov[active].type, prov[active].config>> = managerCfg
      BY <1>6, <3>1 DEF ProvInv, Switched
    <3>3. Switched'
      BY <1>2, <1>6, <3>1, <3>2 DEF Switched
    <3> QED
      BY <1>1, <2>0, <3>1, <3>3
  <2>5. CASE SwitchFails(c)
    <3>1. jumbled' /\ UNCHANGED <<active, loaderCfg, shown>> /\ jumbled' \in BOOLEAN
      BY <2>5 DEF SwitchFails, mgrVars
    <3> QED
      BY <2>0, <3>1 DEF Switched
  <2> QED
    BY <2>1, <2>2, <2>3, <2>4, <2>5
<1>8. ProvTypes'
  <2>1. active' \in 0 .. Len(prov') /\ ousted' \subseteq 1 .. Len(prov') /\ RegTypes'
    BY <1>1, <1>2, <1>5, <1>7 DEF ProvInv, ProvTypes, RegKept
  <2> QED
    BY <1>2, <1>5, <1>7, <2>1, RestTyped DEF ProvInv, ProvTypes
<1> QED
  BY <1>5, <1>7, <1>8 DEF ProvInv, RegKept

-----------------------------------------------------------------------------
(* The sandbox routes.                                                     *)

LEMMA RouteStepped ==
    ASSUME ProvInv, NEW c \in Callers, RegKept', KeptTypes, Len(prov') \in Nat, Len(prov') >= Len(prov), mixed' \subseteq Types,
           \A d \in Callers \ {c} : who'[d] = who[d], who[c].op # "switch", who'[c].op # "switch",
           UNCHANGED <<category, installed, active, managerCfg, loaderCfg, shown, stopping, jumbled, ousted>>,
           answer' \in {"none", "success", "failure"}
    PROVE  ProvInv'
<1>1. Switching' = Switching
  BY DEF Switching
<1>2. \A d \in Switching : who'[d] = who[d]
  BY DEF Switching
<1>3. Switched'
  BY <1>1, <1>2, SwitchStays
<1>4. active' \in 0 .. Len(prov') /\ ousted' \subseteq 1 .. Len(prov') /\ RegTypes' /\ Len(prov) \in Nat
  BY DEF ProvInv, ProvTypes, RegTypes, RegKept
<1>5. ProvTypes'
  BY <1>4, RestTyped DEF ProvInv, ProvTypes
<1> QED
  BY <1>3, <1>5 DEF ProvInv, RegKept

\* A provider is asked for.
LEMMA RouteAsks ==
    ASSUME ProvInv, NEW c \in Callers, NEW r \in AskedType, r.id \in 0 .. Len(prov), r.old \in 0 .. Len(prov),
           r.op # "switch", GetInstance(c, r, prov), who[c].op # "switch",
           UNCHANGED <<category, installed, active, managerCfg, loaderCfg, shown, stopping, jumbled, ousted>>,
           answer' \in {"none", "success", "failure"}
    PROVE  ProvInv'
<1>1. Lessened(prov) /\ \A i \in 1 .. Len(prov) : ~(prov[i].alive /\ ~prov[i].alive)
  BY ItselfLessens DEF ProvInv
<1>2. /\ RegKept' /\ Len(prov') \in Nat /\ Len(prov') >= Len(prov) /\ mixed' \subseteq Types /\ KeptTypes
      /\ \A d \in Callers \ {c} : who'[d] = who[d]
      /\ who'[c].op = r.op
  BY <1>1, GetKeeps DEF KeptTypes
<1> QED
  BY <1>2, RouteStepped

\* Its record changes.
LEMMA RouteGoes ==
    ASSUME ProvInv, NEW c \in Callers, NEW w \in AskedType, Goes(c, w), w.id \in 0 .. Len(prov), w.old \in 0 .. Len(prov),
           w.pc \notin {"shut", "clear", "init"}, Stage(w), w.op # "switch", who[c].op # "switch",
           UNCHANGED <<category, installed, prov, reg, active, managerCfg, loaderCfg, shown, stopping, mixed, jumbled,
                       ousted>>,
           answer' \in {"none", "success", "failure"}
    PROVE  ProvInv'
<1>1. RegKept' /\ KeptTypes /\ Len(prov') \in Nat /\ Len(prov') >= Len(prov)
      /\ who'[c] = w /\ \A d \in Callers \ {c} : who'[d] = who[d]
  BY OutsideKeeps
<1>2. mixed' \subseteq Types
  BY DEF ProvInv, ProvTypes
<1> QED
  BY <1>1, <1>2, RouteStepped

LEMMA ExecStarts == ASSUME ProvInv, NEW c \in Callers, StartExec(c) PROVE ProvInv'
<1>0. who[c].pc = "idle" /\ answer' = "none" /\ UNCHANGED <<category, installed, mgrVars, stopping, jumbled, ousted>>
  BY Zenon DEF StartExec
<1>1. who[c].pc = "idle" /\ answer' \in {"none", "success", "failure"}
      /\ UNCHANGED <<category, installed, active, managerCfg, loaderCfg, shown, stopping, jumbled, ousted>>
  BY <1>0 DEF mgrVars
<1>2. who[c].op # "switch" /\ Len(prov) \in Nat
  BY <1>1 DEF ProvInv, ProvTypes, RegTypes, Stages, Stage
<1>3. ASSUME NEW t \in Types, GetInstance(c, [Nobody EXCEPT !.op = "exec", !.type = t], prov) PROVE ProvInv'
  <2>1. [Nobody EXCEPT !.op = "exec", !.type = t] \in AskedType
    BY NobodyIs DEF AskedType
  <2>2. PICK r \in AskedType : r = [Nobody EXCEPT !.op = "exec", !.type = t]
    BY <2>1
  <2>3. r.op = "exec" /\ r.id = 0 /\ r.old = 0
    BY <2>2, NobodyIs DEF AskedType
  <2>4. GetInstance(c, r, prov)
    BY Zenon, <1>3, <2>2
  <2>5. r.id \in 0 .. Len(prov) /\ r.old \in 0 .. Len(prov) /\ r.op # "switch"
    BY <1>2, <2>3
  <2> QED
    BY <1>1, <1>2, <2>4, <2>5, RouteAsks
<1>4. CASE Goes(c, [Nobody EXCEPT !.op = "exec", !.pc = "best"]) /\ UNCHANGED <<prov, reg, mixed>>
  <2>1. [Nobody EXCEPT !.op = "exec", !.pc = "best"] \in AskedType
    BY NobodyIs DEF AskedType
  <2>2. PICK w \in AskedType : w = [Nobody EXCEPT !.op = "exec", !.pc = "best"]
    BY <2>1
  <2>3. w.op = "exec" /\ w.pc = "best" /\ w.id = 0 /\ w.old = 0
    BY <2>2, NobodyIs DEF AskedType
  <2>4. Stage(w) /\ Goes(c, w)
    BY <1>4, <2>2, <2>3 DEF Stage
  <2> QED
    BY <1>1, <1>2, <1>4, <2>3, <2>4, RouteGoes
<1>5. \/ \E t \in Types : GetInstance(c, [Nobody EXCEPT !.op = "exec", !.type = t], prov)
      \/ Goes(c, [Nobody EXCEPT !.op = "exec", !.pc = "best"]) /\ UNCHANGED <<prov, reg, mixed>>
  BY Zenon DEF StartExec
<1> QED
  BY Zenon, <1>3, <1>4, <1>5

LEMMA BestKeeps == ASSUME ProvInv, NEW c \in Callers, BestProvider(c) PROVE ProvInv'
<1>1. who[c].pc = "best"
      /\ UNCHANGED <<category, installed, active, managerCfg, loaderCfg, shown, answer, stopping, jumbled, ousted>>
  BY DEF BestProvider, mgrVars
<1>2. who[c].op # "switch" /\ Len(prov) \in Nat /\ who[c] \in AskedType /\ prov \in Seq(MadeType)
      /\ who[c].id \in 0 .. Len(prov) /\ who[c].old \in 0 .. Len(prov) /\ DOMAIN prov = 1 .. Len(prov)
      /\ answer' \in {"none", "success", "failure"} /\ category \in {"sandbox", "agent"}
  BY <1>1 DEF ProvInv, ProvTypes, RegTypes, Stages, Stage
<1>3. CASE "codex" \in installed
  <2>1. "codex" \in Types /\ "none" \in Configs
    BY <1>3, ProvidersAssumption DEF ProvInv, ProvTypes
  <2>2. [type |-> "codex", config |-> "none", alive |-> TRUE, state |-> "own"] \in MadeType
    BY <2>1 DEF MadeType
  <2>3. PICK m \in MadeType : m = [type |-> "codex", config |-> "none", alive |-> TRUE, state |-> "own"]
    BY <2>2
  <2>4. PICK n \in Nat : n = Len(prov) + 1
    BY <1>2
  <2>5. [who[c] EXCEPT !.pc = "run", !.type = "codex", !.id = n] \in AskedType
    BY <1>2, <2>1 DEF AskedType
  <2>6. PICK w \in AskedType : w = [who[c] EXCEPT !.pc = "run", !.type = "codex", !.id = n]
    BY <2>5
  <2>7. w.pc = "run" /\ w.op = who[c].op /\ w.id = n /\ w.old = who[c].old
    BY <1>2, <2>6 DEF AskedType
  <2>8. prov' = Append(prov, m) /\ who' = [who EXCEPT ![c] = w] /\ UNCHANGED <<reg, mixed>> /\ m.state = "own"
    BY <1>3, <2>3, <2>4, <2>6 DEF BestProvider, Goes
  <2>9. /\ prov' \in Seq(MadeType) /\ Len(prov') = n /\ prov'[n] = m /\ \A i \in 1 .. Len(prov) : prov'[i] = prov[i]
        /\ DOMAIN prov' = 1 .. n
    BY <1>2, <2>4, <2>8, EntriesGrow
  <2>10. who' \in [Callers -> AskedType] /\ who'[c] = w /\ \A d \in Callers \ {c} : who'[d] = who[d]
    BY <2>8, GoesOn DEF ProvInv
  <2>11. KeptTypes /\ Stages'
    <3>1. KeptTypes
      BY <2>9 DEF KeptTypes
    <3>2. Stage(who[c])'
      BY <1>2, <2>7, <2>10 DEF Stage
    <3> QED
      BY <1>1, <2>10, <3>1, <3>2, StagesStay DEF KeptTypes
  <2>12. RegTypes'
    <3>1. \A d \in Callers : who'[d].id \in 0 .. n /\ who'[d].old \in 0 .. n
      BY <1>2, <2>4, <2>7, <2>10 DEF ProvInv, ProvTypes, RegTypes
    <3>2. reg' \in [Types \X Configs -> 0 .. n]
      BY <1>2, <2>4, <2>8 DEF ProvInv, ProvTypes, RegTypes
    <3> QED
      BY <2>9, <2>10, <3>1, <3>2 DEF RegTypes
  <2>13. KeysFit'
    <3> SUFFICES ASSUME NEW k \in Types \X Configs, reg[k] # 0
                 PROVE  k = Key(prov'[reg[k]].type, prov'[reg[k]].config)
      BY <1>1, <2>8 DEF KeysFit, Key
    <3>1. reg[k] \in 1 .. Len(prov) /\ k = Key(prov[reg[k]].type, prov[reg[k]].config)
      BY <1>2 DEF ProvInv, ProvTypes, RegTypes, KeysFit
    <3> QED
      BY <2>9, <3>1
  <2>14. Alone'
    <3>1. \A d \in Callers : Inside(d)' => d # c /\ Inside(d) /\ who'[d] = who[d]
      BY <2>7, <2>10 DEF Inside
    <3> QED
      BY <1>1, <2>8, <3>1 DEF ProvInv, Alone, Key
  <2>15. Known'
    <3> SUFFICES ASSUME NEW i \in 1 .. n, prov'[i].type \notin mixed
                 PROVE  /\ prov'[i].alive /\ prov'[i].state = "ready" /\ category = "sandbox" =>
                              Entered(i)' /\ (stopping' = NotStopping \/ i \in stopping')
                        /\ Entered(i)' /\ prov'[i].state = "ready" => prov'[i].alive \/ i \in ousted
      BY <1>1, <2>8, <2>9 DEF Known
    <3>1. CASE i = n
      BY <2>8, <2>9, <3>1
    <3>2. CASE i # n
      <4>1. i \in 1 .. Len(prov) /\ prov'[i] = prov[i]
        BY <1>2, <2>4, <2>9, <3>2
      <4>2. Entered(i)' <=> Entered(i)
        BY <1>1, <2>8, <4>1 DEF Entered, Key
      <4> QED
        BY <1>1, <1>2, <4>1, <4>2 DEF ProvInv, Known
    <3> QED
      BY <3>1, <3>2
  <2>16. Len(prov') \in Nat /\ Len(prov') >= Len(prov) /\ mixed' \subseteq Types
    BY <1>2, <2>4, <2>8, <2>9 DEF ProvInv, ProvTypes
  <2> QED
    BY <1>1, <1>2, <2>7, <2>10, <2>11, <2>12, <2>13, <2>14, <2>15, <2>16, RouteStepped DEF RegKept
<1>4. CASE "codex" \notin installed
  <2>1. [who[c] EXCEPT !.op = "fallback", !.type = "native"] \in AskedType
    BY <1>2, ProvidersAssumption DEF AskedType
  <2>2. PICK r \in AskedType : r = [who[c] EXCEPT !.op = "fallback", !.type = "native"]
    BY <2>1
  <2>3. r.op = "fallback" /\ r.id = who[c].id /\ r.old = who[c].old
    BY <1>2, <2>2 DEF AskedType
  <2>4. GetInstance(c, r, prov)
    BY <1>4, <2>2 DEF BestProvider
  <2> QED
    BY <1>1, <1>2, <2>3, <2>4, RouteAsks
<1> QED
  BY <1>3, <1>4

LEMMA FallbackKeeps == ASSUME ProvInv, NEW c \in Callers, ProviderWithFallback(c) PROVE ProvInv'
<1>1. who[c].op # "switch" /\ UNCHANGED <<category, installed, active, managerCfg, loaderCfg, shown, stopping, jumbled, ousted>>
  BY DEF ProviderWithFallback, mgrVars
<1>2. Len(prov) \in Nat /\ who[c] \in AskedType /\ Stage(who[c]) /\ who[c].id \in 0 .. Len(prov)
      /\ who[c].old \in 0 .. Len(prov) /\ answer \in {"none", "success", "failure"}
  BY DEF ProvInv, ProvTypes, RegTypes, Stages
<1>3. CASE Goes(c, [who[c] EXCEPT !.pc = "run"]) /\ UNCHANGED <<prov, reg, mixed, answer>>
  <2>1. [who[c] EXCEPT !.pc = "run"] \in AskedType
    BY <1>2 DEF AskedType
  <2>2. PICK w \in AskedType : w = [who[c] EXCEPT !.pc = "run"]
    BY <2>1
  <2>3. w.op = who[c].op /\ w.pc = "run" /\ w.id = who[c].id /\ w.old = who[c].old
    BY <1>2, <2>2 DEF AskedType
  <2>4. Stage(w) /\ Goes(c, w)
    BY <1>1, <1>3, <2>2, <2>3 DEF Stage
  <2> QED
    BY <1>1, <1>2, <1>3, <2>3, <2>4, RouteGoes
<1>4. CASE NativeFallback(c) /\ UNCHANGED answer
  <2>1. [Nobody EXCEPT !.op = "fallback"] \in AskedType
    BY NobodyIs DEF AskedType
  <2>2. PICK r \in AskedType : r = [Nobody EXCEPT !.op = "fallback"]
    BY <2>1
  <2>3. r.op = "fallback" /\ r.id = 0 /\ r.old = 0
    BY <2>2, NobodyIs DEF AskedType
  <2>4. GetInstance(c, r, prov)
    BY Zenon, <1>4, <2>2 DEF NativeFallback
  <2>5. r.id \in 0 .. Len(prov) /\ r.old \in 0 .. Len(prov) /\ r.op # "switch"
    BY <1>2, <2>3
  <2>6. answer' \in {"none", "success", "failure"}
    BY <1>2, <1>4
  <2> QED
    BY <1>1, <2>4, <2>5, <2>6, RouteAsks
<1>5. CASE Goes(c, Nobody) /\ answer' = "failure" /\ UNCHANGED <<prov, reg, mixed>>
  BY <1>1, <1>2, <1>5, NobodyIs, RouteGoes
<1> QED
  BY <1>3, <1>4, <1>5 DEF ProviderWithFallback

LEMMA RunKeeps == ASSUME ProvInv, NEW c \in Callers, NativeRuns(c) \/ CodexRuns(c) \/ ClaudeRuns(c) PROVE ProvInv'
<1>1. PICK how \in {"success", "failure"} : Answered(c, how)
  BY DEF NativeRuns, CodexRuns, ClaudeRuns, Answers
<1>2. who[c].pc = "run"
  BY DEF NativeRuns, CodexRuns, ClaudeRuns
<1>3. who[c].op # "switch" /\ Len(prov) \in Nat
  BY <1>2 DEF ProvInv, ProvTypes, RegTypes, Stages, Stage
<1>4. Goes(c, Nobody) /\ answer' = how
      /\ UNCHANGED <<category, installed, prov, reg, active, managerCfg, loaderCfg, shown, stopping, mixed, jumbled, ousted>>
  BY <1>1 DEF Answered, mgrVars, histVars
<1> QED
  BY <1>3, <1>4, NobodyIs, RouteGoes

LEMMA ProvKeeps == ProvInv /\ [ProviderNext]_providerVars => ProvInv'
<1>1. ASSUME ProvInv, UNCHANGED providerVars PROVE ProvInv'
  BY <1>1 DEF providerVars, regVars, mgrVars, histVars, ProvInv, ProvTypes, RegTypes, Stages, Stage, KeysFit, Key, Alone,
              Inside, Known, Entered, Switched, Switching
<1> QED
  BY <1>1, ReplacedKeeps, ProvClearKeeps, InitialisedKeeps, StopAllKeeps, SwitchStarts, StoppedKeeps, SwitchGoesOn, ExecStarts,
     BestKeeps, FallbackKeeps, RunKeeps DEF ProviderNext

\* The registries know their providers as long as calls for a type do not
\* overlap, and the manager, the loader, the settings page and the current
\* provider agree after every switch that was alone (registry.ts, manager.ts,
\* providers.ts), over every order of requests, switches, stops and failures.
THEOREM ProvidersAgree == ProviderSpec => [](ProviderTypeOK /\ RegistryKnowsItsProviders /\ SwitchesAgree)
<1>1. ProviderInit => ProvInv
  BY ProvStarts
<1>2. ProvInv /\ [ProviderNext]_providerVars => ProvInv'
  BY ProvKeeps
<1> QED
  BY <1>1, <1>2, ProvShows, PTL DEF ProviderSpec

-----------------------------------------------------------------------------
(* The live previews.                                                      *)

InstanceType == [task : PreviewTasks, port : 1 .. MaxPort, status : PreviewStatuses,
                 phase : {"files", "install", "wait", "over"}, process : BOOLEAN, health : BOOLEAN,
                 checks : 0 .. MaxChecks, idle : BOOLEAN]

PrevTypes ==
    /\ \E n \in Nat : previews \in [1 .. n -> InstanceType]
    /\ current \in [PreviewTasks -> {0} \cup Ids]
    /\ usedPorts \subseteq 1 .. MaxPort /\ config \in [PreviewTasks -> 0 .. MaxPort]
    /\ \A v \in vites : v \in [id : Ids, port : 1 .. MaxPort, doomed : BOOLEAN]
    /\ unsettled \in BOOLEAN

\* A task's entry is the task's, and is starting until it is over; a process
\* is started once, with the configuration there is then.
EntriesTheirs ==
    /\ \A t \in PreviewTasks : current[t] # 0 => previews[current[t]].task = t
    /\ \A i \in Ids : current[previews[i].task] = i /\ previews[i].phase # "over" => previews[i].status = "starting"
    /\ \A i \in Ids : previews[i].phase \in {"install", "wait"} => config[previews[i].task] # 0
    /\ \A v \in vites : previews[v.id].phase \notin {"files", "install"}
    /\ \A v, w \in vites : v.id = w.id => v = w

\* Until something met a server that had not settled.
PrevSettled == ~unsettled =>
    /\ usedPorts = {previews[i].port : i \in Live}
    /\ \A i, j \in Live : previews[i].port = previews[j].port => i = j
    /\ \A i \in Ids : previews[i].phase # "over" => i \in Live
    /\ \A i \in Ids : previews[i].phase = "install" => config[previews[i].task] = previews[i].port
    /\ \A v \in vites : v.doomed \/ (/\ v.id \in Live /\ v.port = previews[v.id].port
                                     /\ previews[v.id].process)

PrevInv == PrevTypes /\ EntriesTheirs /\ PreviewsLimited /\ PrevSettled

\* What runs, or is being checked, is done starting.
ChecksAreOver == \A i \in Ids : previews[i].status = "running" \/ previews[i].checks > 0 => previews[i].phase = "over"

LEMMA LeastPort == ASSUME NEW S, S \subseteq Nat, S # {} PROVE Lowest(S) \in S
<1> DEFINE R == OpToRel(<, Nat)
<1>1. IsWellFoundedOn(R, Nat)
  BY Zenon, NatLessThanWellFounded
<1> HIDE DEF R
<1>2. PICK p \in S : \A q \in S : <<q, p>> \notin R
  BY <1>1, WFMin
<1>3. \A q \in S : ~(q < p)
  BY <1>2 DEF OpToRel, R
<1>4. \A q \in S : p <= q
  BY <1>3
<1> QED
  BY <1>4 DEF Lowest

LEMMA IdsAre == ASSUME PrevTypes PROVE /\ \E n \in Nat : Ids = 1 .. n /\ Cardinality(Ids) = n
                                       /\ previews \in [Ids -> InstanceType] /\ IsFiniteSet(Ids)
                                       /\ Ids \subseteq Nat \ {0}
<1>1. PICK n \in Nat : previews \in [1 .. n -> InstanceType]
  BY DEF PrevTypes
<1>2. Ids = 1 .. n
  BY <1>1 DEF Ids
<1>3. IsFiniteSet(1 .. n) /\ Cardinality(1 .. n) = n
  BY FS_Interval
<1> QED
  BY <1>1, <1>2, <1>3

LEMMA LiveIs == ASSUME PrevInv
                PROVE  /\ \A i \in Ids : i \in Live <=> /\ current[previews[i].task] = i
                                                       /\ previews[i].status \in {"starting", "running"}
                       /\ Live \subseteq Ids /\ IsFiniteSet(Live) /\ Cardinality(Live) \in Nat
<1>1. previews \in [Ids -> InstanceType] /\ IsFiniteSet(Ids) /\ Ids \subseteq Nat \ {0}
  BY IdsAre DEF PrevInv
<1>2. \A i \in Ids : previews[i].task \in PreviewTasks
  BY <1>1 DEF InstanceType
<1>3. \A i \in Ids : \A t \in PreviewTasks : current[t] = i => previews[i].task = t
  BY <1>1 DEF PrevInv, EntriesTheirs
<1>4. Live \subseteq Ids
  BY DEF Live
<1>5. IsFiniteSet(Live) /\ Cardinality(Live) \in Nat
  BY <1>1, <1>4, FS_Subset, FS_CardinalityType
<1> QED
  BY <1>2, <1>3, <1>4, <1>5 DEF Live

\* The same of the next state.
LEMMA LiveIsThen ==
    ASSUME PrevTypes', \A t \in PreviewTasks : current'[t] # 0 => previews'[current'[t]].task = t
    PROVE  /\ \A i \in Ids' : i \in Live' <=> /\ current'[previews'[i].task] = i
                                             /\ previews'[i].status \in {"starting", "running"}
           /\ Live' \subseteq Ids'
<1>1. PICK n \in Nat : previews' \in [1 .. n -> InstanceType]
  BY DEF PrevTypes, InstanceType
<1>2. Ids' = 1 .. n
  BY <1>1 DEF Ids
<1>3. \A i \in Ids' : previews'[i].task \in PreviewTasks
  BY <1>1, <1>2 DEF InstanceType
<1>4. \A i \in Ids' : \A t \in PreviewTasks : current'[t] = i => previews'[i].task = t
  BY <1>2
<1> QED
  BY <1>3, <1>4 DEF Live

LEMMA PrevStarts == PreviewInit => PrevInv
<1> SUFFICES ASSUME PreviewInit PROVE PrevInv
  OBVIOUS
<1>1. previews \in [1 .. 0 -> InstanceType] /\ Ids = {}
  BY DEF PreviewInit, Ids
<1>2. PrevTypes
  <2>1. \E n \in Nat : previews \in [1 .. n -> InstanceType]
    BY <1>1
  <2>2. config \in [PreviewTasks -> 0 .. MaxPort]
    BY PreviewAssumption DEF PreviewInit
  <2> QED
    BY <2>1, <2>2 DEF PreviewInit, PrevTypes
<1>3. Live = {} /\ Cardinality(Live) = 0
  BY <1>1, FS_EmptySet DEF Live
<1>4. EntriesTheirs
  BY <1>1 DEF PreviewInit, EntriesTheirs
<1>5. PreviewsLimited
  BY <1>3, PreviewAssumption DEF PreviewsLimited
<1>6. PrevSettled
  BY <1>1, <1>3 DEF PreviewInit, PrevSettled
<1> QED
  BY <1>2, <1>4, <1>5, <1>6 DEF PrevInv

LEMMA PrevShows == PrevInv => PreviewTypeOK /\ PreviewsLimited /\ PreviewsOwnPorts
<1> SUFFICES ASSUME PrevInv PROVE PreviewTypeOK /\ PreviewsLimited /\ PreviewsOwnPorts
  OBVIOUS
<1>1. previews \in [Ids -> InstanceType] /\ Ids = 1 .. Cardinality(Ids)
  BY IdsAre DEF PrevInv
<1>2. PreviewTypeOK
  <2>1. \A i \in Ids : previews[i] \in InstanceType
    BY <1>1
  <2>2. \A v \in vites : v.id \in Ids /\ v.port \in 1 .. MaxPort /\ v.doomed \in BOOLEAN
    BY DEF PrevInv, PrevTypes
  <2>3. \A i \in Ids :
         /\ previews[i].task \in PreviewTasks /\ previews[i].port \in 1 .. MaxPort
         /\ previews[i].status \in PreviewStatuses
         /\ previews[i].phase \in {"files", "install", "wait", "over"}
         /\ {previews[i].process, previews[i].health, previews[i].idle} \subseteq BOOLEAN
         /\ previews[i].checks \in 0 .. MaxChecks
    BY <2>1 DEF InstanceType
  <2> QED
    BY <1>1, <2>2, <2>3 DEF PrevInv, PrevTypes, PreviewTypeOK
<1>3. PreviewsOwnPorts
  BY DEF PrevInv, PrevSettled, PreviewsOwnPorts
<1> QED
  BY <1>2, <1>3 DEF PrevInv

\* One instance changes: its task and its port stay.
LEMMA OneChanges ==
    ASSUME PrevInv, NEW i \in Ids, NEW p \in InstanceType, previews' = [previews EXCEPT ![i] = p],
           p.task = previews[i].task, p.port = previews[i].port
    PROVE  /\ Ids' = Ids /\ previews' \in [Ids -> InstanceType] /\ previews'[i] = p
           /\ \A j \in Ids \ {i} : previews'[j] = previews[j]
           /\ \A j \in Ids : previews'[j].task = previews[j].task /\ previews'[j].port = previews[j].port
           /\ \E n \in Nat : previews' \in [1 .. n -> InstanceType]
<1>1. PICK n \in Nat : previews \in [1 .. n -> InstanceType]
  BY DEF PrevInv, PrevTypes
<1>2. Ids = 1 .. n /\ previews' \in [1 .. n -> InstanceType]
  BY <1>1 DEF Ids
<1> QED
  BY <1>1, <1>2 DEF Ids

\* Fewer live previews are within the limit.
LEMMA FewerLive == ASSUME PrevInv, Live' \subseteq Live PROVE PreviewsLimited'
<1>1. IsFiniteSet(Live) /\ Cardinality(Live) \in Nat /\ Cardinality(Live) <= MaxPreviews
  BY LiveIs DEF PrevInv, PreviewsLimited
<1>2. IsFiniteSet(Live') /\ Cardinality(Live') <= Cardinality(Live) /\ Cardinality(Live') \in Nat
  BY <1>1, FS_Subset, FS_CardinalityType
<1> QED
  BY <1>1, <1>2, PreviewAssumption DEF PreviewsLimited

-----------------------------------------------------------------------------
(* The steps of a start, and of timers.                                    *)

\* What one instance is about to be asked changes, and nothing else of it.
LEMMA TimersKeep ==
    ASSUME PrevInv, NEW i \in Ids, NEW p \in InstanceType, previews' = [previews EXCEPT ![i] = p],
           p.task = previews[i].task, p.port = previews[i].port, p.status = previews[i].status,
           p.phase = previews[i].phase, p.process = previews[i].process,
           UNCHANGED <<current, usedPorts, config, vites, unsettled>>
    PROVE  PrevInv'
<1>6. /\ Ids' = Ids /\ \E n \in Nat : previews' \in [1 .. n -> InstanceType]
      /\ \A j \in Ids : /\ previews'[j].task = previews[j].task /\ previews'[j].port = previews[j].port
                        /\ previews'[j].status = previews[j].status /\ previews'[j].phase = previews[j].phase
                        /\ previews'[j].process = previews[j].process
  BY OneChanges
<1>7. PrevTypes'
  BY <1>6 DEF PrevInv, PrevTypes
<1>8. \A t \in PreviewTasks : current[t] # 0 => current[t] \in Ids
  BY DEF PrevInv, PrevTypes
<1>9. EntriesTheirs'
  <2>1. \A v \in vites : v.id \in Ids
    BY DEF PrevInv, PrevTypes
  <2> QED
    BY <1>6, <1>8, <2>1 DEF PrevInv, EntriesTheirs
<1>10. Live' = Live
  BY <1>6 DEF Live
<1>11. PreviewsLimited'
  BY <1>10 DEF PrevInv, PreviewsLimited
<1>12. PrevSettled'
  <2>1. Live \subseteq Ids /\ \A v \in vites : v.id \in Ids
    BY LiveIs DEF PrevInv, PrevTypes
  <2>2. {previews'[j].port : j \in Live} = {previews[j].port : j \in Live}
    BY <1>6, <2>1
  <2> QED
    BY <1>6, <1>10, <2>1, <2>2 DEF PrevInv, PrevSettled
<1> QED
  BY <1>7, <1>9, <1>11, <1>12 DEF PrevInv

\* The idle time of one instance starts or ends.
LEMMA IdleKeeps ==
    ASSUME PrevInv, NEW i \in Ids, NEW b \in BOOLEAN, previews' = [previews EXCEPT ![i].idle = b],
           UNCHANGED <<current, usedPorts, config, vites, unsettled>>
    PROVE  PrevInv'
<1>1. previews[i] \in InstanceType
  BY IdsAre DEF PrevInv
<1>2. [previews[i] EXCEPT !.idle = b] \in InstanceType
  BY <1>1 DEF InstanceType
<1>3. PICK p \in InstanceType : p = [previews[i] EXCEPT !.idle = b]
  BY <1>2
<1>4. p.task = previews[i].task /\ p.port = previews[i].port /\ p.status = previews[i].status
      /\ p.phase = previews[i].phase /\ p.process = previews[i].process
  BY <1>1, <1>3 DEF InstanceType
<1>5. previews' = [previews EXCEPT ![i] = p]
  BY <1>3
<1> QED
  BY <1>4, <1>5, TimersKeep

LEMMA ChecksKeep == ASSUME PrevInv, NEW i \in Ids, LookAtHealth(i) \/ CheckPasses(i) PROVE PrevInv'
<1>1. previews[i] \in InstanceType /\ previews[i].checks \in 0 .. MaxChecks
  BY IdsAre DEF PrevInv, InstanceType
<1>2. PICK k \in 0 .. MaxChecks : previews' = [previews EXCEPT ![i].checks = k]
  <2>1. CASE LookAtHealth(i)
    <3>1. previews[i].checks + 1 \in 0 .. MaxChecks
      BY <1>1, <2>1, PreviewAssumption DEF LookAtHealth
    <3> QED
      BY <2>1, <3>1 DEF LookAtHealth
  <2>2. CASE CheckPasses(i)
    <3>1. previews[i].checks - 1 \in 0 .. MaxChecks
      BY <1>1, <2>2, PreviewAssumption DEF CheckPasses
    <3> QED
      BY <2>2, <3>1 DEF CheckPasses
  <2> QED
    BY <2>1, <2>2
<1>3. [previews[i] EXCEPT !.checks = k] \in InstanceType
  BY <1>1 DEF InstanceType
<1>4. PICK p \in InstanceType : p = [previews[i] EXCEPT !.checks = k]
  BY <1>3
<1>5. p.task = previews[i].task /\ p.port = previews[i].port /\ p.status = previews[i].status
      /\ p.phase = previews[i].phase /\ p.process = previews[i].process
  BY <1>1, <1>4 DEF InstanceType
<1>6. previews' = [previews EXCEPT ![i] = p]
  BY <1>2, <1>4
<1>7. UNCHANGED <<current, usedPorts, config, vites, unsettled>>
  BY DEF LookAtHealth, CheckPasses
<1> QED
  BY <1>5, <1>6, <1>7, TimersKeep

LEMMA FilesKeep == ASSUME PrevInv, NEW i \in Ids, WriteFiles(i) PROVE PrevInv'
<1>1. previews[i] \in InstanceType /\ previews[i].phase = "files" /\ previews[i].task \in PreviewTasks
      /\ previews[i].port \in 1 .. MaxPort
  BY IdsAre DEF PrevInv, WriteFiles, InstanceType
<1>2. [previews[i] EXCEPT !.phase = "install"] \in InstanceType
  BY <1>1 DEF InstanceType
<1>3. PICK p \in InstanceType : p = [previews[i] EXCEPT !.phase = "install"]
  BY <1>2
<1>4. p.task = previews[i].task /\ p.port = previews[i].port /\ p.status = previews[i].status
      /\ p.phase = "install" /\ p.process = previews[i].process
  BY <1>1, <1>3 DEF InstanceType
<1>5. /\ previews' = [previews EXCEPT ![i] = p] /\ config' = [config EXCEPT ![p.task] = p.port]
      /\ UNCHANGED <<current, usedPorts, vites, unsettled>>
  BY <1>3, <1>4 DEF WriteFiles
<1>6. /\ Ids' = Ids /\ \E n \in Nat : previews' \in [1 .. n -> InstanceType]
      /\ previews'[i] = p /\ \A j \in Ids \ {i} : previews'[j] = previews[j]
      /\ \A j \in Ids : previews'[j].task = previews[j].task /\ previews'[j].port = previews[j].port
  BY <1>4, <1>5, OneChanges
<1>7. config' \in [PreviewTasks -> 0 .. MaxPort] /\ config'[p.task] = p.port
      /\ \A t \in PreviewTasks \ {p.task} : config'[t] = config[t]
  BY <1>1, <1>4, <1>5, PreviewAssumption DEF PrevInv, PrevTypes
<1>8. PrevTypes'
  BY <1>5, <1>6, <1>7 DEF PrevInv, PrevTypes
<1>9. /\ \A t \in PreviewTasks : current[t] # 0 => current[t] \in Ids
      /\ \A v \in vites : v.id \in Ids
      /\ \A j \in Ids : previews[j].task \in PreviewTasks
  BY IdsAre DEF PrevInv, PrevTypes, InstanceType
<1>10. p.port # 0
  BY <1>1, <1>4, PreviewAssumption
<1>11. EntriesTheirs'
  <2>1. \A t \in PreviewTasks : current'[t] # 0 => previews'[current'[t]].task = t
    BY <1>5, <1>6, <1>9 DEF PrevInv, EntriesTheirs
  <2>2. \A j \in Ids' : current'[previews'[j].task] = j /\ previews'[j].phase # "over" => previews'[j].status = "starting"
    BY <1>1, <1>4, <1>5, <1>6 DEF PrevInv, EntriesTheirs
  <2>3. \A j \in Ids' : previews'[j].phase \in {"install", "wait"} => config'[previews'[j].task] # 0
    BY <1>4, <1>6, <1>7, <1>9, <1>10 DEF PrevInv, EntriesTheirs
  <2>4. \A v \in vites' : previews'[v.id].phase \notin {"files", "install"}
    BY <1>1, <1>5, <1>6, <1>9 DEF PrevInv, EntriesTheirs
  <2> QED
    BY <1>5, <2>1, <2>2, <2>3, <2>4 DEF PrevInv, EntriesTheirs
<1>12. Live' = Live
  BY <1>4, <1>5, <1>6 DEF Live
<1>13. PreviewsLimited'
  BY <1>12 DEF PrevInv, PreviewsLimited
<1>14. PrevSettled'
  <2> SUFFICES ASSUME ~unsettled PROVE PrevSettled'
    BY <1>5 DEF PrevSettled
  <2>1. Live \subseteq Ids /\ i \in Live
    BY <1>1, LiveIs DEF PrevInv, PrevSettled
  <2>2. {previews'[j].port : j \in Live} = {previews[j].port : j \in Live}
    BY <1>6, <2>1
  <2>3. \A j \in Ids \ {i} : previews[j].phase = "install" => previews[j].task # p.task
    BY <1>4, <2>1, LiveIs DEF PrevInv, PrevSettled
  <2>4. \A j \in Ids' : previews'[j].phase = "install" => config'[previews'[j].task] = previews'[j].port
    BY <1>4, <1>6, <1>7, <1>9, <2>3 DEF PrevInv, PrevSettled
  <2>5. \A j \in Ids' : previews'[j].phase # "over" => j \in Live'
    BY <1>6, <1>12, <2>1 DEF PrevInv, PrevSettled
  <2>6. \A v \in vites' : v.doomed \/ (v.id \in Live' /\ v.port = previews'[v.id].port /\ previews'[v.id].process)
    BY <1>4, <1>5, <1>6, <1>9, <1>12 DEF PrevInv, PrevSettled
  <2> QED
    BY <1>5, <1>6, <1>12, <2>1, <2>2, <2>4, <2>5, <2>6 DEF PrevInv, PrevSettled
<1> QED
  BY <1>8, <1>11, <1>13, <1>14 DEF PrevInv

LEMMA SpawnKeeps == ASSUME PrevInv, NEW i \in Ids, Spawn(i) PROVE PrevInv'
<1>1. previews[i] \in InstanceType /\ previews[i].phase = "install" /\ previews[i].task \in PreviewTasks
  BY IdsAre DEF PrevInv, Spawn, InstanceType
<1>2. [previews[i] EXCEPT !.phase = "wait", !.process = TRUE] \in InstanceType
  BY <1>1 DEF InstanceType
<1>3. PICK p \in InstanceType : p = [previews[i] EXCEPT !.phase = "wait", !.process = TRUE]
  BY <1>2
<1>4. p.task = previews[i].task /\ p.port = previews[i].port /\ p.status = previews[i].status
      /\ p.phase = "wait" /\ p.process
  BY <1>1, <1>3 DEF InstanceType
<1>5. previews' = [previews EXCEPT ![i] = p] /\ UNCHANGED <<current, usedPorts, config, unsettled>>
  BY <1>3 DEF Spawn
<1>6. /\ Ids' = Ids /\ \E n \in Nat : previews' \in [1 .. n -> InstanceType]
      /\ previews'[i] = p /\ \A j \in Ids \ {i} : previews'[j] = previews[j]
      /\ \A j \in Ids : previews'[j].task = previews[j].task /\ previews'[j].port = previews[j].port
  BY <1>4, <1>5, OneChanges
<1>7. config[p.task] \in 1 .. MaxPort
  BY <1>1, <1>4, PreviewAssumption DEF PrevInv, PrevTypes, EntriesTheirs
<1>8. PICK u \in [id : Ids, port : 1 .. MaxPort, doomed : BOOLEAN] :
         vites' = vites \cup {u} /\ u.id = i /\ u.port = config[p.task] /\ ~u.doomed
  <2>1. [id |-> i, port |-> config[p.task], doomed |-> FALSE] \in [id : Ids, port : 1 .. MaxPort, doomed : BOOLEAN]
    BY <1>7
  <2>2. PICK u \in [id : Ids, port : 1 .. MaxPort, doomed : BOOLEAN] :
           u = [id |-> i, port |-> config[p.task], doomed |-> FALSE]
    BY <2>1
  <2>3. vites' = vites \cup {u}
    BY <1>4, <2>2 DEF Spawn
  <2> QED
    BY <2>2, <2>3
<1>9. PrevTypes'
  BY <1>5, <1>6, <1>8 DEF PrevInv, PrevTypes
<1>10. /\ \A t \in PreviewTasks : current[t] # 0 => current[t] \in Ids
       /\ \A v \in vites : v.id \in Ids
       /\ \A v \in vites : v.id # i
  BY <1>1 DEF PrevInv, PrevTypes, EntriesTheirs
<1>11. EntriesTheirs'
  <2>1. \A t \in PreviewTasks : current'[t] # 0 => previews'[current'[t]].task = t
    BY <1>5, <1>6, <1>10 DEF PrevInv, EntriesTheirs
  <2>2. \A j \in Ids' : current'[previews'[j].task] = j /\ previews'[j].phase # "over" => previews'[j].status = "starting"
    BY <1>1, <1>4, <1>5, <1>6 DEF PrevInv, EntriesTheirs
  <2>3. \A j \in Ids' : previews'[j].phase \in {"install", "wait"} => config'[previews'[j].task] # 0
    BY <1>1, <1>4, <1>5, <1>6 DEF PrevInv, EntriesTheirs
  <2>4. \A v \in vites' : previews'[v.id].phase \notin {"files", "install"}
    BY <1>4, <1>6, <1>8, <1>10 DEF PrevInv, EntriesTheirs
  <2>5. \A v, w \in vites' : v.id = w.id => v = w
    BY <1>8, <1>10 DEF PrevInv, EntriesTheirs
  <2> QED
    BY <2>1, <2>2, <2>3, <2>4, <2>5 DEF EntriesTheirs
<1>12. Live' = Live
  BY <1>4, <1>5, <1>6 DEF Live
<1>13. PreviewsLimited'
  BY <1>12 DEF PrevInv, PreviewsLimited
<1>14. PrevSettled'
  <2> SUFFICES ASSUME ~unsettled PROVE PrevSettled'
    BY <1>5 DEF PrevSettled
  <2>1. Live \subseteq Ids /\ i \in Live
    BY <1>1, LiveIs DEF PrevInv, PrevSettled
  <2>2. {previews'[j].port : j \in Live} = {previews[j].port : j \in Live}
    BY <1>6, <2>1
  <2>4. \A j \in Ids' : previews'[j].phase = "install" => config'[previews'[j].task] = previews'[j].port
    BY <1>4, <1>5, <1>6 DEF PrevInv, PrevSettled
  <2>5. \A j \in Ids' : previews'[j].phase # "over" => j \in Live'
    BY <1>6, <1>12, <2>1 DEF PrevInv, PrevSettled
  <2>6. \A v \in vites' : v.doomed \/ (v.id \in Live' /\ v.port = previews'[v.id].port /\ previews'[v.id].process)
    <3>1. u.port = previews'[i].port /\ u.id \in Live'
      BY <1>1, <1>4, <1>6, <1>8, <1>12, <2>1 DEF PrevInv, PrevSettled
    <3>2. \A v \in vites : previews'[v.id] = previews[v.id]
      BY <1>6, <1>10
    <3> QED
      BY <1>4, <1>6, <1>8, <1>12, <3>1, <3>2 DEF PrevInv, PrevSettled
  <2> QED
    BY <1>5, <1>6, <1>12, <2>1, <2>2, <2>4, <2>5, <2>6 DEF PrevInv, PrevSettled
<1> QED
  BY <1>9, <1>11, <1>13, <1>14 DEF PrevInv

LEMMA ReadyKeeps == ASSUME PrevInv, NEW i \in Ids, Ready(i) PROVE PrevInv'
<1>1. previews[i] \in InstanceType /\ previews[i].phase = "wait" /\ previews[i].task \in PreviewTasks
  BY IdsAre DEF PrevInv, Ready, InstanceType
<1>2. [previews[i] EXCEPT !.phase = "over", !.status = "running", !.health = TRUE, !.idle = TRUE] \in InstanceType
  BY <1>1 DEF InstanceType, PreviewStatuses
<1>3. PICK p \in InstanceType : p = [previews[i] EXCEPT !.phase = "over", !.status = "running", !.health = TRUE, !.idle = TRUE]
  BY <1>2
<1>4. p.task = previews[i].task /\ p.port = previews[i].port /\ p.status = "running"
      /\ p.phase = "over" /\ p.process = previews[i].process
  BY <1>1, <1>3 DEF InstanceType
<1>5. previews' = [previews EXCEPT ![i] = p] /\ UNCHANGED <<current, usedPorts, config, vites>>
      /\ unsettled' = (unsettled \/ current[previews[i].task] # i)
  BY <1>3 DEF Ready
<1>6. /\ Ids' = Ids /\ \E n \in Nat : previews' \in [1 .. n -> InstanceType]
      /\ previews'[i] = p /\ \A j \in Ids \ {i} : previews'[j] = previews[j]
      /\ \A j \in Ids : previews'[j].task = previews[j].task /\ previews'[j].port = previews[j].port
  BY <1>4, <1>5, OneChanges
<1>7. unsettled \in BOOLEAN /\ unsettled' \in BOOLEAN
  BY <1>5 DEF PrevInv, PrevTypes
<1>8. PrevTypes'
  BY <1>5, <1>6, <1>7 DEF PrevInv, PrevTypes
<1>9. /\ \A t \in PreviewTasks : current[t] # 0 => current[t] \in Ids
      /\ \A v \in vites : v.id \in Ids
  BY DEF PrevInv, PrevTypes
<1>10. EntriesTheirs'
  <2>1. \A t \in PreviewTasks : current'[t] # 0 => previews'[current'[t]].task = t
    BY <1>5, <1>6, <1>9 DEF PrevInv, EntriesTheirs
  <2>2. \A j \in Ids' : current'[previews'[j].task] = j /\ previews'[j].phase # "over" => previews'[j].status = "starting"
    BY <1>4, <1>5, <1>6 DEF PrevInv, EntriesTheirs
  <2>3. \A j \in Ids' : previews'[j].phase \in {"install", "wait"} => config'[previews'[j].task] # 0
    BY <1>4, <1>5, <1>6 DEF PrevInv, EntriesTheirs
  <2>4. \A v \in vites' : previews'[v.id].phase \notin {"files", "install"}
    BY <1>4, <1>5, <1>6, <1>9 DEF PrevInv, EntriesTheirs
  <2> QED
    BY <1>5, <2>1, <2>2, <2>3, <2>4 DEF PrevInv, EntriesTheirs
<1>11. Live' = Live
  <2>1. \A j \in Ids : j \in Live' <=> /\ current[previews[j].task] = j
                                       /\ previews'[j].status \in {"starting", "running"}
    BY <1>5, <1>6, <1>8, <1>10, LiveIsThen DEF EntriesTheirs
  <2>2. current[previews[i].task] = i => previews[i].status = "starting"
    BY <1>1 DEF PrevInv, EntriesTheirs
  <2>3. Live' \subseteq Ids /\ Live \subseteq Ids
    BY <1>6, <1>8, <1>10, LiveIs, LiveIsThen DEF EntriesTheirs
  <2>4. \A j \in Ids : j \in Live' <=> j \in Live
    BY <1>4, <1>6, <2>1, <2>2, LiveIs
  <2> QED
    BY <2>3, <2>4
<1>12. PreviewsLimited'
  BY <1>11 DEF PrevInv, PreviewsLimited
<1>13. PrevSettled'
  <2> SUFFICES ASSUME ~unsettled' PROVE PrevSettled'
    BY DEF PrevSettled
  <2>0. ~unsettled
    BY <1>5
  <2>1. Live \subseteq Ids
    BY LiveIs
  <2>2. {previews'[j].port : j \in Live} = {previews[j].port : j \in Live}
    BY <1>6, <2>1
  <2>3. \A j \in Ids' : previews'[j].phase = "install" => config'[previews'[j].task] = previews'[j].port
    BY <1>4, <1>5, <1>6, <2>0 DEF PrevInv, PrevSettled
  <2>4. \A j \in Ids' : previews'[j].phase # "over" => j \in Live'
    BY <1>4, <1>6, <1>11, <2>0 DEF PrevInv, PrevSettled
  <2>5. \A v \in vites' : v.doomed \/ (v.id \in Live' /\ v.port = previews'[v.id].port /\ previews'[v.id].process)
    BY <1>4, <1>5, <1>6, <1>9, <1>11, <2>0 DEF PrevInv, PrevSettled
  <2> QED
    BY <1>5, <1>6, <1>11, <2>0, <2>1, <2>2, <2>3, <2>4, <2>5 DEF PrevInv, PrevSettled
<1> QED
  BY <1>8, <1>10, <1>12, <1>13 DEF PrevInv

-----------------------------------------------------------------------------
(* The ends.                                                               *)

\* The processes told to end keep their numbers and ports.
LEMMA KilledAre ==
    ASSUME PrevInv, NEW S, vites' = KilledOf(S)
    PROVE  /\ \A v \in vites' : /\ v \in [id : Ids, port : 1 .. MaxPort, doomed : BOOLEAN]
                                /\ \E w \in vites : v.id = w.id /\ v.port = w.port /\ (v.doomed \/ v = w)
                                /\ v.id \in S /\ previews[v.id].process => v.doomed
           /\ \A v, w \in vites' : v.id = w.id => v = w
<1>1. \A w \in vites : w \in [id : Ids, port : 1 .. MaxPort, doomed : BOOLEAN]
  BY DEF PrevInv, PrevTypes
<1> DEFINE killed(w) == IF w.id \in S /\ previews[w.id].process THEN [w EXCEPT !.doomed = TRUE] ELSE w
<1>2. \A w \in vites : /\ killed(w) \in [id : Ids, port : 1 .. MaxPort, doomed : BOOLEAN]
                       /\ killed(w).id = w.id /\ killed(w).port = w.port /\ (killed(w).doomed \/ killed(w) = w)
                       /\ w.id \in S /\ previews[w.id].process => killed(w).doomed
  BY <1>1
<1>3. vites' = {killed(w) : w \in vites}
  BY DEF KilledOf
<1> HIDE DEF killed
<1>4. \A v \in vites' : \E w \in vites : v = killed(w)
  BY <1>3
<1>5. \A v \in vites' : /\ v \in [id : Ids, port : 1 .. MaxPort, doomed : BOOLEAN]
                        /\ \E w \in vites : v.id = w.id /\ v.port = w.port /\ (v.doomed \/ v = w)
                        /\ v.id \in S /\ previews[v.id].process => v.doomed
  BY <1>2, <1>4
<1>6. ASSUME NEW v \in vites', NEW w \in vites', v.id = w.id PROVE v = w
  <2>1. PICK a \in vites, b \in vites : v = killed(a) /\ w = killed(b)
    BY <1>4
  <2>2. a.id = b.id
    BY <1>2, <1>6, <2>1
  <2> QED
    BY <2>1, <2>2 DEF PrevInv, EntriesTheirs
<1> QED
  BY <1>5, <1>6

\* Instances S end, in whatever way.
LEMMA EndsKeep ==
    ASSUME PrevInv, NEW S \in SUBSET Ids, Ids' = Ids, \E n \in Nat : previews' \in [1 .. n -> InstanceType],
           \A j \in Ids : previews'[j].task = previews[j].task /\ previews'[j].port = previews[j].port,
           \A j \in Ids \ S : previews'[j] = previews[j],
           \A j \in S : /\ previews'[j].status \notin {"starting", "running"}
                        /\ previews'[j].phase \in {previews[j].phase, "over"},
           usedPorts' = PortsWithout(S), UNCHANGED config,
           \/ current' = EntriesWithout(S)
           \/ current' = current /\ \A j \in S : previews'[j].phase = "over",
           \A v \in vites' : /\ v \in [id : Ids, port : 1 .. MaxPort, doomed : BOOLEAN]
                             /\ \E w \in vites : v.id = w.id /\ v.port = w.port /\ (v.doomed \/ v = w),
           \A v, w \in vites' : v.id = w.id => v = w,
           unsettled' \in BOOLEAN,
           ~unsettled' => /\ ~unsettled /\ \A j \in S : previews'[j].phase = "over"
                          /\ \A j \in S : \A k \in Live \ S : /\ previews[k].task # previews[j].task
                                                            /\ previews[k].port # previews[j].port
                          /\ \A v \in vites' : v.id \in S => v.doomed
    PROVE  PrevInv'
<1>1. /\ current \in [PreviewTasks -> {0} \cup Ids] /\ Ids \subseteq Nat \ {0}
      /\ \A j \in Ids : previews[j].task \in PreviewTasks
  BY IdsAre DEF PrevInv, PrevTypes, InstanceType
<1>2. /\ current' \in [PreviewTasks -> {0} \cup Ids]
      /\ \A t \in PreviewTasks : current'[t] = current[t] \/ current'[t] = 0
      /\ \A t \in PreviewTasks : (\A j \in S : previews[j].task # t) => current'[t] = current[t]
  BY <1>1 DEF EntriesWithout
<1>3. \A j \in S : previews'[j].phase # "over" => current'[previews[j].task] = 0
  BY <1>1 DEF EntriesWithout
<1>4. PrevTypes'
  <2>1. usedPorts' \subseteq 1 .. MaxPort
    BY DEF PortsWithout, PrevInv, PrevTypes
  <2> QED
    BY <1>2, <2>1 DEF PrevInv, PrevTypes
<1>5. EntriesTheirs'
  <2>1. ASSUME NEW t \in PreviewTasks, current'[t] # 0 PROVE previews'[current'[t]].task = t
    <3>1. current'[t] = current[t] /\ current[t] \in Ids /\ previews[current[t]].task = t
      BY <1>1, <1>2, <2>1 DEF PrevInv, EntriesTheirs
    <3> QED
      BY <3>1
  <2>2. ASSUME NEW j \in Ids, current'[previews'[j].task] = j, previews'[j].phase # "over"
        PROVE  previews'[j].status = "starting"
    <3>1. j \notin S
      BY <1>1, <1>3, <2>2
    <3> QED
      BY <1>1, <1>2, <2>2, <3>1 DEF PrevInv, EntriesTheirs
  <2>3. \A j \in Ids' : previews'[j].phase \in {"install", "wait"} => config'[previews'[j].task] # 0
    BY DEF PrevInv, EntriesTheirs
  <2>4. \A v \in vites' : previews'[v.id].phase \notin {"files", "install"}
    <3> SUFFICES ASSUME NEW v \in vites' PROVE previews'[v.id].phase \notin {"files", "install"}
      OBVIOUS
    <3>1. PICK w \in vites : v.id = w.id
      OBVIOUS
    <3>2. previews[v.id].phase \notin {"files", "install"} /\ v.id \in Ids
      BY <3>1 DEF PrevInv, EntriesTheirs
    <3> QED
      BY <3>2
  <2> QED
    BY <2>1, <2>2, <2>3, <2>4 DEF EntriesTheirs
<1>6. /\ \A j \in Ids : j \in Live' <=> current'[previews[j].task] = j /\ previews'[j].status \in {"starting", "running"}
      /\ Live' \subseteq Ids
  BY <1>4, <1>5, LiveIsThen DEF EntriesTheirs
<1>7. Live' \subseteq Live \ S
  <2> SUFFICES ASSUME NEW j \in Live' PROVE j \in Live \ S
    OBVIOUS
  <2>1. j \in Ids /\ j \notin S
    BY <1>6
  <2> QED
    BY <1>1, <1>2, <1>6, <2>1, LiveIs
<1>8. PreviewsLimited'
  BY <1>7, FewerLive
<1>9. PrevSettled'
  <2> SUFFICES ASSUME ~unsettled' PROVE PrevSettled'
    BY DEF PrevSettled
  <2>0. ~unsettled /\ Live \subseteq Ids
    BY LiveIs
  <2>1. ASSUME NEW j \in Live \ S PROVE j \in Live'
    <3>1. j \in Ids /\ current[previews[j].task] = j /\ previews[j].status \in {"starting", "running"}
      BY <2>0, <2>1, LiveIs
    <3>2. \A i \in S : previews[i].task # previews[j].task
      BY <2>0, <2>1
    <3>3. current'[previews[j].task] = j
      BY <1>1, <1>2, <3>1, <3>2
    <3> QED
      BY <1>6, <2>1, <3>1, <3>3
  <2>2. Live' = Live \ S
    BY <1>7, <2>1
  <2>3. usedPorts' = {previews'[j].port : j \in Live'}
    <3>1. usedPorts' = {previews[j].port : j \in Live} \ {previews[j].port : j \in S}
      BY <2>0 DEF PortsWithout, PrevInv, PrevSettled
    <3>2. \A j \in S : \A k \in Live \ S : previews[k].port # previews[j].port
      BY <2>0
    <3>3. {previews[j].port : j \in Live} \ {previews[j].port : j \in S} = {previews[j].port : j \in Live \ S}
      BY <2>0, <3>2
    <3>4. {previews'[j].port : j \in Live'} = {previews[j].port : j \in Live \ S}
      BY <2>0, <2>2
    <3> QED
      BY <3>1, <3>3, <3>4
  <2>4. \A a, b \in Live' : previews'[a].port = previews'[b].port => a = b
    BY <2>0, <2>2 DEF PrevInv, PrevSettled
  <2>5. \A j \in Ids' : previews'[j].phase # "over" => j \in Live'
    BY <2>0, <2>2 DEF PrevInv, PrevSettled
  <2>6. \A j \in Ids' : previews'[j].phase = "install" => config'[previews'[j].task] = previews'[j].port
    BY <2>0 DEF PrevInv, PrevSettled
  <2>7. ASSUME NEW v \in vites', ~v.doomed
        PROVE  v.id \in Live' /\ v.port = previews'[v.id].port /\ previews'[v.id].process
    <3>1. v.id \notin S /\ v \in vites /\ v.id \in Ids
      BY <2>7
    <3> QED
      BY <2>0, <2>2, <2>7, <3>1 DEF PrevInv, PrevSettled
  <2> QED
    BY <2>3, <2>4, <2>5, <2>6, <2>7 DEF PrevSettled
<1> QED
  BY <1>4, <1>5, <1>8, <1>9 DEF PrevInv

LEMMA BareIs == ASSUME NEW p \in InstanceType, NEW s \in {"stopped", "error"}
                PROVE  /\ Bare(p, s) \in InstanceType /\ Bare(p, s).task = p.task /\ Bare(p, s).port = p.port
                       /\ Bare(p, s).status = s /\ Bare(p, s).phase = p.phase /\ Bare(p, s).checks = p.checks
<1>1. s \in PreviewStatuses
  BY DEF PreviewStatuses
<1>2. [p EXCEPT !.status = s, !.process = FALSE, !.health = FALSE, !.idle = FALSE] \in InstanceType
  BY <1>1 DEF InstanceType
<1> QED
  BY <1>1, <1>2 DEF Bare, InstanceType

\* What does not cross anything ends live previews that are done starting.
LEMMA NotCrossing ==
    ASSUME PrevInv, NEW S \in SUBSET Ids, ~unsettled, ~Crosses(S)
    PROVE  S \subseteq Live /\ \A i \in S : previews[i].phase = "over"
<1> SUFFICES ASSUME NEW i \in S PROVE i \in Live /\ previews[i].phase = "over"
  OBVIOUS
<1>1. /\ current[previews[i].task] = i /\ previews[i].port \in usedPorts
      /\ ~(previews[i].phase \in {"files", "install", "wait"} /\ previews[i].status # "error")
      /\ \A j \in Live \ {i} : previews[j].port # previews[i].port
  BY DEF Crosses
<1>2. PICK j \in Live : previews[j].port = previews[i].port
  BY <1>1 DEF PrevInv, PrevSettled
<1>3. i \in Live
  BY <1>1, <1>2
<1>4. previews[i] \in InstanceType /\ previews[i].status # "error"
  BY <1>3, LiveIs, IdsAre DEF PrevInv
<1> QED
  BY <1>1, <1>3, <1>4 DEF InstanceType

\* Live previews have tasks and ports of their own.
LEMMA LiveApart ==
    ASSUME PrevInv, ~unsettled, NEW S, S \subseteq Live
    PROVE  \A j \in S : \A k \in Live \ S : previews[k].task # previews[j].task /\ previews[k].port # previews[j].port
<1>1. \A j \in Live : current[previews[j].task] = j
  BY LiveIs
<1>2. \A j, k \in Live : previews[j].port = previews[k].port => j = k
  BY DEF PrevInv, PrevSettled
<1> QED
  BY <1>1, <1>2

LEMMA PreviewCleanupKeeps ==
    ASSUME PrevInv, NEW S \in SUBSET Ids, NEW s \in {"stopped", "error"}, Cleanup(S, s),
           unsettled' = (unsettled \/ Crosses(S)), UNCHANGED config
    PROVE  PrevInv'
<1>1. PICK n \in Nat : previews \in [1 .. n -> InstanceType] /\ Ids = 1 .. n
  BY DEF PrevInv, PrevTypes, Ids
<1>2. \A j \in Ids : previews[j] \in InstanceType
  BY <1>1
<1>3. previews' = [i \in Ids |-> IF i \in S THEN Bare(previews[i], s) ELSE previews[i]]
  BY DEF Cleanup
<1>4. /\ previews' \in [1 .. n -> InstanceType] /\ \A j \in Ids \ S : previews'[j] = previews[j]
      /\ \A j \in S : /\ previews'[j].task = previews[j].task /\ previews'[j].port = previews[j].port
                      /\ previews'[j].status = s /\ previews'[j].phase = previews[j].phase
  BY <1>1, <1>2, <1>3, BareIs
<1>5. Ids' = Ids
  BY <1>1, <1>4 DEF Ids
<1>6. usedPorts' = PortsWithout(S) /\ current' = EntriesWithout(S) /\ vites' = KilledOf(S)
  BY DEF Cleanup
<1>7. /\ \A v \in vites' : /\ v \in [id : Ids, port : 1 .. MaxPort, doomed : BOOLEAN]
                           /\ \E w \in vites : v.id = w.id /\ v.port = w.port /\ (v.doomed \/ v = w)
                           /\ v.id \in S /\ previews[v.id].process => v.doomed
      /\ \A v, w \in vites' : v.id = w.id => v = w
  BY <1>6, KilledAre
<1>8. unsettled \in BOOLEAN /\ unsettled' \in BOOLEAN
  BY DEF PrevInv, PrevTypes
<1>9. ASSUME ~unsettled'
      PROVE  /\ ~unsettled /\ \A j \in S : previews'[j].phase = "over"
             /\ \A j \in S : \A k \in Live \ S : previews[k].task # previews[j].task /\ previews[k].port # previews[j].port
             /\ \A v \in vites' : v.id \in S => v.doomed
  <2>1. ~unsettled /\ ~Crosses(S)
    BY <1>9
  <2>2. S \subseteq Live /\ \A j \in S : previews[j].phase = "over"
    BY <2>1, NotCrossing
  <2>3. ASSUME NEW v \in vites', v.id \in S PROVE v.doomed
    <3>1. PICK w \in vites : v.id = w.id /\ v.port = w.port /\ (v.doomed \/ v = w)
      BY <1>7
    <3>2. w.doomed \/ previews[w.id].process
      BY <2>1 DEF PrevInv, PrevSettled
    <3> QED
      BY <1>7, <2>3, <3>1, <3>2
  <2>4. \A j \in S : \A k \in Live \ S : previews[k].task # previews[j].task /\ previews[k].port # previews[j].port
    BY <2>1, <2>2, LiveApart
  <2> QED
    BY <1>4, <2>1, <2>2, <2>3, <2>4
<1>10. /\ \A j \in Ids : previews'[j].task = previews[j].task /\ previews'[j].port = previews[j].port
       /\ \A j \in S : /\ previews'[j].status \notin {"starting", "running"}
                       /\ previews'[j].phase \in {previews[j].phase, "over"}
  BY <1>4
<1> QED
  BY <1>4, <1>5, <1>6, <1>7, <1>8, <1>9, <1>10, EndsKeep

LEMMA StopsKeep == ASSUME PrevInv, NEW S \in SUBSET PreviewTasks, StopTasks(S), UNCHANGED config PROVE PrevInv'
<1>1. Held(S) \in SUBSET Ids
  BY DEF Held, PrevInv, PrevTypes
<1> QED
  BY <1>1, PreviewCleanupKeeps DEF StopTasks

\* A check that fails ends its server, which may be gone; unless a newer one
\* has its task or its port, that is all it does.
LEMMA HealthKeeps == ASSUME PrevInv, ChecksAreOver, NEW i \in Ids, CheckFails(i) PROVE PrevInv'
<1>1. previews[i] \in InstanceType /\ previews[i].checks \in 0 .. MaxChecks /\ previews[i].checks > 0
  BY IdsAre DEF PrevInv, CheckFails, InstanceType
<1>2. previews[i].checks - 1 \in 0 .. MaxChecks
  BY <1>1, PreviewAssumption
<1>3. [previews[i] EXCEPT !.checks = @ - 1] \in InstanceType
  BY <1>1, <1>2 DEF InstanceType
<1>4. PICK c \in InstanceType : c = [previews[i] EXCEPT !.checks = @ - 1]
  BY <1>3
<1>5. c.task = previews[i].task /\ c.port = previews[i].port /\ c.phase = previews[i].phase
  BY <1>1, <1>4 DEF InstanceType
<1>6. PICK p \in InstanceType : /\ p = Bare(c, "error") /\ p.task = previews[i].task /\ p.port = previews[i].port
                              /\ p.status = "error" /\ p.phase = previews[i].phase
  BY <1>5, BareIs
<1>7. previews' = [previews EXCEPT ![i] = p]
  BY <1>4, <1>6 DEF CheckFails
<1>8. /\ vites' = KilledOf({i}) /\ usedPorts' = PortsWithout({i}) /\ current' = EntriesWithout({i}) /\ config' = config
      /\ unsettled' = (unsettled \/ TakesFromAnother(i))
  BY DEF CheckFails
<1>9. /\ Ids' = Ids /\ \E n \in Nat : previews' \in [1 .. n -> InstanceType]
      /\ previews'[i] = p /\ \A j \in Ids \ {i} : previews'[j] = previews[j]
      /\ \A j \in Ids : previews'[j].task = previews[j].task /\ previews'[j].port = previews[j].port
  BY <1>6, <1>7, OneChanges
<1>10. /\ \A v \in vites' : /\ v \in [id : Ids, port : 1 .. MaxPort, doomed : BOOLEAN]
                            /\ \E w \in vites : v.id = w.id /\ v.port = w.port /\ (v.doomed \/ v = w)
                            /\ v.id \in {i} /\ previews[v.id].process => v.doomed
       /\ \A v, w \in vites' : v.id = w.id => v = w
  BY <1>8, KilledAre
<1>11. ASSUME ~unsettled'
       PROVE  /\ ~unsettled /\ previews'[i].phase = "over"
              /\ \A k \in Live \ {i} : previews[k].task # previews[i].task /\ previews[k].port # previews[i].port
              /\ \A v \in vites' : v.id \in {i} => v.doomed
  <2>1. ~unsettled /\ ~TakesFromAnother(i)
    BY <1>8, <1>11
  <2>2. \A k \in Live \ {i} : previews[k].task # previews[i].task /\ previews[k].port # previews[i].port
    BY <2>1 DEF TakesFromAnother
  <2>3. previews[i].phase = "over"
    BY <1>1 DEF ChecksAreOver
  <2>4. ASSUME NEW v \in vites', v.id \in {i} PROVE v.doomed
    <3>1. PICK w \in vites : v.id = w.id /\ v.port = w.port /\ (v.doomed \/ v = w)
      BY <1>10
    <3>2. w.doomed \/ previews[w.id].process
      BY <2>1 DEF PrevInv, PrevSettled
    <3> QED
      BY <1>10, <2>4, <3>1, <3>2
  <2> QED
    BY <1>6, <1>9, <2>1, <2>2, <2>3, <2>4
<1>12. /\ {i} \in SUBSET Ids /\ unsettled' \in BOOLEAN
       /\ \A j \in {i} : /\ previews'[j].status \notin {"starting", "running"}
                         /\ previews'[j].phase \in {previews[j].phase, "over"}
  BY <1>6, <1>8, <1>9 DEF PrevInv, PrevTypes
<1>13. \/ current' = EntriesWithout({i})
       \/ current' = current /\ \A j \in {i} : previews'[j].phase = "over"
  BY <1>8
<1>14. ~unsettled' => /\ ~unsettled /\ \A j \in {i} : previews'[j].phase = "over"
                      /\ \A j \in {i} : \A k \in Live \ {i} : /\ previews[k].task # previews[j].task
                                                          /\ previews[k].port # previews[j].port
                      /\ \A v \in vites' : v.id \in {i} => v.doomed
  BY <1>11
<1> QED
  BY <1>8, <1>9, <1>10, <1>12, <1>13, <1>14, EndsKeep

LEMMA IdleFiresKeeps == ASSUME PrevInv, NEW i \in Ids, IdleFires(i) PROVE PrevInv'
<1>1. previews[i].task \in PreviewTasks
  BY IdsAre DEF PrevInv, InstanceType
<1>2. CASE current[previews[i].task] # 0
  <2>1. StopTasks({previews[i].task}) /\ UNCHANGED config
    BY <1>2 DEF IdleFires
  <2> QED
    BY <1>1, <2>1, StopsKeep
<1>3. CASE current[previews[i].task] = 0
  <2>1. previews' = [previews EXCEPT ![i].idle = FALSE] /\ UNCHANGED <<current, usedPorts, config, vites, unsettled>>
    BY <1>3 DEF IdleFires
  <2> QED
    BY <2>1, IdleKeeps
<1> QED
  BY <1>2, <1>3

LEMMA InstallFailsKeeps == ASSUME PrevInv, NEW i \in Ids, InstallFails(i) PROVE PrevInv'
<1>1. previews[i] \in InstanceType /\ previews[i].phase \in {"files", "install"}
  BY IdsAre DEF PrevInv, InstallFails
<1>2. [previews[i] EXCEPT !.phase = "over", !.status = "error"] \in InstanceType
  BY <1>1 DEF InstanceType, PreviewStatuses
<1>3. PICK p \in InstanceType : p = [previews[i] EXCEPT !.phase = "over", !.status = "error"]
  BY <1>2
<1>4. p.task = previews[i].task /\ p.port = previews[i].port /\ p.status = "error" /\ p.phase = "over"
  BY <1>1, <1>3 DEF InstanceType
<1>5. previews' = [previews EXCEPT ![i] = p]
  BY <1>3 DEF InstallFails
<1>6. usedPorts' = PortsWithout({i}) /\ UNCHANGED <<current, config, vites, unsettled>>
  BY DEF InstallFails
<1>7. /\ Ids' = Ids /\ \E n \in Nat : previews' \in [1 .. n -> InstanceType]
      /\ previews'[i] = p /\ \A j \in Ids \ {i} : previews'[j] = previews[j]
      /\ \A j \in Ids : previews'[j].task = previews[j].task /\ previews'[j].port = previews[j].port
  BY <1>4, <1>5, OneChanges
<1>8. \A v \in vites : v.id # i
  BY <1>1 DEF PrevInv, EntriesTheirs
<1>9. ~unsettled => i \in Live
  BY <1>1 DEF PrevInv, PrevSettled
<1>10. /\ \A v \in vites : v \in [id : Ids, port : 1 .. MaxPort, doomed : BOOLEAN]
       /\ \A v, w \in vites : v.id = w.id => v = w
       /\ unsettled' \in BOOLEAN
  BY <1>6 DEF PrevInv, PrevTypes, EntriesTheirs
<1>11. previews'[i].status = "error" /\ previews'[i].phase = "over" /\ {i} \in SUBSET Ids
  <2>1. previews'[i] = p
    BY <1>7
  <2> QED
    BY <1>4, <2>1
<1>12. ~unsettled => \A j \in {i} : \A k \in Live \ {i} : previews[k].task # previews[j].task /\ previews[k].port # previews[j].port
  <2>1. ASSUME ~unsettled PROVE \E S \in SUBSET Live : S = {i}
    BY <1>9, <2>1
  <2>2. ASSUME ~unsettled, NEW S \in SUBSET Live, S = {i}
        PROVE  \A j \in S : \A k \in Live \ S : previews[k].task # previews[j].task /\ previews[k].port # previews[j].port
    BY <2>2, LiveApart
  <2> QED
    BY <2>1, <2>2
<1>13. \/ current' = EntriesWithout({i})
       \/ current' = current /\ \A j \in {i} : previews'[j].phase = "over"
  BY <1>6, <1>11
<1>14. /\ \A v \in vites' : /\ v \in [id : Ids, port : 1 .. MaxPort, doomed : BOOLEAN]
                            /\ \E w \in vites : v.id = w.id /\ v.port = w.port /\ (v.doomed \/ v = w)
       /\ \A v, w \in vites' : v.id = w.id => v = w
  BY <1>6, <1>10
<1>15. ~unsettled' => /\ ~unsettled /\ \A j \in {i} : previews'[j].phase = "over"
                      /\ \A j \in {i} : \A k \in Live \ {i} : previews[k].task # previews[j].task /\ previews[k].port # previews[j].port
                      /\ \A v \in vites' : v.id \in {i} => v.doomed
  BY <1>6, <1>8, <1>11, <1>12
<1>16. \A j \in {i} : /\ previews'[j].status \notin {"starting", "running"}
                     /\ previews'[j].phase \in {previews[j].phase, "over"}
  <2> SUFFICES previews'[i].status \notin {"starting", "running"} /\ previews'[i].phase = "over"
    OBVIOUS
  <2> QED
    BY <1>11
<1> QED
  BY <1>6, <1>7, <1>10, <1>11, <1>13, <1>14, <1>15, <1>16, EndsKeep

LEMMA NotReadyKeeps == ASSUME PrevInv, NEW i \in Ids, NotReady(i) PROVE PrevInv'
<1>1. previews[i] \in InstanceType /\ previews[i].phase = "wait"
  BY IdsAre DEF PrevInv, NotReady
<1>2. /\ Bare(previews[i], "error") \in InstanceType /\ Bare(previews[i], "error").task = previews[i].task
      /\ Bare(previews[i], "error").port = previews[i].port /\ Bare(previews[i], "error").status = "error"
  BY <1>1, BareIs
<1>3. [Bare(previews[i], "error") EXCEPT !.phase = "over"] \in InstanceType
  BY <1>2 DEF InstanceType
<1>4. PICK p \in InstanceType : p = [Bare(previews[i], "error") EXCEPT !.phase = "over"]
  BY <1>3
<1>5. p.task = previews[i].task /\ p.port = previews[i].port /\ p.status = "error" /\ p.phase = "over"
  BY <1>2, <1>4 DEF InstanceType
<1>6. previews' = [previews EXCEPT ![i] = p]
  BY <1>4 DEF NotReady
<1>7. /\ vites' = KilledOf({i}) /\ usedPorts' = PortsWithout({i}) /\ current' = EntriesWithout({i}) /\ UNCHANGED config
      /\ unsettled' = (unsettled \/ current[previews[i].task] # i)
  BY DEF NotReady
<1>8. /\ Ids' = Ids /\ \E n \in Nat : previews' \in [1 .. n -> InstanceType]
      /\ previews'[i] = p /\ \A j \in Ids \ {i} : previews'[j] = previews[j]
      /\ \A j \in Ids : previews'[j].task = previews[j].task /\ previews'[j].port = previews[j].port
  BY <1>5, <1>6, OneChanges
<1>9. /\ \A v \in vites' : /\ v \in [id : Ids, port : 1 .. MaxPort, doomed : BOOLEAN]
                           /\ \E w \in vites : v.id = w.id /\ v.port = w.port /\ (v.doomed \/ v = w)
                           /\ v.id \in {i} /\ previews[v.id].process => v.doomed
      /\ \A v, w \in vites' : v.id = w.id => v = w
  BY <1>7, KilledAre
<1>10. ASSUME ~unsettled' PROVE ~unsettled /\ i \in Live /\ \A v \in vites' : v.id \in {i} => v.doomed
  <2>1. ~unsettled
    BY <1>7, <1>10
  <2>2. i \in Live
    BY <1>1, <2>1 DEF PrevInv, PrevSettled
  <2>3. ASSUME NEW v \in vites', v.id \in {i} PROVE v.doomed
    <3>1. PICK w \in vites : v.id = w.id /\ v.port = w.port /\ (v.doomed \/ v = w)
      BY <1>9
    <3>2. w.doomed \/ previews[w.id].process
      BY <2>1 DEF PrevInv, PrevSettled
    <3> QED
      BY <1>9, <2>3, <3>1, <3>2
  <2> QED
    BY <2>1, <2>2, <2>3
<1>11. /\ {i} \in SUBSET Ids /\ unsettled' \in BOOLEAN
       /\ \A j \in Ids \ {i} : previews'[j] = previews[j]
       /\ \A j \in {i} : /\ previews'[j].status \notin {"starting", "running"}
                         /\ previews'[j].phase \in {previews[j].phase, "over"}
  BY <1>5, <1>7, <1>8 DEF PrevInv, PrevTypes
<1>12. \/ current' = EntriesWithout({i})
       \/ current' = current /\ \A j \in {i} : previews'[j].phase = "over"
  BY <1>7
<1>13. /\ \A v \in vites' : /\ v \in [id : Ids, port : 1 .. MaxPort, doomed : BOOLEAN]
                            /\ \E w \in vites : v.id = w.id /\ v.port = w.port /\ (v.doomed \/ v = w)
       /\ \A v, w \in vites' : v.id = w.id => v = w
  BY <1>9
<1>14. ~unsettled' => /\ ~unsettled /\ \A j \in {i} : previews'[j].phase = "over"
                      /\ \A j \in {i} : \A k \in Live \ {i} : previews[k].task # previews[j].task /\ previews[k].port # previews[j].port
                      /\ \A v \in vites' : v.id \in {i} => v.doomed
  <2>1. ~unsettled' => \A j \in {i} : \A k \in Live \ {i} : previews[k].task # previews[j].task /\ previews[k].port # previews[j].port
    BY <1>10, LiveApart
  <2> QED
    BY <1>5, <1>8, <1>10, <2>1
<1> QED
  BY <1>7, <1>8, <1>11, <1>12, <1>13, <1>14, EndsKeep

LEMMA ViteKeeps == ASSUME PrevInv, NEW v \in vites, ViteCloses(v) PROVE PrevInv'
<1> DEFINE i == v.id
<1>0. /\ i \in Ids /\ vites' = vites \ {v} /\ UNCHANGED config
      /\ \A w \in vites : w \in [id : Ids, port : 1 .. MaxPort, doomed : BOOLEAN]
      /\ \A w, u \in vites : w.id = u.id => w = u
  BY DEF ViteCloses, PrevInv, PrevTypes, EntriesTheirs
<1> HIDE DEF i
<1>1. CASE previews[v.id].status \in {"running", "starting"}
  <2>1. /\ previews' = [previews EXCEPT ![i] = Bare(previews[i], "stopped")]
        /\ usedPorts' = PortsWithout({i}) /\ current' = EntriesWithout({i})
        /\ unsettled' = (unsettled \/ Crosses({i}))
    BY <1>1 DEF ViteCloses, i
  <2>2. previews[i] \in InstanceType /\ {i} \in SUBSET Ids
    BY <1>0, IdsAre DEF PrevInv
  <2>3. PICK p \in InstanceType : /\ p = Bare(previews[i], "stopped") /\ p.task = previews[i].task
                                  /\ p.port = previews[i].port /\ p.status = "stopped" /\ p.phase = previews[i].phase
    BY <2>2, BareIs
  <2>4. /\ Ids' = Ids /\ \E n \in Nat : previews' \in [1 .. n -> InstanceType]
        /\ previews'[i] = p /\ \A j \in Ids \ {i} : previews'[j] = previews[j]
        /\ \A j \in Ids : previews'[j].task = previews[j].task /\ previews'[j].port = previews[j].port
    BY <1>0, <2>1, <2>3, OneChanges
  <2>5. ASSUME ~unsettled'
        PROVE  /\ ~unsettled /\ {i} \subseteq Live /\ \A j \in {i} : previews'[j].phase = "over"
               /\ \A w \in vites' : w.id \in {i} => w.doomed
    <3>1. ~unsettled /\ ~Crosses({i})
      BY <2>1, <2>5
    <3>2. {i} \subseteq Live /\ \A j \in {i} : previews[j].phase = "over"
      BY <2>2, <3>1, NotCrossing
    <3> QED
      BY <1>0, <2>3, <2>4, <3>1, <3>2 DEF i
  <2>6. unsettled' \in BOOLEAN
    BY <2>1 DEF PrevInv, PrevTypes
  <2>7. /\ \A j \in Ids \ {i} : previews'[j] = previews[j]
        /\ \A j \in {i} : /\ previews'[j].status \notin {"starting", "running"}
                          /\ previews'[j].phase \in {previews[j].phase, "over"}
    BY <2>3, <2>4
  <2>8. \/ current' = EntriesWithout({i})
        \/ current' = current /\ \A j \in {i} : previews'[j].phase = "over"
    BY <2>1
  <2>9. /\ \A w \in vites' : /\ w \in [id : Ids, port : 1 .. MaxPort, doomed : BOOLEAN]
                             /\ \E u \in vites : w.id = u.id /\ w.port = u.port /\ (w.doomed \/ w = u)
        /\ \A w, u \in vites' : w.id = u.id => w = u
    BY <1>0
  <2>10. usedPorts' = PortsWithout({i}) /\ config' = config
    BY <1>0, <2>1
  <2>11. ~unsettled' => /\ ~unsettled /\ \A j \in {i} : previews'[j].phase = "over"
                        /\ \A j \in {i} : \A k \in Live \ {i} : previews[k].task # previews[j].task /\ previews[k].port # previews[j].port
                        /\ \A w \in vites' : w.id \in {i} => w.doomed
    <3>1. ~unsettled' => \A j \in {i} : \A k \in Live \ {i} : previews[k].task # previews[j].task /\ previews[k].port # previews[j].port
      BY <2>5, LiveApart
    <3> QED
      BY <2>5, <3>1
  <2> QED
    BY <2>2, <2>4, <2>6, <2>7, <2>8, <2>9, <2>10, <2>11, EndsKeep
<1>2. CASE previews[v.id].status \notin {"running", "starting"}
  <2>1. UNCHANGED <<previews, usedPorts, current, unsettled, config>>
    BY <1>0, <1>2 DEF ViteCloses
  <2>2. Ids' = Ids /\ Live' = Live
    BY <2>1 DEF Ids, Live
  <2>3. PrevTypes'
    BY <1>0, <2>1, <2>2 DEF PrevInv, PrevTypes
  <2>4. EntriesTheirs'
    BY <1>0, <2>1, <2>2 DEF PrevInv, EntriesTheirs
  <2>5. PreviewsLimited' /\ PrevSettled'
    BY <1>0, <2>1, <2>2 DEF PrevInv, PreviewsLimited, PrevSettled
  <2> QED
    BY <2>3, <2>4, <2>5 DEF PrevInv
<1> QED
  BY <1>1, <1>2

-----------------------------------------------------------------------------
(* A new preview.                                                          *)

\* What makes room runs; without it there is room.
LEMMA RoomIs ==
    ASSUME PrevInv, NEW room \in MakesRoom, Full => room # 0
    PROVE  /\ {room} \ {0} \subseteq Live /\ Cardinality(Live \ ({room} \ {0})) + 1 <= MaxPreviews
           /\ \A i \in {room} \ {0} : previews[i].status = "running"
<1>1. Live \subseteq Ids /\ Ids \subseteq Nat \ {0} /\ IsFiniteSet(Live) /\ Cardinality(Live) \in Nat
  BY LiveIs, IdsAre DEF PrevInv
<1>2. MaxPreviews \in Nat /\ Cardinality(Live) <= MaxPreviews
  BY PreviewAssumption DEF PrevInv, PreviewsLimited
<1>3. CASE ~Full
  <2>1. room = 0 /\ {room} \ {0} = {} /\ Live \ ({room} \ {0}) = Live
    BY <1>3 DEF MakesRoom
  <2>2. Cardinality(Live) + 1 <= MaxPreviews
    BY <1>1, <1>2, <1>3 DEF Full
  <2> QED
    BY <2>1, <2>2
<1>4. CASE Full
  <2>1. room \in Live /\ previews[room].status = "running" /\ room # 0
    BY <1>4 DEF MakesRoom
  <2>2. {room} \ {0} = {room}
    BY <2>1
  <2>3. Cardinality(Live \ {room}) = Cardinality(Live) - 1
    BY <1>1, <2>1, FS_RemoveElement
  <2>4. Cardinality(Live \ {room}) + 1 <= MaxPreviews
    BY <1>1, <1>2, <2>3
  <2> QED
    BY <2>1, <2>2, <2>4
<1> QED
  BY <1>3, <1>4

LEMMA StartNewKeeps == ASSUME PrevInv, NEW t \in PreviewTasks, StartNew(t) PROVE PrevInv'
<1>1. PICK n \in Nat : previews \in [1 .. n -> InstanceType] /\ Ids = 1 .. n /\ Cardinality(Ids) = n
  BY IdsAre DEF PrevInv, PrevTypes
<1>2. PICK room \in MakesRoom :
         /\ Full => room # 0
         /\ (1 .. MaxPort) \ PortsWithout({room} \ {0}) # {}
         /\ previews' = [i \in Ids \cup {Cardinality(Ids) + 1} |->
              IF i = Cardinality(Ids) + 1
                THEN [task |-> t, port |-> Lowest((1 .. MaxPort) \ PortsWithout({room} \ {0})),
                      status |-> "starting", phase |-> "files", process |-> FALSE, health |-> FALSE,
                      checks |-> 0, idle |-> FALSE]
              ELSE IF i \in {room} \ {0} THEN Bare(previews[i], "stopped") ELSE previews[i]]
         /\ vites' = KilledOf({room} \ {0})
         /\ usedPorts' = PortsWithout({room} \ {0}) \cup {Lowest((1 .. MaxPort) \ PortsWithout({room} \ {0}))}
         /\ current' = [EntriesWithout({room} \ {0}) EXCEPT ![t] = Cardinality(Ids) + 1]
         /\ unsettled' = (unsettled \/ Crosses({room} \ {0}) \/ Entry(t).status = "starting")
  BY Zenon DEF StartNew
<1>3. config' = config /\ Entry(t).status # "running"
  BY DEF StartNew
<1>4. PICK G : G = {room} \ {0}
  OBVIOUS
<1>5. PICK q : q = Lowest((1 .. MaxPort) \ PortsWithout(G))
  OBVIOUS
<1>6. PICK p : p = [task |-> t, port |-> q, status |-> "starting", phase |-> "files",
                    process |-> FALSE, health |-> FALSE, checks |-> 0, idle |-> FALSE]
  OBVIOUS
<1>7. q \in 1 .. MaxPort /\ q \notin PortsWithout(G)
  <2>1. (1 .. MaxPort) \ PortsWithout(G) # {}
    BY <1>2, <1>4
  <2>2. (1 .. MaxPort) \ PortsWithout(G) \subseteq Nat
    BY PreviewAssumption
  <2>3. Lowest((1 .. MaxPort) \ PortsWithout(G)) \in (1 .. MaxPort) \ PortsWithout(G)
    BY <2>1, <2>2, LeastPort
  <2> QED
    BY <1>5, <2>3
<1>8. p \in InstanceType /\ p.task = t /\ p.port = q /\ p.status = "starting" /\ p.phase = "files"
  BY <1>6, <1>7, PreviewAssumption DEF InstanceType, PreviewStatuses
<1>9. /\ G \subseteq Live /\ Cardinality(Live \ G) + 1 <= MaxPreviews
      /\ \A i \in G : previews[i].status = "running"
  BY <1>2, <1>4, RoomIs
<1>10. Live \subseteq Ids /\ IsFiniteSet(Live) /\ G \in SUBSET Ids
  BY <1>9, LiveIs
<1>11. previews' = [i \in 1 .. (n + 1) |-> IF i = n + 1 THEN p ELSE IF i \in G THEN Bare(previews[i], "stopped")
                                                               ELSE previews[i]]
  <2>1. Ids \cup {n + 1} = 1 .. (n + 1)
    BY <1>1
  <2> QED
    BY <1>1, <1>2, <1>4, <1>5, <1>6, <2>1
<1>12. \A i \in Ids : previews[i] \in InstanceType
  BY <1>1
<1>13. /\ previews' \in [1 .. (n + 1) -> InstanceType] /\ previews'[n + 1] = p
       /\ \A i \in Ids : /\ i # n + 1 /\ i # 0
                         /\ previews'[i].task = previews[i].task /\ previews'[i].port = previews[i].port
                         /\ previews'[i].phase = previews[i].phase
       /\ \A i \in Ids \ G : previews'[i] = previews[i]
       /\ \A i \in G : previews'[i].status = "stopped"
  <2>1. \A i \in Ids : i \in 1 .. (n + 1) /\ i # n + 1 /\ i # 0
    BY <1>1
  <2>2. \A i \in G : /\ Bare(previews[i], "stopped") \in InstanceType
                     /\ Bare(previews[i], "stopped").task = previews[i].task
                     /\ Bare(previews[i], "stopped").port = previews[i].port
                     /\ Bare(previews[i], "stopped").status = "stopped"
                     /\ Bare(previews[i], "stopped").phase = previews[i].phase
    BY <1>10, <1>12, BareIs
  <2>3. n + 1 \in 1 .. (n + 1) /\ \A i \in 1 .. (n + 1) : i # n + 1 => i \in Ids
    BY <1>1
  <2>4. previews'[n + 1] = p /\ \A i \in G : previews'[i] = Bare(previews[i], "stopped")
    BY <1>10, <1>11, <2>1, <2>3
  <2>5. \A i \in Ids \ G : previews'[i] = previews[i]
    BY <1>11, <2>1
  <2>6. previews' \in [1 .. (n + 1) -> InstanceType]
    BY <1>8, <1>11, <1>12, <2>2, <2>3
  <2>7. \A i \in Ids : /\ previews'[i].task = previews[i].task /\ previews'[i].port = previews[i].port
                       /\ previews'[i].phase = previews[i].phase
    BY <2>2, <2>4, <2>5
  <2> QED
    BY <2>1, <2>2, <2>4, <2>5, <2>6, <2>7
<1>14. Ids' = Ids \cup {n + 1} /\ Ids' = 1 .. (n + 1)
  BY <1>1, <1>13 DEF Ids
<1>15. /\ current \in [PreviewTasks -> {0} \cup Ids]
       /\ \A j \in Ids : previews[j].task \in PreviewTasks
  BY <1>12 DEF PrevInv, PrevTypes, InstanceType
<1>16. /\ current' \in [PreviewTasks -> {0} \cup Ids'] /\ current'[t] = n + 1
       /\ \A s \in PreviewTasks \ {t} : current'[s] = current[s] \/ current'[s] = 0
       /\ \A s \in PreviewTasks \ {t} : (\A j \in G : previews[j].task # s) => current'[s] = current[s]
       /\ \A j \in G : current'[previews[j].task] # j
  <2>1. current' = [EntriesWithout(G) EXCEPT ![t] = n + 1]
    BY <1>1, <1>2, <1>4
  <2>2. EntriesWithout(G) \in [PreviewTasks -> {0} \cup Ids]
    BY <1>15 DEF EntriesWithout
  <2>3. current' \in [PreviewTasks -> {0} \cup Ids'] /\ current'[t] = n + 1
        /\ \A s \in PreviewTasks \ {t} : current'[s] = EntriesWithout(G)[s]
    BY <1>14, <2>1, <2>2
  <2>4. \A s \in PreviewTasks \ {t} : /\ EntriesWithout(G)[s] = current[s] \/ EntriesWithout(G)[s] = 0
                                      /\ (\A j \in G : previews[j].task # s) => EntriesWithout(G)[s] = current[s]
                                      /\ \A j \in G : previews[j].task = s => EntriesWithout(G)[s] = 0
    BY DEF EntriesWithout
  <2>5. \A j \in G : previews[j].task \in PreviewTasks /\ j # 0 /\ j # n + 1
    BY <1>10, <1>13, <1>15
  <2> QED
    BY <2>3, <2>4, <2>5
<1>17. /\ vites' = KilledOf(G) /\ usedPorts' = PortsWithout(G) \cup {q}
       /\ unsettled' = (unsettled \/ Crosses(G) \/ Entry(t).status = "starting")
  BY <1>2, <1>4, <1>5
<1>18. /\ \A v \in vites' : /\ v \in [id : Ids, port : 1 .. MaxPort, doomed : BOOLEAN]
                            /\ \E w \in vites : v.id = w.id /\ v.port = w.port /\ (v.doomed \/ v = w)
                            /\ v.id \in G /\ previews[v.id].process => v.doomed
       /\ \A v, w \in vites' : v.id = w.id => v = w
  BY <1>10, <1>17, KilledAre
<1>19. PrevTypes'
  <2>1. usedPorts' \subseteq 1 .. MaxPort
    BY <1>7, <1>17 DEF PortsWithout, PrevInv, PrevTypes
  <2>2. \E m \in Nat : previews' \in [1 .. m -> InstanceType]
    BY <1>1, <1>13
  <2>3. \A v \in vites' : v \in [id : Ids', port : 1 .. MaxPort, doomed : BOOLEAN]
    BY <1>14, <1>18
  <2>4. unsettled' \in BOOLEAN
    BY <1>17 DEF PrevInv, PrevTypes
  <2> QED
    BY <1>3, <1>16, <2>1, <2>2, <2>3, <2>4 DEF PrevInv, PrevTypes
<1>20. EntriesTheirs'
  <2>1. ASSUME NEW s \in PreviewTasks, current'[s] # 0 PROVE previews'[current'[s]].task = s
    <3>1. CASE s = t
      BY <1>8, <1>13, <1>16, <3>1
    <3>2. CASE s # t
      <4>1. current'[s] = current[s] /\ current[s] \in Ids /\ previews[current[s]].task = s
        BY <1>15, <1>16, <2>1, <3>2 DEF PrevInv, EntriesTheirs
      <4> QED
        BY <1>13, <4>1
    <3> QED
      BY <3>1, <3>2
  <2>2. ASSUME NEW j \in Ids', current'[previews'[j].task] = j, previews'[j].phase # "over"
        PROVE  previews'[j].status = "starting"
    <3>1. CASE j = n + 1
      BY <1>8, <1>13, <3>1
    <3>2. CASE j # n + 1
      <4>1. j \in Ids /\ j \notin G
        BY <1>13, <1>14, <1>16, <2>2, <3>2
      <4>2. previews'[j] = previews[j] /\ previews[j].task \in PreviewTasks \ {t} /\ j # 0
        BY <1>13, <1>15, <1>16, <2>2, <3>2, <4>1
      <4>3. current[previews[j].task] = j
        BY <1>16, <2>2, <4>2
      <4> QED
        BY <2>2, <4>1, <4>2, <4>3 DEF PrevInv, EntriesTheirs
    <3> QED
      BY <3>1, <3>2
  <2>3. \A j \in Ids' : previews'[j].phase \in {"install", "wait"} => config'[previews'[j].task] # 0
    BY <1>3, <1>8, <1>13, <1>14 DEF PrevInv, EntriesTheirs
  <2>4. ASSUME NEW v \in vites' PROVE previews'[v.id].phase \notin {"files", "install"}
    <3>1. PICK w \in vites : v.id = w.id
      BY <1>18
    <3>2. v.id \in Ids /\ previews[v.id].phase \notin {"files", "install"}
      BY <1>18, <3>1 DEF PrevInv, EntriesTheirs
    <3> QED
      BY <1>13, <3>2
  <2> QED
    BY <1>18, <2>1, <2>2, <2>3, <2>4 DEF EntriesTheirs
<1>21. /\ \A j \in Ids' : j \in Live' <=> current'[previews'[j].task] = j /\ previews'[j].status \in {"starting", "running"}
       /\ Live' \subseteq Ids'
  BY <1>19, <1>20, LiveIsThen DEF EntriesTheirs
<1>22. Live' \subseteq (Live \ G) \cup {n + 1}
  <2> SUFFICES ASSUME NEW j \in Live', j # n + 1 PROVE j \in Live \ G
    OBVIOUS
  <2>1. j \in Ids /\ j \notin G
    BY <1>13, <1>14, <1>21
  <2>2. previews'[j] = previews[j] /\ previews[j].task \in PreviewTasks \ {t} /\ j # 0
    BY <1>13, <1>14, <1>15, <1>16, <1>21, <2>1
  <2>3. current[previews[j].task] = j
    BY <1>14, <1>16, <1>21, <2>1, <2>2
  <2> QED
    BY <1>14, <1>21, <2>1, <2>2, <2>3, LiveIs
<1>23. PreviewsLimited'
  <2>1. IsFiniteSet(Live \ G) /\ Cardinality(Live \ G) \in Nat
    BY <1>10, FS_Subset, FS_CardinalityType
  <2>2. n + 1 \notin Live \ G
    BY <1>10, <1>13
  <2>3. IsFiniteSet((Live \ G) \cup {n + 1}) /\ Cardinality((Live \ G) \cup {n + 1}) = Cardinality(Live \ G) + 1
    BY <2>1, <2>2, FS_AddElement
  <2>4. IsFiniteSet(Live') /\ Cardinality(Live') <= Cardinality((Live \ G) \cup {n + 1}) /\ Cardinality(Live') \in Nat
    BY <1>22, <2>3, FS_Subset, FS_CardinalityType
  <2> QED
    BY <1>9, <2>1, <2>3, <2>4, PreviewAssumption DEF PreviewsLimited
<1>24. PrevSettled'
  <2> SUFFICES ASSUME ~unsettled' PROVE PrevSettled'
    BY DEF PrevSettled
  <2>1. ~unsettled /\ ~Crosses(G) /\ Entry(t).status # "starting"
    BY <1>17
  <2>2. \A i \in G : previews[i].phase = "over"
    BY <1>10, <2>1, NotCrossing
  <2>3. \A j \in Live : previews[j].task # t
    <3> SUFFICES ASSUME NEW j \in Live, previews[j].task = t PROVE FALSE
      OBVIOUS
    <3>1. current[t] = j /\ j # 0 /\ previews[j].status \in {"starting", "running"}
      BY <1>10, <1>13, LiveIs
    <3>2. Entry(t) = previews[j]
      BY <3>1 DEF Entry
    <3> QED
      BY <1>3, <2>1, <3>1, <3>2
  <2>4. ASSUME NEW j \in Live \ G PROVE j \in Live'
    <3>1. /\ j \in Ids /\ current[previews[j].task] = j /\ previews[j].status \in {"starting", "running"}
          /\ previews[j].task \in PreviewTasks \ {t}
      BY <1>10, <1>15, <2>3, LiveIs
    <3>2. \A i \in G : previews[i].task # previews[j].task
      BY <1>9, <1>10, <3>1, LiveIs
    <3>3. current'[previews[j].task] = j
      BY <1>16, <3>1, <3>2
    <3> QED
      BY <1>13, <1>14, <1>21, <3>1, <3>3
  <2>5. n + 1 \in Live'
    BY <1>8, <1>13, <1>14, <1>16, <1>21
  <2>6. Live' = (Live \ G) \cup {n + 1}
    BY <1>22, <2>4, <2>5
  <2>7. \A a, b \in Live : previews[a].port = previews[b].port => a = b
    BY <2>1 DEF PrevInv, PrevSettled
  <2>8. PortsWithout(G) = {previews[j].port : j \in Live \ G}
    <3>1. PortsWithout(G) = {previews[j].port : j \in Live} \ {previews[j].port : j \in G}
      BY <2>1 DEF PortsWithout, PrevInv, PrevSettled
    <3> QED
      BY <1>9, <2>7, <3>1
  <2>9. \A j \in Live \ G : previews'[j] = previews[j] /\ j \in Ids
    BY <1>10, <1>13
  <2>10. usedPorts' = {previews'[j].port : j \in Live'}
    BY <1>8, <1>13, <1>17, <2>6, <2>8, <2>9
  <2>11. \A a, b \in Live' : previews'[a].port = previews'[b].port => a = b
    <3>1. \A a \in Live \ G : previews'[a].port # q
      BY <1>7, <2>8, <2>9
    <3> QED
      BY <1>8, <1>13, <2>6, <2>7, <2>9, <3>1
  <2>12. \A j \in Ids' : previews'[j].phase # "over" => j \in Live'
    <3> SUFFICES ASSUME NEW j \in Ids, previews[j].phase # "over" PROVE j \in Live'
      BY <1>13, <1>14, <2>5
    <3>1. j \in Live \ G
      BY <2>1, <2>2 DEF PrevInv, PrevSettled
    <3> QED
      BY <2>6, <3>1
  <2>13. \A j \in Ids' : previews'[j].phase = "install" => config'[previews'[j].task] = previews'[j].port
    BY <1>3, <1>8, <1>13, <1>14, <2>1 DEF PrevInv, PrevSettled
  <2>14. ASSUME NEW v \in vites', ~v.doomed
         PROVE  v.id \in Live' /\ v.port = previews'[v.id].port /\ previews'[v.id].process
    <3>1. v \in vites
      BY <1>18, <2>14
    <3>2. v.id \in Live /\ v.port = previews[v.id].port /\ previews[v.id].process
      BY <2>1, <2>14, <3>1 DEF PrevInv, PrevSettled
    <3>3. v.id \in Live \ G
      BY <1>18, <2>14, <3>2
    <3> QED
      BY <2>6, <2>9, <3>2, <3>3
  <2> QED
    BY <2>10, <2>11, <2>12, <2>13, <2>14 DEF PrevSettled
<1> QED
  BY <1>19, <1>20, <1>23, <1>24 DEF PrevInv

-----------------------------------------------------------------------------
(* Every step.                                                             *)

LEMMA PrevStutters == ASSUME PrevInv, UNCHANGED previewVars PROVE PrevInv'
<1>1. UNCHANGED <<previews, current, usedPorts, config, vites, unsettled>>
  BY DEF previewVars
<1>2. Ids' = Ids /\ Live' = Live
  BY <1>1 DEF Ids, Live
<1> QED
  BY <1>1, <1>2 DEF PrevInv, PrevTypes, EntriesTheirs, PreviewsLimited, PrevSettled

LEMMA PreviewStartKeeps == ASSUME PrevInv, NEW t \in PreviewTasks, StartAgain(t) \/ StartNew(t) \/ StartRefused(t)
                           PROVE  PrevInv'
<1>1. CASE StartAgain(t)
  <2>1. current[t] # 0
    BY <1>1 DEF StartAgain, Entry, NoOne
  <2>2. current[t] \in Ids
    BY <2>1 DEF PrevInv, PrevTypes
  <2> QED
    BY <1>1, <2>2, IdleKeeps DEF StartAgain
<1>2. CASE StartNew(t)
  BY <1>2, StartNewKeeps
<1>3. CASE StartRefused(t)
  BY <1>3, PrevStutters DEF StartRefused, previewVars
<1> QED
  BY <1>1, <1>2, <1>3

LEMMA PrevKeeps == ASSUME PrevInv, ChecksAreOver, [PreviewNext]_previewVars PROVE PrevInv'
<1>1. CASE UNCHANGED previewVars
  BY <1>1, PrevStutters
<1>2. ASSUME NEW i \in Ids, \/ WriteFiles(i) \/ InstallFails(i) \/ Spawn(i) \/ Ready(i) \/ NotReady(i)
                            \/ LookAtHealth(i) \/ CheckPasses(i) \/ CheckFails(i) \/ IdleFires(i)
      PROVE  PrevInv'
  BY <1>2, FilesKeep, InstallFailsKeeps, SpawnKeeps, ReadyKeeps, NotReadyKeeps, ChecksKeep, HealthKeeps, IdleFiresKeeps
<1>3. ASSUME NEW v \in vites, ViteCloses(v) PROVE PrevInv'
  BY <1>3, ViteKeeps
<1>4. CASE StopEverything
  BY <1>4, StopsKeep DEF StopEverything
<1>5. CASE PreviewStart
  BY <1>5, PreviewStartKeeps DEF PreviewStart
<1>6. CASE PreviewStop
  <2>1. PICK t \in PreviewTasks : StopTasks({t})
    BY <1>6 DEF PreviewStop
  <2>2. {t} \in SUBSET PreviewTasks /\ UNCHANGED config
    BY <1>6 DEF PreviewStop
  <2> QED
    BY <2>1, <2>2, StopsKeep
<1>7. CASE PreviewLook
  <2>1. PICK t \in PreviewTasks : current[t] # 0 /\ previews' = [previews EXCEPT ![current[t]].idle = TRUE]
    BY <1>7 DEF PreviewLook
  <2>2. current[t] \in Ids
    BY <2>1 DEF PrevInv, PrevTypes
  <2> QED
    BY <1>7, <2>1, <2>2, IdleKeeps DEF PreviewLook
<1> QED
  BY <1>1, <1>2, <1>3, <1>4, <1>5, <1>6, <1>7 DEF PreviewNext

\* One instance changes, and is done starting if it runs or is checked.
LEMMA OneIsOver ==
    ASSUME PrevInv, ChecksAreOver, NEW i \in Ids, NEW p, previews' = [previews EXCEPT ![i] = p],
           p.status = "running" \/ p.checks > 0 => p.phase = "over"
    PROVE  ChecksAreOver'
<1>1. previews \in [Ids -> InstanceType]
  BY IdsAre DEF PrevInv
<1>2. Ids' = Ids /\ previews'[i] = p /\ \A j \in Ids \ {i} : previews'[j] = previews[j]
  BY <1>1 DEF Ids
<1> QED
  BY <1>2 DEF ChecksAreOver

\* Instances are cleaned up, or stay.
LEMMA BareIsOver ==
    ASSUME PrevInv, ChecksAreOver, NEW s \in {"stopped", "error"}, NEW i \in Ids,
           previews'[i] \in {previews[i], Bare(previews[i], s)}
    PROVE  previews'[i].status = "running" \/ previews'[i].checks > 0 => previews'[i].phase = "over"
<1>1. previews[i] \in InstanceType
  BY IdsAre DEF PrevInv
<1>2. Bare(previews[i], s).status = s /\ Bare(previews[i], s).phase = previews[i].phase
      /\ Bare(previews[i], s).checks = previews[i].checks
  BY <1>1, BareIs
<1> QED
  BY <1>2 DEF ChecksAreOver

LEMMA CleanedAreOver ==
    ASSUME PrevInv, ChecksAreOver, NEW S, NEW s \in {"stopped", "error"}, Cleanup(S, s)
    PROVE  ChecksAreOver'
<1>1. previews' = [i \in Ids |-> IF i \in S THEN Bare(previews[i], s) ELSE previews[i]]
  BY DEF Cleanup
<1>2. Ids' = Ids /\ \A i \in Ids : previews'[i] \in {previews[i], Bare(previews[i], s)}
  BY <1>1 DEF Ids
<1> QED
  BY <1>2, BareIsOver DEF ChecksAreOver

LEMMA StartIsOver == ASSUME PrevInv, ChecksAreOver, NEW t \in PreviewTasks, StartNew(t) PROVE ChecksAreOver'
<1>1. PICK n \in Nat : Ids = 1 .. n /\ Cardinality(Ids) = n
  BY IdsAre DEF PrevInv
<1>2. PICK G, q : previews' = [i \in Ids \cup {n + 1} |->
              IF i = n + 1
                THEN [task |-> t, port |-> q, status |-> "starting", phase |-> "files", process |-> FALSE,
                      health |-> FALSE, checks |-> 0, idle |-> FALSE]
              ELSE IF i \in G THEN Bare(previews[i], "stopped") ELSE previews[i]]
  <2>1. Cardinality(Ids) = n
    BY <1>1
  <2>2. PICK room \in MakesRoom : previews' = [i \in Ids \cup {Cardinality(Ids) + 1} |->
              IF i = Cardinality(Ids) + 1
                THEN [task |-> t, port |-> Lowest((1 .. MaxPort) \ PortsWithout({room} \ {0})),
                      status |-> "starting", phase |-> "files", process |-> FALSE, health |-> FALSE,
                      checks |-> 0, idle |-> FALSE]
              ELSE IF i \in {room} \ {0} THEN Bare(previews[i], "stopped") ELSE previews[i]]
    BY Zenon DEF StartNew
  <2>3. PICK H : H = {room} \ {0}
    OBVIOUS
  <2>4. PICK r : r = Lowest((1 .. MaxPort) \ PortsWithout(H))
    OBVIOUS
  <2>5. previews' = [i \in Ids \cup {n + 1} |->
              IF i = n + 1
                THEN [task |-> t, port |-> r, status |-> "starting", phase |-> "files", process |-> FALSE,
                      health |-> FALSE, checks |-> 0, idle |-> FALSE]
              ELSE IF i \in H THEN Bare(previews[i], "stopped") ELSE previews[i]]
    BY <2>1, <2>2, <2>3, <2>4
  <2> QED
    BY <2>5
<1>3. Ids' = Ids \cup {n + 1} /\ previews'[n + 1].status = "starting" /\ previews'[n + 1].checks = 0
  BY <1>2 DEF Ids
<1>4. \A i \in Ids : previews'[i] \in {previews[i], Bare(previews[i], "stopped")}
  BY <1>1, <1>2
<1>5. \A i \in Ids : previews'[i].status = "running" \/ previews'[i].checks > 0 => previews'[i].phase = "over"
  BY <1>4, BareIsOver
<1> QED
  BY <1>3, <1>5 DEF ChecksAreOver

LEMMA ChecksStayOver == ASSUME PrevInv, ChecksAreOver, [PreviewNext]_previewVars PROVE ChecksAreOver'
<1>0. \A i \in Ids : previews[i] \in InstanceType
  BY IdsAre DEF PrevInv
<1>1. CASE UNCHANGED previewVars
  BY <1>1 DEF previewVars, ChecksAreOver, Ids
<1>2. ASSUME NEW i \in Ids, WriteFiles(i) \/ InstallFails(i) \/ Spawn(i) PROVE ChecksAreOver'
  <2>1. previews[i].status # "running" /\ ~(previews[i].checks > 0)
    BY <1>2 DEF WriteFiles, InstallFails, Spawn, ChecksAreOver
  <2>2. CASE WriteFiles(i)
    <3>1. PICK p : p = [previews[i] EXCEPT !.phase = "install"]
      OBVIOUS
    <3>2. p.status = previews[i].status /\ p.checks = previews[i].checks
      BY <1>0, <3>1 DEF InstanceType
    <3>3. previews' = [previews EXCEPT ![i] = p]
      BY <2>2, <3>1 DEF WriteFiles
    <3> QED
      BY <2>1, <3>2, <3>3, OneIsOver
  <2>3. CASE InstallFails(i)
    <3>1. PICK p : p = [previews[i] EXCEPT !.phase = "over", !.status = "error"]
      OBVIOUS
    <3>2. p.phase = "over"
      BY <1>0, <3>1 DEF InstanceType
    <3>3. previews' = [previews EXCEPT ![i] = p]
      BY <2>3, <3>1 DEF InstallFails
    <3> QED
      BY <3>2, <3>3, OneIsOver
  <2>4. CASE Spawn(i)
    <3>1. PICK p : p = [previews[i] EXCEPT !.phase = "wait", !.process = TRUE]
      OBVIOUS
    <3>2. p.status = previews[i].status /\ p.checks = previews[i].checks
      BY <1>0, <3>1 DEF InstanceType
    <3>3. previews' = [previews EXCEPT ![i] = p]
      BY <2>4, <3>1 DEF Spawn
    <3> QED
      BY <2>1, <3>2, <3>3, OneIsOver
  <2> QED
    BY <1>2, <2>2, <2>3, <2>4
<1>3. ASSUME NEW i \in Ids, Ready(i) PROVE ChecksAreOver'
  <2>1. PICK p : p = [previews[i] EXCEPT !.phase = "over", !.status = "running", !.health = TRUE, !.idle = TRUE]
    OBVIOUS
  <2>2. p.phase = "over"
    BY <1>0, <2>1 DEF InstanceType
  <2>3. previews' = [previews EXCEPT ![i] = p]
    BY <1>3, <2>1 DEF Ready
  <2> QED
    BY <2>2, <2>3, OneIsOver
<1>4. ASSUME NEW i \in Ids, NotReady(i) PROVE ChecksAreOver'
  <2>1. PICK p : p = [Bare(previews[i], "error") EXCEPT !.phase = "over"]
    OBVIOUS
  <2>2. p.phase = "over"
    <3>1. Bare(previews[i], "error") \in InstanceType
      BY <1>0, BareIs
    <3> QED
      BY <2>1, <3>1 DEF InstanceType
  <2>3. previews' = [previews EXCEPT ![i] = p]
    BY <1>4, <2>1 DEF NotReady
  <2> QED
    BY <2>2, <2>3, OneIsOver
<1>5. ASSUME NEW i \in Ids, LookAtHealth(i) \/ CheckPasses(i) PROVE ChecksAreOver'
  <2>1. previews[i].phase = "over"
    BY <1>5 DEF LookAtHealth, CheckPasses, ChecksAreOver
  <2>2. PICK k : previews' = [previews EXCEPT ![i].checks = k]
    BY <1>5 DEF LookAtHealth, CheckPasses
  <2>3. PICK p : p = [previews[i] EXCEPT !.checks = k]
    OBVIOUS
  <2>4. p.phase = "over"
    BY <1>0, <2>1, <2>3 DEF InstanceType
  <2>5. previews' = [previews EXCEPT ![i] = p]
    BY <2>2, <2>3
  <2> QED
    BY <2>4, <2>5, OneIsOver
<1>6. ASSUME NEW i \in Ids, CheckFails(i) PROVE ChecksAreOver'
  <2>1. previews[i] \in InstanceType /\ previews[i].phase = "over"
    BY <1>0, <1>6 DEF CheckFails, ChecksAreOver
  <2>2. PICK p : p = Bare([previews[i] EXCEPT !.checks = @ - 1], "error")
    OBVIOUS
  <2>3. p.phase = "over"
    BY <2>1, <2>2 DEF Bare, InstanceType
  <2>4. previews' = [previews EXCEPT ![i] = p]
    BY <1>6, <2>2 DEF CheckFails
  <2> QED
    BY <2>3, <2>4, OneIsOver
<1>7. ASSUME NEW i \in Ids, NEW b \in BOOLEAN, previews' = [previews EXCEPT ![i].idle = b] PROVE ChecksAreOver'
  <2>1. PICK p : p = [previews[i] EXCEPT !.idle = b]
    OBVIOUS
  <2>2. p.phase = previews[i].phase /\ p.status = previews[i].status /\ p.checks = previews[i].checks
    BY <1>0, <2>1 DEF InstanceType
  <2>3. previews' = [previews EXCEPT ![i] = p]
    BY <1>7, <2>1
  <2> QED
    BY <2>2, <2>3, OneIsOver DEF ChecksAreOver
<1>8. ASSUME NEW S, StopTasks(S) PROVE ChecksAreOver'
  BY <1>8, CleanedAreOver DEF StopTasks
<1>9. ASSUME NEW v \in vites, ViteCloses(v) PROVE ChecksAreOver'
  <2>1. v.id \in Ids
    BY DEF PrevInv, PrevTypes
  <2>2. PICK p : p = Bare(previews[v.id], "stopped")
    OBVIOUS
  <2>3. p.phase = previews[v.id].phase /\ p.status = "stopped" /\ p.checks = previews[v.id].checks
    BY <1>0, <2>1, <2>2, BareIs
  <2>4. CASE previews' = [previews EXCEPT ![v.id] = p]
    BY <2>1, <2>3, <2>4, OneIsOver DEF ChecksAreOver
  <2>5. CASE previews' = previews
    BY <2>5 DEF ChecksAreOver, Ids
  <2> QED
    BY <1>9, <2>2, <2>4, <2>5 DEF ViteCloses
<1>10. ASSUME NEW i \in Ids, IdleFires(i) PROVE ChecksAreOver'
  BY <1>7, <1>8, <1>10 DEF IdleFires
<1>11. CASE StopEverything \/ PreviewStop
  BY <1>8, <1>11 DEF StopEverything, PreviewStop
<1>12. ASSUME NEW t \in PreviewTasks, current[t] # 0, previews' = [previews EXCEPT ![current[t]].idle = TRUE]
       PROVE  ChecksAreOver'
  <2>1. current[t] \in Ids
    BY <1>12 DEF PrevInv, PrevTypes
  <2> QED
    BY <1>7, <1>12, <2>1
<1>13. ASSUME NEW t \in PreviewTasks, StartAgain(t) \/ StartNew(t) \/ StartRefused(t) PROVE ChecksAreOver'
  <2>1. CASE StartAgain(t)
    BY <1>12, <2>1 DEF StartAgain, Entry, NoOne
  <2>2. CASE StartNew(t)
    BY <2>2, StartIsOver
  <2>3. CASE StartRefused(t)
    BY <2>3 DEF StartRefused, ChecksAreOver, Ids
  <2> QED
    BY <1>13, <2>1, <2>2, <2>3
<1>14. CASE PreviewLook
  BY <1>12, <1>14 DEF PreviewLook
<1> QED
  BY <1>1, <1>2, <1>3, <1>4, <1>5, <1>6, <1>9, <1>10, <1>11, <1>13, <1>14 DEF PreviewNext, PreviewStart

\* No more previews start and run than the limit; and until something meets a
\* server that has not settled, each has a port of its own and the process on
\* it (shared/services/preview.ts).
THEOREM PreviewsHold == PreviewSpec => [](PreviewTypeOK /\ PreviewsLimited /\ PreviewsOwnPorts)
<1>1. PreviewInit => PrevInv /\ ChecksAreOver
  BY PrevStarts DEF PreviewInit, ChecksAreOver, Ids
<1>2. PrevInv /\ ChecksAreOver /\ [PreviewNext]_previewVars => (PrevInv /\ ChecksAreOver)'
  BY PrevKeeps, ChecksStayOver
<1> QED
  BY <1>1, <1>2, PrevShows, PTL DEF PreviewSpec

-----------------------------------------------------------------------------
(* The loader of plugins.                                                  *)

PluginLoadType == [type : PluginTypes, by : {"auto", "watch"}, got : {"nothing", "failed", "invalid", "good"}]

LoaderTypes ==
    /\ plugins \subseteq PluginTypes /\ pluginLoads \subseteq PluginLoadType
    /\ pluginFiles \in [PluginTypes -> Contents]
    /\ imported \in [PluginTypes -> {"nothing", "failed", "invalid", "good"}]
    /\ {fileEvents, debounces, outrun} \subseteq SUBSET PluginTypes
    /\ auto \in {"idle", "loading", "over"} /\ watching \in BOOLEAN

WasTold(t) == t \in fileEvents \/ t \in debounces

\* A load that is going to register its plugin.
Promises(l) == \/ l.by = "watch" /\ l.got # "failed"
               \/ l.by = "auto" /\ l.got \in {"nothing", "good"} /\ imported[l.type] \in {"nothing", "good"}

\* A change that something is still to look at, a load, or the right plugins.
LoaderLooks ==
    /\ auto = "idle" => /\ plugins = {} /\ pluginLoads = {} /\ fileEvents = {} /\ debounces = {} /\ ~watching
                        /\ \A t \in PluginTypes : imported[t] = "nothing"
    /\ \A t \in PluginTypes \ outrun :
         /\ t \in plugins => pluginFiles[t] # "absent" \/ WasTold(t)
         /\ \A l \in pluginLoads : l.type = t => pluginFiles[t] # "absent" \/ WasTold(t)
         /\ auto # "idle" /\ pluginFiles[t] = "good" /\ imported[t] # "failed"
            => t \in plugins \/ WasTold(t) \/ \E l \in pluginLoads : l.type = t /\ Promises(l)

LoaderInv == LoaderTypes /\ LoaderLooks

LEMMA LoaderStarts == PluginInit => LoaderInv
<1> SUFFICES ASSUME PluginInit PROVE LoaderInv
  OBVIOUS
<1>1. LoaderTypes
  BY DEF PluginInit, LoaderInit, LoaderTypes
<1>2. LoaderLooks
  BY DEF PluginInit, LoaderInit, LoaderLooks
<1> QED
  BY <1>1, <1>2 DEF LoaderInv

LEMMA LoaderShows == ASSUME LoaderInv PROVE PluginsFollowFiles
<1> SUFFICES ASSUME LoaderQuiet, NEW t \in PluginTypes \ outrun
             PROVE  /\ pluginFiles[t] = "good" /\ imported[t] # "failed" => t \in plugins
                    /\ t \in plugins => pluginFiles[t] # "absent"
  BY DEF PluginsFollowFiles
<1> QED
  BY DEF LoaderInv, LoaderLooks, LoaderQuiet, WasTold

LEMMA AutoBeginsKeeps == ASSUME LoaderInv, AutoLoadBegins PROVE LoaderInv'
<1>1. /\ auto = "idle" /\ auto' = "loading" /\ pluginLoads = {}
      /\ UNCHANGED <<plugins, pluginFiles, imported, fileEvents, debounces, watching, outrun>>
      /\ pluginLoads' = pluginLoads \cup {Load(t, "auto") : t \in {p \in PluginTypes : pluginFiles[p] # "absent"}}
  BY DEF AutoLoadBegins, LoaderInv, LoaderLooks
<1>2. \A t \in PluginTypes : /\ Load(t, "auto") \in PluginLoadType /\ Load(t, "auto").type = t
                             /\ Load(t, "auto").by = "auto" /\ Load(t, "auto").got = "nothing"
  BY DEF Load, PluginLoadType
<1>3. LoaderTypes'
  BY <1>1, <1>2 DEF LoaderInv, LoaderTypes
<1>4. \A l \in pluginLoads' : pluginFiles[l.type] # "absent"
  BY <1>1, <1>2
<1>5. \A t \in PluginTypes : pluginFiles[t] = "good" => \E l \in pluginLoads' : l.type = t /\ Promises(l)'
  <2> SUFFICES ASSUME NEW t \in PluginTypes, pluginFiles[t] = "good"
               PROVE  \E l \in pluginLoads' : l.type = t /\ Promises(l)'
    OBVIOUS
  <2>1. PICK l \in pluginLoads' : l = Load(t, "auto")
    BY <1>1
  <2>2. imported'[t] = "nothing"
    BY <1>1 DEF LoaderInv, LoaderLooks
  <2> QED
    BY <1>2, <2>1, <2>2 DEF Promises
<1>6. LoaderLooks'
  BY <1>1, <1>4, <1>5 DEF LoaderInv, LoaderLooks, WasTold
<1> QED
  BY <1>3, <1>6 DEF LoaderInv

LEMMA PluginImportKeeps == ASSUME LoaderInv, NEW l \in pluginLoads, ImportEnds(l) PROVE LoaderInv'
<1>1. PICK got \in IF imported[l.type] # "nothing" THEN {imported[l.type]}
                   ELSE IF pluginFiles[l.type] \in {"invalid", "good"} THEN {pluginFiles[l.type]}
                   ELSE {"failed"} :
         /\ pluginLoads' = (pluginLoads \ {l}) \cup {[l EXCEPT !.got = got]}
         /\ \/ imported' = [imported EXCEPT ![l.type] = got]
            \/ got = "failed" /\ UNCHANGED imported
  BY DEF ImportEnds
<1>2. l \in PluginLoadType /\ l.got = "nothing" /\ l.type \in PluginTypes
      /\ UNCHANGED <<plugins, pluginFiles, fileEvents, debounces, auto, watching, outrun>>
  BY DEF ImportEnds, LoaderInv, LoaderTypes, PluginLoadType
<1>3. imported \in [PluginTypes -> {"nothing", "failed", "invalid", "good"}]
  BY DEF LoaderInv, LoaderTypes
<1>4. got \in {"failed", "invalid", "good"}
  BY <1>1, <1>2, <1>3
<1>5. PICK m \in PluginLoadType : m = [l EXCEPT !.got = got] /\ m.type = l.type /\ m.by = l.by /\ m.got = got
  <2>1. [l EXCEPT !.got = got] \in PluginLoadType
    BY <1>2, <1>4 DEF PluginLoadType
  <2>2. PICK m \in PluginLoadType : m = [l EXCEPT !.got = got]
    BY <2>1
  <2>3. m.type = l.type /\ m.by = l.by /\ m.got = got
    BY <1>2, <2>2 DEF PluginLoadType
  <2> QED
    BY <2>2, <2>3
<1>6. pluginLoads' = (pluginLoads \ {l}) \cup {m}
  BY <1>1, <1>5
<1>7. /\ imported' \in [PluginTypes -> {"nothing", "failed", "invalid", "good"}]
      /\ \A t \in PluginTypes \ {l.type} : imported'[t] = imported[t]
      /\ imported'[l.type] = got \/ (got = "failed" /\ imported'[l.type] = imported[l.type])
  BY <1>1, <1>2, <1>3, <1>4
<1>8. LoaderTypes'
  BY <1>2, <1>6, <1>7 DEF LoaderInv, LoaderTypes
<1>9. auto # "idle"
  BY DEF LoaderInv, LoaderLooks
<1>10. ASSUME NEW t \in PluginTypes \ outrun, pluginFiles[t] = "good", imported'[t] # "failed", t \notin plugins, ~WasTold(t)
       PROVE  \E k \in pluginLoads' : k.type = t /\ Promises(k)'
  <2>1. CASE t # l.type
    <3>1. PICK k \in pluginLoads : k.type = t /\ Promises(k)
      BY <1>7, <1>9, <1>10, <2>1 DEF LoaderInv, LoaderLooks
    <3>2. k \in pluginLoads'
      BY <1>6, <2>1, <3>1
    <3>3. imported'[t] = imported[t]
      BY <1>7, <2>1
    <3> QED
      BY <3>1, <3>2, <3>3 DEF Promises
  <2>2. CASE t = l.type
    <3>1. imported[t] # "failed" /\ (imported[t] = "nothing" => got = "good") /\ (imported[t] # "nothing" => got = imported[t])
      BY <1>1, <1>3, <1>7, <1>10, <2>2
    <3>2. PICK k \in pluginLoads : k.type = t /\ Promises(k)
      BY <1>9, <1>10, <3>1 DEF LoaderInv, LoaderLooks
    <3>3. imported'[t] = got /\ got # "failed"
      BY <1>7, <1>10, <2>2, <3>1
    <3>4. CASE k = l
      <4>1. Promises(m)'
        BY <1>3, <1>4, <1>5, <2>2, <3>1, <3>2, <3>3, <3>4 DEF Promises
      <4> QED
        BY <1>5, <1>6, <2>2, <4>1
    <3>5. CASE k # l
      <4>1. k \in pluginLoads'
        BY <1>6, <3>5
      <4>2. Promises(k)'
        BY <1>3, <3>1, <3>2, <3>3 DEF Promises
      <4> QED
        BY <3>2, <4>1, <4>2
    <3> QED
      BY <3>4, <3>5
  <2> QED
    BY <2>1, <2>2
<1>11. \A k \in pluginLoads' : \E j \in pluginLoads : j.type = k.type
  BY <1>5, <1>6
<1>12. ASSUME NEW t \in PluginTypes \ outrun
       PROVE  /\ t \in plugins => pluginFiles[t] # "absent" \/ WasTold(t)
              /\ \A k \in pluginLoads' : k.type = t => pluginFiles[t] # "absent" \/ WasTold(t)
  BY <1>11 DEF LoaderInv, LoaderLooks
<1>13. \A t \in PluginTypes : WasTold(t)' <=> WasTold(t)
  BY <1>2 DEF WasTold
<1>14. LoaderLooks'
  BY <1>2, <1>9, <1>10, <1>12, <1>13 DEF LoaderLooks
<1> QED
  BY <1>8, <1>14 DEF LoaderInv

LEMMA AutoEndsKeeps == ASSUME LoaderInv, AutoLoadEnds PROVE LoaderInv'
<1>1. /\ auto = "loading" /\ \A l \in Autos : l.got # "nothing"
      /\ auto' = "over"
      /\ plugins' = plugins \cup {l.type : l \in {a \in Autos : Valid(a)}}
      /\ pluginLoads' = pluginLoads \ Autos
      /\ UNCHANGED <<pluginFiles, imported, fileEvents, debounces, watching, outrun>>
  BY DEF AutoLoadEnds
<1>2. \A l \in pluginLoads : l \in PluginLoadType /\ l.type \in PluginTypes
  BY DEF LoaderInv, LoaderTypes, PluginLoadType
<1>3. LoaderTypes'
  BY <1>1, <1>2 DEF LoaderInv, LoaderTypes, Autos
<1>4. ASSUME NEW t \in PluginTypes \ outrun, t \in plugins' PROVE pluginFiles[t] # "absent" \/ WasTold(t)
  <2>1. t \in plugins \/ \E l \in pluginLoads : l.type = t
    BY <1>1, <1>4 DEF Autos
  <2> QED
    BY <2>1 DEF LoaderInv, LoaderLooks
<1>5. ASSUME NEW t \in PluginTypes \ outrun, pluginFiles[t] = "good", imported[t] # "failed", t \notin plugins', ~WasTold(t)
      PROVE  \E l \in pluginLoads' : l.type = t /\ Promises(l)
  <2>1. t \notin plugins
    BY <1>1, <1>5
  <2>2. PICK l \in pluginLoads : l.type = t /\ Promises(l)
    BY <1>1, <1>5, <2>1 DEF LoaderInv, LoaderLooks
  <2>3. l \notin Autos
    <3> SUFFICES ASSUME l \in Autos PROVE FALSE
      OBVIOUS
    <3>1. l.by = "auto" /\ l.got = "good"
      BY <1>1, <2>2 DEF Autos, Promises
    <3> QED
      BY <1>1, <1>5, <2>2, <3>1 DEF Valid
  <2> QED
    BY <1>1, <2>2, <2>3
<1>6. LoaderLooks'
  BY <1>1, <1>4, <1>5 DEF LoaderInv, LoaderLooks, WasTold, Promises
<1> QED
  BY <1>3, <1>6 DEF LoaderInv

LEMMA WatchKeeps == ASSUME LoaderInv, WatchPlugins \/ Unwatch PROVE LoaderInv'
<1>1. CASE WatchPlugins
  BY <1>1 DEF LoaderInv, LoaderTypes, LoaderLooks, WatchPlugins, WasTold, Promises
<1>2. CASE Unwatch
  <2>1. /\ watching' = FALSE /\ fileEvents' = {} /\ debounces' = {} /\ outrun' = outrun \cup fileEvents \cup debounces
        /\ UNCHANGED <<plugins, pluginFiles, imported, pluginLoads, auto>>
    BY <1>2 DEF Unwatch
  <2>2. LoaderTypes'
    BY <2>1 DEF LoaderInv, LoaderTypes
  <2>3. \A t \in PluginTypes \ outrun' : t \in PluginTypes \ outrun /\ ~WasTold(t)
    BY <2>1 DEF WasTold
  <2>4. LoaderLooks'
    BY <2>1, <2>3 DEF LoaderInv, LoaderLooks, Promises
  <2> QED
    BY <2>2, <2>4 DEF LoaderInv
<1> QED
  BY <1>1, <1>2

LEMMA EditKeeps == ASSUME LoaderInv, NEW t \in PluginTypes, FileEdited(t) PROVE LoaderInv'
<1>1. PICK k \in Contents : pluginFiles' = [pluginFiles EXCEPT ![t] = k]
  BY DEF FileEdited
<1>2. /\ UNCHANGED <<plugins, imported, debounces, pluginLoads, auto, watching>>
      /\ \/ watching /\ fileEvents' = fileEvents \cup {t} /\ outrun' = outrun
         \/ ~watching /\ outrun' = outrun \cup {t} /\ fileEvents' = fileEvents
  BY DEF FileEdited, LoaderInv, LoaderTypes
<1>3. /\ pluginFiles' \in [PluginTypes -> Contents]
      /\ \A s \in PluginTypes \ {t} : pluginFiles'[s] = pluginFiles[s]
  BY <1>1 DEF LoaderInv, LoaderTypes
<1>4. LoaderTypes'
  BY <1>2, <1>3 DEF LoaderInv, LoaderTypes
<1>5. \A s \in PluginTypes \ outrun' : /\ s \in PluginTypes \ outrun
                                       /\ WasTold(s)' \/ (s # t /\ ~WasTold(s))
  BY <1>2 DEF WasTold
<1>6. auto' = "idle" => fileEvents' = {}
  BY <1>2 DEF LoaderInv, LoaderLooks
<1>7. \A s \in PluginTypes : WasTold(s) => WasTold(s)'
  BY <1>2 DEF WasTold
<1>8. \A l : Promises(l)' <=> Promises(l)
  BY <1>2 DEF Promises
<1>9. LoaderLooks'
  <2>1. auto' = "idle" => /\ plugins' = {} /\ pluginLoads' = {} /\ fileEvents' = {} /\ debounces' = {} /\ ~watching'
                          /\ \A s \in PluginTypes : imported'[s] = "nothing"
    BY <1>2, <1>6 DEF LoaderInv, LoaderLooks
  <2>2. ASSUME NEW s \in PluginTypes \ outrun'
        PROVE  /\ s \in plugins' => pluginFiles'[s] # "absent" \/ WasTold(s)'
               /\ \A l \in pluginLoads' : l.type = s => pluginFiles'[s] # "absent" \/ WasTold(s)'
               /\ auto' # "idle" /\ pluginFiles'[s] = "good" /\ imported'[s] # "failed"
                  => s \in plugins' \/ WasTold(s)' \/ \E l \in pluginLoads' : l.type = s /\ Promises(l)'
    BY <1>2, <1>3, <1>5, <1>8 DEF LoaderInv, LoaderLooks
  <2> QED
    BY <2>1, <2>2 DEF LoaderLooks
<1> QED
  BY <1>4, <1>9 DEF LoaderInv

LEMMA ChangeKeeps == ASSUME LoaderInv, NEW t \in PluginTypes, HandleChange(t) PROVE LoaderInv'
<1>1. /\ t \in fileEvents /\ fileEvents' = fileEvents \ {t} /\ debounces' = debounces \cup {t}
      /\ UNCHANGED <<plugins, pluginFiles, imported, pluginLoads, auto, watching, outrun>>
  BY DEF HandleChange
<1>2. LoaderTypes'
  BY <1>1 DEF LoaderInv, LoaderTypes
<1>3. \A s \in PluginTypes : WasTold(s)' <=> WasTold(s)
  BY <1>1 DEF WasTold
<1>4. LoaderLooks'
  BY <1>1, <1>3 DEF LoaderInv, LoaderLooks, Promises
<1> QED
  BY <1>2, <1>4 DEF LoaderInv

LEMMA DebouncedKeeps == ASSUME LoaderInv, NEW t \in PluginTypes, Debounced(t) PROVE LoaderInv'
<1>1. /\ t \in debounces /\ debounces' = debounces \ {t}
      /\ UNCHANGED <<pluginFiles, imported, fileEvents, auto, watching>>
  BY DEF Debounced
<1>2. \A s \in PluginTypes : s # t => (WasTold(s)' <=> WasTold(s))
  BY <1>1 DEF WasTold
<1>3. \A l : Promises(l)' <=> Promises(l)
  BY <1>1 DEF Promises
<1>4. auto # "idle"
  BY <1>1 DEF LoaderInv, LoaderLooks
<1>5. CASE pluginFiles[t] = "absent"
  <2>1. /\ plugins' = plugins \ {t} /\ pluginLoads' = pluginLoads
        /\ outrun' = IF \E l \in pluginLoads : l.type = t THEN outrun \cup {t} ELSE outrun
    BY <1>5 DEF Debounced
  <2>2. LoaderTypes'
    BY <1>1, <2>1 DEF LoaderInv, LoaderTypes
  <2>3. ASSUME NEW s \in PluginTypes \ outrun'
        PROVE  /\ s \in plugins' => pluginFiles'[s] # "absent" \/ WasTold(s)'
               /\ \A l \in pluginLoads' : l.type = s => pluginFiles'[s] # "absent" \/ WasTold(s)'
               /\ auto' # "idle" /\ pluginFiles'[s] = "good" /\ imported'[s] # "failed"
                  => s \in plugins' \/ WasTold(s)' \/ \E l \in pluginLoads' : l.type = s /\ Promises(l)'
    <3>1. s \in PluginTypes \ outrun /\ (s = t => \A l \in pluginLoads : l.type # t)
      BY <2>1
    <3> QED
      BY <1>1, <1>2, <1>3, <1>5, <2>1, <3>1 DEF LoaderInv, LoaderLooks
  <2> QED
    BY <1>1, <1>4, <2>2, <2>3 DEF LoaderInv, LoaderLooks
<1>6. CASE pluginFiles[t] # "absent"
  <2>1. PICK m \in PluginLoadType : /\ pluginLoads' = pluginLoads \cup {m} /\ m.type = t /\ m.by = "watch"
                              /\ m.got = "nothing"
    <3>1. Load(t, "watch") \in PluginLoadType
      BY DEF Load, PluginLoadType
    <3>2. PICK m \in PluginLoadType : m = Load(t, "watch")
      BY <3>1
    <3>3. pluginLoads' = pluginLoads \cup {m}
      BY <1>6, <3>2 DEF Debounced
    <3> QED
      BY <3>2, <3>3 DEF Load
  <2>2. UNCHANGED <<plugins, outrun>>
    BY <1>6 DEF Debounced
  <2>3. LoaderTypes'
    BY <1>1, <2>1, <2>2 DEF LoaderInv, LoaderTypes
  <2>4. Promises(m)
    BY <2>1 DEF Promises
  <2>5. ASSUME NEW s \in PluginTypes \ outrun'
        PROVE  /\ s \in plugins' => pluginFiles'[s] # "absent" \/ WasTold(s)'
               /\ \A l \in pluginLoads' : l.type = s => pluginFiles'[s] # "absent" \/ WasTold(s)'
               /\ auto' # "idle" /\ pluginFiles'[s] = "good" /\ imported'[s] # "failed"
                  => s \in plugins' \/ WasTold(s)' \/ \E l \in pluginLoads' : l.type = s /\ Promises(l)'
    <3>1. CASE s = t
      BY <1>1, <1>3, <1>6, <2>1, <2>4, <3>1
    <3>2. CASE s # t
      BY <1>1, <1>2, <1>3, <2>1, <2>2, <3>2 DEF LoaderInv, LoaderLooks
    <3> QED
      BY <3>1, <3>2
  <2> QED
    BY <1>1, <1>4, <2>3, <2>5 DEF LoaderInv, LoaderLooks
<1> QED
  BY <1>5, <1>6

LEMMA WatchedKeeps == ASSUME LoaderInv, NEW l \in pluginLoads, WatchedLoaded(l) PROVE LoaderInv'
<1>1. /\ l.by = "watch" /\ l.got # "nothing" /\ pluginLoads' = pluginLoads \ {l}
      /\ plugins' = IF l.got = "failed" THEN plugins ELSE plugins \cup {l.type}
      /\ UNCHANGED <<pluginFiles, imported, fileEvents, debounces, auto, watching, outrun>>
  BY DEF WatchedLoaded
<1>2. l.type \in PluginTypes /\ auto # "idle"
  BY DEF LoaderInv, LoaderTypes, LoaderLooks, PluginLoadType
<1>3. LoaderTypes'
  BY <1>1, <1>2 DEF LoaderInv, LoaderTypes
<1>4. \A s \in PluginTypes : WasTold(s)' <=> WasTold(s)
  BY <1>1 DEF WasTold
<1>5. \A k : Promises(k)' <=> Promises(k)
  BY <1>1 DEF Promises
<1>6. Promises(l) => l.type \in plugins'
  BY <1>1 DEF Promises
<1>7. ASSUME NEW s \in PluginTypes \ outrun'
      PROVE  /\ s \in plugins' => pluginFiles'[s] # "absent" \/ WasTold(s)'
             /\ \A k \in pluginLoads' : k.type = s => pluginFiles'[s] # "absent" \/ WasTold(s)'
             /\ auto' # "idle" /\ pluginFiles'[s] = "good" /\ imported'[s] # "failed"
                => s \in plugins' \/ WasTold(s)' \/ \E k \in pluginLoads' : k.type = s /\ Promises(k)'
  <2>1. s \in plugins' => s \in plugins \/ s = l.type
    BY <1>1
  <2>2. plugins \subseteq plugins'
    BY <1>1
  <2> QED
    BY <1>1, <1>4, <1>5, <1>6, <2>1, <2>2 DEF LoaderInv, LoaderLooks
<1> QED
  BY <1>1, <1>2, <1>3, <1>7 DEF LoaderInv, LoaderLooks

LEMMA LoaderKeeps == ASSUME LoaderInv, LoaderNext \/ UNCHANGED <<plugins, loaderVars>> PROVE LoaderInv'
<1>1. CASE UNCHANGED <<plugins, loaderVars>>
  BY <1>1 DEF loaderVars, LoaderInv, LoaderTypes, LoaderLooks, WasTold, Promises
<1>2. CASE AutoLoadBegins \/ AutoLoadEnds \/ WatchPlugins \/ Unwatch
  BY <1>2, AutoBeginsKeeps, AutoEndsKeeps, WatchKeeps
<1>3. ASSUME NEW t \in PluginTypes, FileEdited(t) \/ HandleChange(t) \/ Debounced(t) PROVE LoaderInv'
  BY <1>3, EditKeeps, ChangeKeeps, DebouncedKeeps
<1>4. ASSUME NEW l \in pluginLoads, ImportEnds(l) \/ WatchedLoaded(l) PROVE LoaderInv'
  BY <1>4, PluginImportKeeps, WatchedKeeps
<1> QED
  BY <1>1, <1>2, <1>3, <1>4 DEF LoaderNext
-----------------------------------------------------------------------------
(* The registry of plugins.                                                *)

PluginMadeType == [type : PluginTypes, state : {"initializing", "ready", "error", "stopping", "stopped"}, told : BOOLEAN]
RegCallType == [op : {"none", "init", "stop"}, type : {IdleCall.type} \cup PluginTypes, id : Nat]

RegistryTypes ==
    /\ made \in Seq(PluginMadeType)
    /\ slot \in [PluginTypes -> 0 .. Len(made)] /\ stopsAll \in BOOLEAN
    /\ regCalls \in [RegistryCallers -> RegCallType] /\ crossed \subseteq PluginTypes
    /\ \A c \in RegistryCallers : regCalls[c].id \in 0 .. Len(made)

\* An entry is an instance of its type, and a call's instance of its type.
SlotsFit ==
    /\ \A t \in PluginTypes : slot[t] # 0 => made[slot[t]].type = t
    /\ \A c \in RegistryCallers : regCalls[c].op # "none" => /\ regCalls[c].type \in PluginTypes /\ regCalls[c].id # 0
                                                             /\ made[regCalls[c].id].type = regCalls[c].type

\* A type for which no calls overlap has one call under way, which is about
\* the instance in its entry.
OneCall ==
    \A c \in RegistryCallers : regCalls[c].op # "none" /\ regCalls[c].type \notin crossed =>
        /\ ~stopsAll /\ slot[regCalls[c].type] = regCalls[c].id
        /\ \A d \in RegistryCallers : Under(d, regCalls[c].type) => d = c
        /\ regCalls[c].op = "init" => ~made[regCalls[c].id].told

\* What runs is in its entry, and what is in an entry was not told to end.
EntriesRun ==
    \A i \in DOMAIN made : made[i].type \notin crossed /\ made[i].state = "ready" =>
        /\ ~made[i].told => slot[made[i].type] = i /\ ~stopsAll
        /\ slot[made[i].type] = i => ~made[i].told \/ stopsAll

RegistryInv == RegistryTypes /\ SlotsFit /\ OneCall /\ EntriesRun

LEMMA RegistryStarts == PluginInit => RegistryInv
<1> SUFFICES ASSUME PluginInit PROVE RegistryInv
  OBVIOUS
<1>1. /\ plugins = {} /\ made = <<>> /\ slot = [t \in PluginTypes |-> 0] /\ stopsAll = FALSE /\ crossed = {}
      /\ regCalls = [c \in RegistryCallers |-> IdleCall]
  BY DEF PluginInit, RegistryInit
<1>2. IdleCall \in RegCallType /\ IdleCall.op = "none" /\ IdleCall.id = 0
  BY DEF IdleCall, RegCallType
<1>3. made \in Seq(PluginMadeType) /\ Len(made) = 0 /\ DOMAIN made = {}
  BY <1>1
<1>4. \A c \in RegistryCallers : regCalls[c].op = "none"
  BY <1>1, <1>2
<1>5. RegistryTypes
  <2>1. regCalls \in [RegistryCallers -> RegCallType] /\ \A c \in RegistryCallers : regCalls[c].id = 0
    BY <1>1, <1>2
  <2>2. slot \in [PluginTypes -> 0 .. Len(made)] /\ 0 \in 0 .. Len(made)
    BY <1>1, <1>3
  <2> QED
    BY <1>1, <1>3, <2>1, <2>2 DEF RegistryTypes
<1>6. SlotsFit /\ OneCall
  BY <1>1, <1>4 DEF SlotsFit, OneCall
<1>7. EntriesRun
  BY <1>3 DEF EntriesRun
<1> QED
  BY <1>5, <1>6, <1>7 DEF RegistryInv

LEMMA SlotIs ==
    ASSUME RegistryTypes, SlotsFit
    PROVE  /\ \A i \in DOMAIN made : made[i] \in PluginMadeType /\ i \in Nat \ {0}
           /\ \A t \in PluginTypes : slot[t] # 0 => slot[t] \in DOMAIN made
           /\ \A c \in RegistryCallers : regCalls[c].op # "none" => regCalls[c].id \in DOMAIN made
           /\ \A i \in DOMAIN made : i \in InSlots <=> slot[made[i].type] = i
<1>1. DOMAIN made = 1 .. Len(made) /\ Len(made) \in Nat /\ \A i \in DOMAIN made : made[i] \in PluginMadeType
  BY DEF RegistryTypes
<1>2. \A t \in PluginTypes : slot[t] # 0 => slot[t] \in DOMAIN made
  BY <1>1 DEF RegistryTypes
<1>3. \A i \in DOMAIN made : i \in InSlots <=> slot[made[i].type] = i
  BY <1>1, <1>2 DEF InSlots, SlotsFit, PluginMadeType
<1> QED
  BY <1>1, <1>2, <1>3 DEF RegistryTypes, SlotsFit

LEMMA RegistryShows == ASSUME RegistryInv PROVE RegistryHoldsWhatRuns
  BY SlotIs DEF RegistryInv, EntriesRun, RegistryHoldsWhatRuns

\* A call for a type: none is under way for it, or calls overlap.
LEMMA Crossing ==
    ASSUME NEW t \in PluginTypes, CallCounted(t)
    PROVE  /\ crossed \subseteq crossed' /\ crossed' \subseteq crossed \cup {t}
           /\ t \notin crossed' => ~stopsAll /\ \A c \in RegistryCallers : ~Under(c, t)
  BY DEF CallCounted

\* One instance changes, and with it at most its type's entry.
LEMMA MadeChanges ==
    ASSUME RegistryInv, NEW i \in DOMAIN made, NEW m \in PluginMadeType, made' = [made EXCEPT ![i] = m],
           m.type = made[i].type
    PROVE  /\ made' \in Seq(PluginMadeType) /\ Len(made') = Len(made) /\ DOMAIN made' = DOMAIN made /\ made'[i] = m
           /\ \A j \in DOMAIN made \ {i} : made'[j] = made[j]
           /\ \A j \in DOMAIN made : made'[j].type = made[j].type
  BY DEF RegistryInv, RegistryTypes

LEMMA RegisterKeeps == ASSUME RegistryInv, NEW t \in PluginTypes, Register(t) PROVE RegistryInv'
<1>1. /\ plugins' = plugins \cup {t} /\ UNCHANGED <<made, slot, regCalls, stopsAll>>
      /\ crossed \subseteq crossed' /\ crossed' \subseteq crossed \cup {t}
  BY Crossing DEF Register
<1>2. RegistryTypes'
  BY <1>1 DEF RegistryInv, RegistryTypes
<1>3. SlotsFit' /\ OneCall' /\ EntriesRun'
  BY <1>1 DEF RegistryInv, SlotsFit, OneCall, EntriesRun, Under
<1> QED
  BY <1>2, <1>3 DEF RegistryInv

LEMMA UnregisterKeeps == ASSUME RegistryInv, NEW t \in PluginTypes, Unregister(t) PROVE RegistryInv'
<1>1. /\ plugins' = plugins \ {t} /\ slot' = [slot EXCEPT ![t] = 0]
      /\ UNCHANGED <<regCalls, stopsAll>>
      /\ crossed \subseteq crossed' /\ crossed' \subseteq crossed \cup {t}
      /\ t \notin crossed' => ~stopsAll /\ \A c \in RegistryCallers : ~Under(c, t)
  BY Crossing DEF Unregister
<1>2. /\ \A i \in DOMAIN made : made[i] \in PluginMadeType /\ i \in Nat \ {0}
      /\ slot[t] # 0 => slot[t] \in DOMAIN made /\ made[slot[t]].type = t
  BY SlotIs DEF RegistryInv, SlotsFit
<1>3. /\ made' \in Seq(PluginMadeType) /\ Len(made') = Len(made) /\ DOMAIN made' = DOMAIN made
      /\ \A j \in DOMAIN made : made'[j].type = made[j].type /\ made'[j].state = made[j].state
      /\ \A j \in DOMAIN made : j # slot[t] => made'[j] = made[j]
      /\ \A j \in DOMAIN made : j = slot[t] => made'[j].told
  <2>1. CASE slot[t] = 0
    BY <1>2, <2>1 DEF Unregister, RegistryInv, RegistryTypes
  <2>2. CASE slot[t] # 0
    <3>1. [made[slot[t]] EXCEPT !.told = TRUE] \in PluginMadeType
      BY <1>2, <2>2 DEF PluginMadeType
    <3>2. PICK m \in PluginMadeType : m = [made[slot[t]] EXCEPT !.told = TRUE]
      BY <3>1
    <3>3. m.type = made[slot[t]].type /\ m.state = made[slot[t]].state /\ m.told
      BY <1>2, <2>2, <3>2 DEF PluginMadeType
    <3>4. made' = [made EXCEPT ![slot[t]] = m]
      BY <2>2, <3>2 DEF Unregister
    <3> QED
      BY <1>2, <2>2, <3>3, <3>4, MadeChanges
  <2> QED
    BY <2>1, <2>2
<1>4. /\ slot' \in [PluginTypes -> 0 .. Len(made)] /\ slot'[t] = 0
      /\ \A s \in PluginTypes \ {t} : slot'[s] = slot[s]
  BY <1>1 DEF RegistryInv, RegistryTypes
<1>5. RegistryTypes'
  BY <1>1, <1>3, <1>4 DEF RegistryInv, RegistryTypes
<1>6. SlotsFit'
  <2>1. \A s \in PluginTypes : slot'[s] # 0 => made'[slot'[s]].type = s
    BY <1>3, <1>4, SlotIs DEF RegistryInv, SlotsFit
  <2>2. \A c \in RegistryCallers : regCalls'[c].op # "none" => /\ regCalls'[c].type \in PluginTypes
                                                               /\ regCalls'[c].id # 0
                                                               /\ made'[regCalls'[c].id].type = regCalls'[c].type
    BY <1>1, <1>3, SlotIs DEF RegistryInv, SlotsFit
  <2> QED
    BY <2>1, <2>2 DEF SlotsFit
<1>7. OneCall'
  <2> SUFFICES ASSUME NEW c \in RegistryCallers, regCalls[c].op # "none", regCalls[c].type \notin crossed'
               PROVE  /\ ~stopsAll /\ slot'[regCalls[c].type] = regCalls[c].id
                      /\ \A d \in RegistryCallers : Under(d, regCalls[c].type) => d = c
                      /\ regCalls[c].op = "init" => ~made'[regCalls[c].id].told
    BY <1>1 DEF OneCall, Under
  <2>1. regCalls[c].type # t /\ regCalls[c].type \in PluginTypes \ crossed /\ regCalls[c].id \in DOMAIN made
    BY <1>1, SlotIs DEF Under, RegistryInv, SlotsFit
  <2>2. regCalls[c].id # slot[t]
    BY <1>2, <2>1 DEF RegistryInv, SlotsFit
  <2> QED
    BY <1>3, <1>4, <2>1, <2>2 DEF RegistryInv, OneCall
<1>8. EntriesRun'
  <2> SUFFICES ASSUME NEW i \in DOMAIN made, made[i].type \notin crossed', made[i].state = "ready"
               PROVE  /\ ~made'[i].told => slot'[made[i].type] = i /\ ~stopsAll
                      /\ slot'[made[i].type] = i => ~made'[i].told \/ stopsAll
    BY <1>1, <1>3 DEF EntriesRun
  <2>1. made[i].type \in PluginTypes \ crossed /\ i \in Nat \ {0}
    BY <1>1, <1>2 DEF PluginMadeType
  <2>2. CASE made[i].type = t
    BY <1>3, <1>4, <2>1, <2>2 DEF RegistryInv, EntriesRun
  <2>3. CASE made[i].type # t
    <3>1. made'[i] = made[i] /\ slot'[made[i].type] = slot[made[i].type]
      BY <1>2, <1>3, <1>4, <2>1, <2>3
    <3> QED
      BY <2>1, <3>1 DEF RegistryInv, EntriesRun
  <2> QED
    BY <2>2, <2>3
<1> QED
  BY <1>5, <1>6, <1>7, <1>8 DEF RegistryInv

LEMMA InstanceKeeps == ASSUME RegistryInv, NEW c \in RegistryCallers, NEW t \in PluginTypes, RegistryInstance(c, t)
                       PROVE  RegistryInv'
<1>1. /\ regCalls[c].op = "none" /\ (slot[t] # 0 => made[slot[t]].state # "ready")
      /\ UNCHANGED <<plugins, stopsAll>>
      /\ crossed \subseteq crossed' /\ crossed' \subseteq crossed \cup {t}
      /\ t \notin crossed' => ~stopsAll /\ \A d \in RegistryCallers : ~Under(d, t)
      /\ slot' = [slot EXCEPT ![t] = Len(made) + 1]
  BY Crossing DEF RegistryInstance
<1>2. /\ \A i \in DOMAIN made : made[i] \in PluginMadeType /\ i \in Nat \ {0}
      /\ DOMAIN made = 1 .. Len(made) /\ Len(made) \in Nat /\ made \in Seq(PluginMadeType)
  BY SlotIs DEF RegistryInv, RegistryTypes
<1>3. PICK n : n = Len(made) + 1
  OBVIOUS
<1>4. PICK m \in PluginMadeType : made' = Append(made, m) /\ m.type = t /\ m.state = "initializing" /\ ~m.told
  <2>1. [type |-> t, state |-> "initializing", told |-> FALSE] \in PluginMadeType
    BY DEF PluginMadeType
  <2>2. PICK m \in PluginMadeType : m = [type |-> t, state |-> "initializing", told |-> FALSE]
    BY <2>1
  <2>3. made' = Append(made, m)
    BY <2>2 DEF RegistryInstance
  <2> QED
    BY <2>2, <2>3
<1>5. PICK r \in RegCallType : regCalls' = [regCalls EXCEPT ![c] = r] /\ r.op = "init" /\ r.type = t /\ r.id = n
  <2>1. [op |-> "init", type |-> t, id |-> n] \in RegCallType
    BY <1>2, <1>3 DEF RegCallType
  <2>2. PICK r \in RegCallType : r = [op |-> "init", type |-> t, id |-> n]
    BY <2>1
  <2>3. regCalls' = [regCalls EXCEPT ![c] = r]
    BY <1>3, <2>2 DEF RegistryInstance
  <2> QED
    BY <2>2, <2>3
<1>6. /\ made' \in Seq(PluginMadeType) /\ Len(made') = n /\ DOMAIN made' = 1 .. n /\ made'[n] = m
      /\ \A i \in DOMAIN made : made'[i] = made[i] /\ i # n /\ i \in DOMAIN made'
      /\ \A i \in DOMAIN made' : i # n => i \in DOMAIN made
      /\ n \in Nat \ {0}
  BY <1>2, <1>3, <1>4
<1>7. /\ slot' \in [PluginTypes -> 0 .. n] /\ slot'[t] = n
      /\ \A s \in PluginTypes \ {t} : slot'[s] = slot[s]
  BY <1>1, <1>2, <1>3 DEF RegistryInv, RegistryTypes
<1>8. /\ regCalls' \in [RegistryCallers -> RegCallType] /\ regCalls'[c] = r
      /\ \A d \in RegistryCallers \ {c} : regCalls'[d] = regCalls[d]
  BY <1>5 DEF RegistryInv, RegistryTypes
<1>9. RegistryTypes'
  <2>1. \A d \in RegistryCallers : regCalls'[d].id \in 0 .. n
    BY <1>2, <1>3, <1>5, <1>6, <1>8 DEF RegistryInv, RegistryTypes
  <2> QED
    BY <1>1, <1>6, <1>7, <1>8, <2>1 DEF RegistryInv, RegistryTypes
<1>10. SlotsFit'
  <2>1. \A s \in PluginTypes : slot'[s] # 0 => made'[slot'[s]].type = s
    BY <1>4, <1>6, <1>7, SlotIs DEF RegistryInv, SlotsFit
  <2>2. \A d \in RegistryCallers : regCalls'[d].op # "none" => /\ regCalls'[d].type \in PluginTypes
                                                               /\ regCalls'[d].id # 0
                                                               /\ made'[regCalls'[d].id].type = regCalls'[d].type
    BY <1>4, <1>5, <1>6, <1>8, SlotIs DEF RegistryInv, SlotsFit
  <2> QED
    BY <2>1, <2>2 DEF SlotsFit
<1>11. OneCall'
  <2> SUFFICES ASSUME NEW d \in RegistryCallers, regCalls'[d].op # "none", regCalls'[d].type \notin crossed'
               PROVE  /\ ~stopsAll /\ slot'[regCalls'[d].type] = regCalls'[d].id
                      /\ \A e \in RegistryCallers : regCalls'[e].op # "none" /\ regCalls'[e].type = regCalls'[d].type => e = d
                      /\ regCalls'[d].op = "init" => ~made'[regCalls'[d].id].told
    BY <1>1 DEF OneCall, Under
  <2>1. CASE d = c
    BY <1>1, <1>4, <1>5, <1>6, <1>7, <1>8, <2>1 DEF Under
  <2>2. CASE d # c
    <3>1. regCalls'[d] = regCalls[d] /\ regCalls[d].type # t /\ regCalls[d].type \in PluginTypes \ crossed
          /\ regCalls[d].id \in DOMAIN made
      BY <1>1, <1>8, <2>2, SlotIs DEF Under, RegistryInv, SlotsFit
    <3> QED
      BY <1>5, <1>6, <1>7, <1>8, <2>2, <3>1 DEF RegistryInv, OneCall, Under
  <2> QED
    BY <2>1, <2>2
<1>12. EntriesRun'
  <2> SUFFICES ASSUME NEW i \in DOMAIN made', made'[i].type \notin crossed', made'[i].state = "ready"
               PROVE  /\ ~made'[i].told => slot'[made'[i].type] = i /\ ~stopsAll
                      /\ slot'[made'[i].type] = i => ~made'[i].told \/ stopsAll
    BY <1>1 DEF EntriesRun
  <2>1. i \in DOMAIN made /\ made'[i] = made[i] /\ i # n /\ made[i].type \in PluginTypes \ crossed /\ i # 0
    BY <1>1, <1>2, <1>4, <1>6 DEF PluginMadeType
  <2>2. CASE made[i].type = t
    BY <1>1, <1>7, <2>1, <2>2 DEF RegistryInv, EntriesRun
  <2>3. CASE made[i].type # t
    BY <1>7, <2>1, <2>3 DEF RegistryInv, EntriesRun
  <2> QED
    BY <2>2, <2>3
<1> QED
  BY <1>9, <1>10, <1>11, <1>12 DEF RegistryInv

\* A call of the registry is over.
LEMMA IdleAgain ==
    ASSUME RegistryInv, NEW c \in RegistryCallers, regCalls' = [regCalls EXCEPT ![c] = IdleCall]
    PROVE  /\ regCalls' \in [RegistryCallers -> RegCallType] /\ regCalls'[c].op = "none" /\ regCalls'[c].id = 0
           /\ \A d \in RegistryCallers \ {c} : regCalls'[d] = regCalls[d]
<1>1. IdleCall \in RegCallType /\ IdleCall.op = "none" /\ IdleCall.id = 0
  BY DEF IdleCall, RegCallType
<1> QED
  BY <1>1 DEF RegistryInv, RegistryTypes

LEMMA InitEndsKeeps == ASSUME RegistryInv, NEW c \in RegistryCallers, RegistryInitEnds(c) PROVE RegistryInv'
<1>1. /\ regCalls[c].op = "init" /\ regCalls' = [regCalls EXCEPT ![c] = IdleCall]
      /\ UNCHANGED <<plugins, slot, stopsAll, crossed>>
  BY DEF RegistryInitEnds
<1>2. PICK i : i = regCalls[c].id
  OBVIOUS
<1>3. i \in DOMAIN made /\ made[i] \in PluginMadeType /\ made[i].type = regCalls[c].type /\ made[i].type \in PluginTypes
  BY <1>1, <1>2, SlotIs DEF RegistryInv, SlotsFit
<1>4. PICK s \in {"ready", "error"} : made' = [made EXCEPT ![i].state = s]
  BY <1>2 DEF RegistryInitEnds
<1>5. PICK m \in PluginMadeType : /\ made' = [made EXCEPT ![i] = m] /\ m.type = made[i].type /\ m.told = made[i].told
                            /\ m.state = s
  <2>1. [made[i] EXCEPT !.state = s] \in PluginMadeType
    BY <1>3 DEF PluginMadeType
  <2>2. PICK m \in PluginMadeType : m = [made[i] EXCEPT !.state = s]
    BY <2>1
  <2>3. m.type = made[i].type /\ m.told = made[i].told /\ m.state = s
    BY <1>3, <2>2 DEF PluginMadeType
  <2>4. made' = [made EXCEPT ![i] = m]
    BY <1>4, <2>2
  <2> QED
    BY <2>3, <2>4
<1>6. /\ made' \in Seq(PluginMadeType) /\ Len(made') = Len(made) /\ DOMAIN made' = DOMAIN made /\ made'[i] = m
      /\ \A j \in DOMAIN made \ {i} : made'[j] = made[j]
      /\ \A j \in DOMAIN made : made'[j].type = made[j].type
  BY <1>3, <1>5, MadeChanges
<1>7. /\ regCalls' \in [RegistryCallers -> RegCallType] /\ regCalls'[c].op = "none" /\ regCalls'[c].id = 0
      /\ \A d \in RegistryCallers \ {c} : regCalls'[d] = regCalls[d]
  BY <1>1, IdleAgain
<1>8. RegistryTypes'
  <2>1. \A d \in RegistryCallers : regCalls'[d].id \in 0 .. Len(made)
    BY <1>7 DEF RegistryInv, RegistryTypes
  <2> QED
    BY <1>1, <1>6, <1>7, <2>1 DEF RegistryInv, RegistryTypes
<1>9. SlotsFit'
  <2>1. \A t \in PluginTypes : slot'[t] # 0 => made'[slot'[t]].type = t
    BY <1>1, <1>6, SlotIs DEF RegistryInv, SlotsFit
  <2>2. \A d \in RegistryCallers : regCalls'[d].op # "none" => /\ regCalls'[d].type \in PluginTypes
                                                               /\ regCalls'[d].id # 0
                                                               /\ made'[regCalls'[d].id].type = regCalls'[d].type
    BY <1>6, <1>7, SlotIs DEF RegistryInv, SlotsFit
  <2> QED
    BY <2>1, <2>2 DEF SlotsFit
<1>10. OneCall'
  <2> SUFFICES ASSUME NEW d \in RegistryCallers, regCalls'[d].op # "none", regCalls'[d].type \notin crossed
               PROVE  /\ ~stopsAll /\ slot[regCalls'[d].type] = regCalls'[d].id
                      /\ \A e \in RegistryCallers : regCalls'[e].op # "none" /\ regCalls'[e].type = regCalls'[d].type => e = d
                      /\ regCalls'[d].op = "init" => ~made'[regCalls'[d].id].told
    BY <1>1 DEF OneCall, Under
  <2>1. d # c /\ regCalls'[d] = regCalls[d]
    BY <1>7
  <2>2. regCalls[d].id \in DOMAIN made
    BY <2>1, SlotIs DEF RegistryInv
  <2>3. made'[regCalls[d].id].told = made[regCalls[d].id].told
    BY <1>5, <1>6, <2>2
  <2> QED
    BY <1>7, <2>1, <2>3 DEF RegistryInv, OneCall, Under
<1>11. EntriesRun'
  <2> SUFFICES ASSUME NEW j \in DOMAIN made, made[j].type \notin crossed, made'[j].state = "ready"
               PROVE  /\ ~made'[j].told => slot[made[j].type] = j /\ ~stopsAll
                      /\ slot[made[j].type] = j => ~made'[j].told \/ stopsAll
    BY <1>1, <1>6 DEF EntriesRun
  <2>1. CASE j = i
    BY <1>1, <1>2, <1>3, <1>5, <1>6, <2>1 DEF RegistryInv, OneCall
  <2>2. CASE j # i
    BY <1>6, <2>2 DEF RegistryInv, EntriesRun
  <2> QED
    BY <2>1, <2>2
<1> QED
  BY <1>8, <1>9, <1>10, <1>11 DEF RegistryInv

LEMMA StopKeeps == ASSUME RegistryInv, NEW c \in RegistryCallers, NEW t \in PluginTypes, StopInstance(c, t)
                   PROVE  RegistryInv'
<1>1. /\ regCalls[c].op = "none" /\ slot[t] # 0 /\ UNCHANGED <<plugins, slot, stopsAll>>
      /\ crossed \subseteq crossed' /\ crossed' \subseteq crossed \cup {t}
      /\ t \notin crossed' => ~stopsAll /\ \A d \in RegistryCallers : ~Under(d, t)
  BY Crossing DEF StopInstance
<1>2. PICK i : i = slot[t]
  OBVIOUS
<1>3. i \in DOMAIN made /\ made[i] \in PluginMadeType /\ made[i].type = t /\ i \in Nat \ {0}
  BY <1>1, <1>2, SlotIs DEF RegistryInv, SlotsFit
<1>4. PICK m \in PluginMadeType : made' = [made EXCEPT ![i] = m] /\ m.type = t /\ m.told /\ m.state = "stopping"
  <2>1. [made[i] EXCEPT !.state = "stopping", !.told = TRUE] \in PluginMadeType
    BY <1>3 DEF PluginMadeType
  <2>2. PICK m \in PluginMadeType : m = [made[i] EXCEPT !.state = "stopping", !.told = TRUE]
    BY <2>1
  <2>3. m.type = t /\ m.told /\ m.state = "stopping"
    BY <1>3, <2>2 DEF PluginMadeType
  <2>4. made' = [made EXCEPT ![i] = m]
    BY <1>2, <2>2 DEF StopInstance
  <2> QED
    BY <2>3, <2>4
<1>5. PICK r \in RegCallType : regCalls' = [regCalls EXCEPT ![c] = r] /\ r.op = "stop" /\ r.type = t /\ r.id = i
  <2>1. [op |-> "stop", type |-> t, id |-> i] \in RegCallType
    BY <1>3 DEF RegCallType
  <2>2. PICK r \in RegCallType : r = [op |-> "stop", type |-> t, id |-> i]
    BY <2>1
  <2>3. regCalls' = [regCalls EXCEPT ![c] = r]
    BY <1>2, <2>2 DEF StopInstance
  <2> QED
    BY <2>2, <2>3
<1>6. /\ made' \in Seq(PluginMadeType) /\ Len(made') = Len(made) /\ DOMAIN made' = DOMAIN made /\ made'[i] = m
      /\ \A j \in DOMAIN made \ {i} : made'[j] = made[j]
      /\ \A j \in DOMAIN made : made'[j].type = made[j].type
  BY <1>3, <1>4, MadeChanges
<1>7. /\ regCalls' \in [RegistryCallers -> RegCallType] /\ regCalls'[c] = r
      /\ \A d \in RegistryCallers \ {c} : regCalls'[d] = regCalls[d]
  BY <1>5 DEF RegistryInv, RegistryTypes
<1>8. RegistryTypes'
  <2>1. \A d \in RegistryCallers : regCalls'[d].id \in 0 .. Len(made)
    BY <1>1, <1>2, <1>5, <1>7 DEF RegistryInv, RegistryTypes
  <2> QED
    BY <1>1, <1>6, <1>7, <2>1 DEF RegistryInv, RegistryTypes
<1>9. SlotsFit'
  <2>1. \A s \in PluginTypes : slot'[s] # 0 => made'[slot'[s]].type = s
    BY <1>1, <1>6, SlotIs DEF RegistryInv, SlotsFit
  <2>2. \A d \in RegistryCallers : regCalls'[d].op # "none" => /\ regCalls'[d].type \in PluginTypes
                                                               /\ regCalls'[d].id # 0
                                                               /\ made'[regCalls'[d].id].type = regCalls'[d].type
    BY <1>3, <1>5, <1>6, <1>7, SlotIs DEF RegistryInv, SlotsFit
  <2> QED
    BY <2>1, <2>2 DEF SlotsFit
<1>10. OneCall'
  <2> SUFFICES ASSUME NEW d \in RegistryCallers, regCalls'[d].op # "none", regCalls'[d].type \notin crossed'
               PROVE  /\ ~stopsAll /\ slot[regCalls'[d].type] = regCalls'[d].id
                      /\ \A e \in RegistryCallers : regCalls'[e].op # "none" /\ regCalls'[e].type = regCalls'[d].type => e = d
                      /\ regCalls'[d].op = "init" => ~made'[regCalls'[d].id].told
    BY <1>1 DEF OneCall, Under
  <2>1. CASE d = c
    BY <1>1, <1>2, <1>5, <1>7, <2>1 DEF Under
  <2>2. CASE d # c
    <3>1. regCalls'[d] = regCalls[d] /\ regCalls[d].type # t /\ regCalls[d].type \in PluginTypes \ crossed
          /\ regCalls[d].id \in DOMAIN made /\ made[regCalls[d].id].type = regCalls[d].type
      BY <1>1, <1>7, <2>2, SlotIs DEF Under, RegistryInv, SlotsFit
    <3>2. made'[regCalls[d].id] = made[regCalls[d].id]
      BY <1>3, <1>6, <3>1
    <3> QED
      BY <1>5, <1>7, <2>2, <3>1, <3>2 DEF RegistryInv, OneCall, Under
  <2> QED
    BY <2>1, <2>2
<1>11. EntriesRun'
  <2> SUFFICES ASSUME NEW j \in DOMAIN made, made[j].type \notin crossed', made'[j].state = "ready"
               PROVE  /\ ~made'[j].told => slot[made[j].type] = j /\ ~stopsAll
                      /\ slot[made[j].type] = j => ~made'[j].told \/ stopsAll
    BY <1>1, <1>6 DEF EntriesRun
  <2>1. j # i
    BY <1>4, <1>6
  <2> QED
    BY <1>1, <1>6, <2>1 DEF RegistryInv, EntriesRun
<1> QED
  BY <1>8, <1>9, <1>10, <1>11 DEF RegistryInv

LEMMA StopEndsKeeps == ASSUME RegistryInv, NEW c \in RegistryCallers, StopInstanceEnds(c) PROVE RegistryInv'
<1>1. /\ regCalls[c].op = "stop" /\ regCalls' = [regCalls EXCEPT ![c] = IdleCall]
      /\ UNCHANGED <<plugins, stopsAll, crossed>>
  BY DEF StopInstanceEnds
<1>2. PICK i, t : i = regCalls[c].id /\ t = regCalls[c].type
  OBVIOUS
<1>3. i \in DOMAIN made /\ made[i] \in PluginMadeType /\ made[i].type = t /\ t \in PluginTypes
  BY <1>1, <1>2, SlotIs DEF RegistryInv, SlotsFit
<1>4. PICK s \in {"stopped", "error"} : made' = [made EXCEPT ![i].state = s]
  BY <1>2 DEF StopInstanceEnds
<1>5. PICK m \in PluginMadeType : /\ made' = [made EXCEPT ![i] = m] /\ m.type = t /\ m.told = made[i].told
                            /\ m.state = s
  <2>1. [made[i] EXCEPT !.state = s] \in PluginMadeType
    BY <1>3 DEF PluginMadeType
  <2>2. PICK m \in PluginMadeType : m = [made[i] EXCEPT !.state = s]
    BY <2>1
  <2>3. m.type = t /\ m.told = made[i].told /\ m.state = s
    BY <1>3, <2>2 DEF PluginMadeType
  <2>4. made' = [made EXCEPT ![i] = m]
    BY <1>4, <2>2
  <2> QED
    BY <2>3, <2>4
<1>6. /\ made' \in Seq(PluginMadeType) /\ Len(made') = Len(made) /\ DOMAIN made' = DOMAIN made /\ made'[i] = m
      /\ \A j \in DOMAIN made \ {i} : made'[j] = made[j]
      /\ \A j \in DOMAIN made : made'[j].type = made[j].type
  BY <1>3, <1>5, MadeChanges
<1>7. /\ regCalls' \in [RegistryCallers -> RegCallType] /\ regCalls'[c].op = "none" /\ regCalls'[c].id = 0
      /\ \A d \in RegistryCallers \ {c} : regCalls'[d] = regCalls[d]
  BY <1>1, IdleAgain
<1>8. /\ slot' \in [PluginTypes -> 0 .. Len(made)] /\ slot'[t] = 0
      /\ \A u \in PluginTypes \ {t} : slot'[u] = slot[u]
  BY <1>2, <1>3 DEF StopInstanceEnds, RegistryInv, RegistryTypes
<1>9. RegistryTypes'
  <2>1. \A d \in RegistryCallers : regCalls'[d].id \in 0 .. Len(made)
    BY <1>7 DEF RegistryInv, RegistryTypes
  <2> QED
    BY <1>1, <1>6, <1>7, <1>8, <2>1 DEF RegistryInv, RegistryTypes
<1>10. SlotsFit'
  <2>1. \A u \in PluginTypes : slot'[u] # 0 => made'[slot'[u]].type = u
    BY <1>6, <1>8, SlotIs DEF RegistryInv, SlotsFit
  <2>2. \A d \in RegistryCallers : regCalls'[d].op # "none" => /\ regCalls'[d].type \in PluginTypes
                                                               /\ regCalls'[d].id # 0
                                                               /\ made'[regCalls'[d].id].type = regCalls'[d].type
    BY <1>6, <1>7, SlotIs DEF RegistryInv, SlotsFit
  <2> QED
    BY <2>1, <2>2 DEF SlotsFit
<1>11. OneCall'
  <2> SUFFICES ASSUME NEW d \in RegistryCallers, regCalls'[d].op # "none", regCalls'[d].type \notin crossed
               PROVE  /\ ~stopsAll /\ slot'[regCalls'[d].type] = regCalls'[d].id
                      /\ \A e \in RegistryCallers : regCalls'[e].op # "none" /\ regCalls'[e].type = regCalls'[d].type => e = d
                      /\ regCalls'[d].op = "init" => ~made'[regCalls'[d].id].told
    BY <1>1 DEF OneCall, Under
  <2>1. d # c /\ regCalls'[d] = regCalls[d] /\ regCalls[d].type \in PluginTypes
    BY <1>7 DEF RegistryInv, SlotsFit
  <2>2. regCalls[d].id \in DOMAIN made
    BY <2>1, SlotIs DEF RegistryInv
  <2>3. made'[regCalls[d].id].told = made[regCalls[d].id].told
    BY <1>5, <1>6, <2>2
  <2>4. regCalls[d].type # t
    BY <1>1, <1>2, <2>1 DEF RegistryInv, OneCall, Under
  <2> QED
    BY <1>7, <1>8, <2>1, <2>3, <2>4 DEF RegistryInv, OneCall, Under
<1>12. EntriesRun'
  <2> SUFFICES ASSUME NEW j \in DOMAIN made, made[j].type \notin crossed, made'[j].state = "ready"
               PROVE  /\ ~made'[j].told => slot'[made[j].type] = j /\ ~stopsAll
                      /\ slot'[made[j].type] = j => ~made'[j].told \/ stopsAll
    BY <1>1, <1>6 DEF EntriesRun
  <2>1. j # i /\ made'[j] = made[j] /\ made[j].type \in PluginTypes /\ j # 0
    BY <1>5, <1>6, SlotIs DEF RegistryInv, PluginMadeType
  <2>2. CASE made[j].type = t
    <3>1. slot[t] = i
      BY <1>1, <1>2, <2>2 DEF RegistryInv, OneCall
    <3> QED
      BY <1>8, <2>1, <2>2, <3>1 DEF RegistryInv, EntriesRun
  <2>3. CASE made[j].type # t
    BY <1>8, <2>1, <2>3 DEF RegistryInv, EntriesRun
  <2> QED
    BY <2>2, <2>3
<1> QED
  BY <1>9, <1>10, <1>11, <1>12 DEF RegistryInv

LEMMA RegStopAllKeeps == ASSUME RegistryInv, RegistryStopAll PROVE RegistryInv'
<1>1. /\ ~stopsAll /\ stopsAll' = TRUE /\ UNCHANGED <<plugins, slot, regCalls>>
      /\ crossed' = crossed \cup {t \in PluginTypes : \E c \in RegistryCallers : Under(c, t)}
  BY DEF RegistryStopAll
<1>2. /\ \A i \in DOMAIN made : made[i] \in PluginMadeType /\ i \in Nat \ {0}
      /\ DOMAIN made = 1 .. Len(made) /\ Len(made) \in Nat
  BY SlotIs DEF RegistryInv, RegistryTypes
<1>3. made' = [i \in DOMAIN made |-> IF i \in InSlots /\ made[i].state \in {"ready", "error"}
                                     THEN [made[i] EXCEPT !.told = TRUE] ELSE made[i]]
  BY DEF RegistryStopAll
<1>4. \A i \in DOMAIN made :
         /\ made'[i] \in PluginMadeType /\ made'[i].type = made[i].type /\ made'[i].state = made[i].state
         /\ made'[i].told = made[i].told \/ made'[i].told = TRUE
         /\ i \in InSlots /\ made[i].state = "ready" => made'[i].told = TRUE
  <2> SUFFICES ASSUME NEW i \in DOMAIN made
               PROVE  /\ made'[i] \in PluginMadeType /\ made'[i].type = made[i].type /\ made'[i].state = made[i].state
                      /\ made'[i].told = made[i].told \/ made'[i].told = TRUE
                      /\ i \in InSlots /\ made[i].state = "ready" => made'[i].told = TRUE
    OBVIOUS
  <2>1. made'[i] = IF i \in InSlots /\ made[i].state \in {"ready", "error"}
                   THEN [made[i] EXCEPT !.told = TRUE] ELSE made[i]
    BY <1>3
  <2>2. made[i] \in PluginMadeType
    BY <1>2
  <2>3. /\ [made[i] EXCEPT !.told = TRUE] \in PluginMadeType
        /\ [made[i] EXCEPT !.told = TRUE].type = made[i].type
        /\ [made[i] EXCEPT !.told = TRUE].state = made[i].state
        /\ [made[i] EXCEPT !.told = TRUE].told = TRUE
    BY <2>2 DEF PluginMadeType
  <2> QED
    BY <2>1, <2>2, <2>3
<1>5. made' \in Seq(PluginMadeType) /\ Len(made') = Len(made) /\ DOMAIN made' = DOMAIN made
  <2>1. made' \in [1 .. Len(made) -> PluginMadeType]
    BY <1>2, <1>3, <1>4
  <2> QED
    BY <1>2, <2>1
<1>6. RegistryTypes'
  BY <1>1, <1>5 DEF RegistryInv, RegistryTypes
<1>7. SlotsFit'
  BY <1>1, <1>4, SlotIs DEF RegistryInv, SlotsFit
<1>8. OneCall'
  <2>1. \A c \in RegistryCallers : regCalls[c].op # "none" => regCalls[c].type \in crossed'
    BY <1>1 DEF Under, RegistryInv, SlotsFit
  <2> QED
    BY <1>1, <2>1 DEF OneCall
<1>9. EntriesRun'
  <2> SUFFICES ASSUME NEW i \in DOMAIN made, made[i].type \notin crossed, made[i].state = "ready"
               PROVE  made'[i].told
    BY <1>1, <1>4, <1>5 DEF EntriesRun
  <2>1. CASE made[i].told
    BY <1>4, <2>1
  <2>2. CASE ~made[i].told
    <3>1. i \in InSlots
      BY <2>2, SlotIs DEF RegistryInv, EntriesRun
    <3> QED
      BY <1>4, <3>1
  <2> QED
    BY <2>1, <2>2
<1> QED
  BY <1>6, <1>7, <1>8, <1>9 DEF RegistryInv

LEMMA RegStopAllEndsKeeps == ASSUME RegistryInv, RegistryStopAllEnds PROVE RegistryInv'
<1>1. /\ stopsAll /\ stopsAll' = FALSE /\ slot' = [t \in PluginTypes |-> 0]
      /\ UNCHANGED <<plugins, made, regCalls, crossed>>
  BY DEF RegistryStopAllEnds
<1>2. /\ \A i \in DOMAIN made : made[i] \in PluginMadeType /\ i \in Nat \ {0}
      /\ Len(made) \in Nat
  BY SlotIs DEF RegistryInv, RegistryTypes
<1>3. RegistryTypes'
  <2>1. slot' \in [PluginTypes -> 0 .. Len(made)]
    BY <1>1, <1>2
  <2> QED
    BY <1>1, <2>1 DEF RegistryInv, RegistryTypes
<1>4. SlotsFit'
  BY <1>1 DEF RegistryInv, SlotsFit
<1>5. OneCall'
  BY <1>1 DEF RegistryInv, OneCall, Under
<1>6. EntriesRun'
  <2>1. \A i \in DOMAIN made : slot'[made[i].type] = 0 /\ i # 0
    BY <1>1, <1>2 DEF PluginMadeType
  <2> QED
    BY <1>1, <2>1 DEF RegistryInv, EntriesRun
<1> QED
  BY <1>3, <1>4, <1>5, <1>6 DEF RegistryInv

LEMMA RegistryKeeps ==
    ASSUME RegistryInv, RegistryNext \/ UNCHANGED <<plugins, registryVars>> PROVE RegistryInv'
<1>1. CASE UNCHANGED <<plugins, registryVars>>
  BY <1>1 DEF registryVars, RegistryInv, RegistryTypes, SlotsFit, OneCall, EntriesRun, Under
<1>2. CASE RegistryStopAll \/ RegistryStopAllEnds
  BY <1>2, RegStopAllKeeps, RegStopAllEndsKeeps
<1>3. ASSUME NEW t \in PluginTypes, Register(t) \/ Unregister(t) PROVE RegistryInv'
  BY <1>3, RegisterKeeps, UnregisterKeeps
<1>4. ASSUME NEW c \in RegistryCallers, RegistryInitEnds(c) \/ StopInstanceEnds(c) PROVE RegistryInv'
  BY <1>4, InitEndsKeeps, StopEndsKeeps
<1>5. ASSUME NEW c \in RegistryCallers, NEW t \in PluginTypes, RegistryInstance(c, t) \/ StopInstance(c, t)
      PROVE  RegistryInv'
  BY <1>5, InstanceKeeps, StopKeeps
<1> QED
  BY <1>1, <1>2, <1>3, <1>4, <1>5 DEF RegistryNext

-----------------------------------------------------------------------------
(* The pool of sandboxes.                                                  *)

BoxType == [image : PoolImages, inUse : BOOLEAN, up : BOOLEAN]
UserType == [pc : {"idle", "evict", "init", "use"}, image : {NoUser.image} \cup PoolImages, id : Nat]

PoolTypes ==
    /\ boxes \in Seq(BoxType) /\ users \in [PoolUsers -> UserType]
    /\ \A u \in PoolUsers : /\ users[u].id \in 0 .. Len(boxes)
                            /\ users[u].pc # "idle" => users[u].image \in PoolImages
                            /\ users[u].pc \in {"evict", "use"} => users[u].id # 0
    /\ recent \in Seq(DOMAIN boxes) /\ \A j, k \in DOMAIN recent : recent[j] = recent[k] => j = k
    /\ {emptying, jostled} \subseteq BOOLEAN /\ peak \in Nat

\* What is in use is leased, once.
LeasesFit ==
    /\ \A u \in PoolUsers : users[u].pc = "use" => boxes[users[u].id].inUse
    /\ \A u, v \in PoolUsers : users[u].pc = "use" /\ users[v].pc = "use" /\ users[u].id = users[v].id => u = v
    /\ \A i \in DOMAIN boxes : boxes[i].inUse => \E u \in PoolUsers : users[u].pc = "use" /\ users[u].id = i

PoolCalm == ~jostled =>
    /\ emptying => \A u \in PoolUsers : users[u].pc = "idle"
    /\ ~emptying => \A k \in DOMAIN recent : boxes[recent[k]].up
    /\ \A u \in PoolUsers : users[u].pc = "use" => boxes[users[u].id].up
    /\ \A u, v \in PoolUsers : Making(u) /\ Making(v) => u = v
    /\ \A u \in PoolUsers : users[u].pc = "evict" => users[u].id \in InPool /\ ~boxes[users[u].id].inUse
    /\ Len(recent) <= MaxPool \/ Len(recent) <= peak
    /\ \A u \in PoolUsers : users[u].pc = "init" => Len(recent) + 1 <= MaxPool \/ Len(recent) + 1 <= peak

NodePoolInv == PoolTypes /\ LeasesFit /\ PoolCalm

\* The pool without an instance, which it has at most once.
LEMMA RemovedIs ==
    ASSUME NEW S, NEW s \in Seq(S), NEW x, \A j, k \in DOMAIN s : s[j] = s[k] => j = k
    PROVE  /\ Removed(s, x) \in Seq(S) /\ Len(Removed(s, x)) <= Len(s)
           /\ \A j, k \in DOMAIN Removed(s, x) : Removed(s, x)[j] = Removed(s, x)[k] => j = k
           /\ \A k \in DOMAIN Removed(s, x) : Removed(s, x)[k] # x /\ \E j \in DOMAIN s : Removed(s, x)[k] = s[j]
           /\ \A j \in DOMAIN s : s[j] # x => \E k \in DOMAIN Removed(s, x) : Removed(s, x)[k] = s[j]
           /\ \A j \in DOMAIN s : s[j] = x => Len(Removed(s, x)) + 1 = Len(s)
<1>1. CASE ~\E k \in DOMAIN s : s[k] = x
  <2>1. Removed(s, x) = s
    BY <1>1 DEF Removed
  <2> QED
    BY <1>1, <2>1
<1>2. CASE \E k \in DOMAIN s : s[k] = x
  <2>1. PICK k : k = CHOOSE j \in DOMAIN s : s[j] = x
    OBVIOUS
  <2>2. k \in DOMAIN s /\ s[k] = x
    BY <1>2, <2>1
  <2>3. PICK n \in Nat : Len(s) = n /\ DOMAIN s = 1 .. n /\ k \in 1 .. n
    BY <2>2
  <2>4. PICK a : a = SubSeq(s, 1, k - 1)
    OBVIOUS
  <2>5. PICK b : b = SubSeq(s, k + 1, n)
    OBVIOUS
  <2>6. Removed(s, x) = a \o b
    BY <1>2, <2>1, <2>3, <2>4, <2>5 DEF Removed
  <2>7. a \in Seq(S) /\ Len(a) = k - 1 /\ \A j \in 1 .. (k - 1) : a[j] = s[j]
    BY <2>3, <2>4
  <2>8. b \in Seq(S) /\ Len(b) = n - k /\ \A j \in 1 .. (n - k) : b[j] = s[k + j]
    BY <2>3, <2>5
  <2>9. PICK q : q = a \o b
    OBVIOUS
  <2>10. q \in Seq(S) /\ Len(q) = n - 1 /\ DOMAIN q = 1 .. (n - 1)
    <3>1. q \in Seq(S) /\ Len(q) = Len(a) + Len(b)
      BY <2>7, <2>8, <2>9, ConcatProperties
    <3>2. Len(a) + Len(b) = n - 1
      BY <2>3, <2>7, <2>8
    <3> QED
      BY <3>1, <3>2
  <2>11. /\ \A j \in 1 .. (k - 1) : q[j] = s[j]
         /\ \A j \in k .. (n - 1) : q[j] = s[j + 1]
    <3>1. \A j \in 1 .. (k - 1) : q[j] = s[j]
      <4> SUFFICES ASSUME NEW j \in 1 .. (k - 1) PROVE q[j] = s[j]
        OBVIOUS
      <4>1. j \in DOMAIN a
        BY <2>3, <2>7
      <4>2. q[j] = a[j]
        BY <2>7, <2>8, <2>9, <4>1
      <4> QED
        BY <2>7, <4>2
    <3>2. ASSUME NEW j \in k .. (n - 1) PROVE q[j] = s[j + 1]
      <4>1. j - Len(a) \in 1 .. (n - k) /\ k + (j - Len(a)) = j + 1 /\ j \in Len(a) + 1 .. Len(a) + Len(b)
        BY <2>3, <2>7, <2>8
      <4>2. j \in 1 .. Len(a) + Len(b) /\ ~(j <= Len(a))
        BY <2>3, <2>7, <2>8, <4>1
      <4>3. q[j] = b[j - Len(a)]
        BY <2>7, <2>8, <2>9, <4>2, ConcatProperties
      <4> QED
        BY <2>8, <4>1, <4>3
    <3> QED
      BY <3>1, <3>2
  <2>16. \A i \in DOMAIN q : \/ i < k /\ i \in DOMAIN s /\ q[i] = s[i]
                             \/ i >= k /\ i + 1 \in DOMAIN s /\ q[i] = s[i + 1]
    <3> SUFFICES ASSUME NEW i \in 1 .. (n - 1)
                 PROVE  \/ i < k /\ i \in DOMAIN s /\ q[i] = s[i]
                        \/ i >= k /\ i + 1 \in DOMAIN s /\ q[i] = s[i + 1]
      BY <2>10
    <3>1. CASE i < k
      BY <2>3, <2>11, <3>1
    <3>2. CASE i >= k
      <4>1. i \in k .. (n - 1) /\ i + 1 \in 1 .. n
        BY <2>3, <3>2
      <4> QED
        BY <2>3, <2>11, <3>2, <4>1
    <3> QED
      BY <2>3, <3>1, <3>2
  <2>17. k \in Nat /\ \A i \in DOMAIN q : i \in Nat
    BY <2>3, <2>10
  <2>12. ASSUME NEW i \in DOMAIN q, NEW j \in DOMAIN q, q[i] = q[j] PROVE i = j
    <3>1. \A g, h \in DOMAIN s : s[g] = s[h] => g = h
      OBVIOUS
    <3>2. CASE i < k /\ j < k
      BY <2>12, <2>16, <2>17, <3>1, <3>2
    <3>3. CASE i >= k /\ j >= k
      <4>1. i + 1 = j + 1
        BY <2>12, <2>16, <2>17, <3>1, <3>3
      <4> QED
        BY <2>17, <4>1
    <3>4. CASE i < k /\ j >= k
      <4>1. i = j + 1
        BY <2>12, <2>16, <2>17, <3>1, <3>4
      <4> QED
        BY <2>17, <3>4, <4>1
    <3>5. CASE i >= k /\ j < k
      <4>1. j = i + 1
        BY <2>12, <2>16, <2>17, <3>1, <3>5
      <4> QED
        BY <2>17, <3>5, <4>1
    <3> QED
      BY <2>17, <3>2, <3>3, <3>4, <3>5
  <2>13. ASSUME NEW i \in DOMAIN q PROVE q[i] # x /\ (\E j \in DOMAIN s : q[i] = s[j])
    <3>1. PICK j \in DOMAIN s : q[i] = s[j] /\ ((j = i /\ i < k) \/ (j = i + 1 /\ i >= k))
      BY <2>16
    <3>2. j # k
      BY <2>17, <3>1
    <3> QED
      BY <2>2, <3>1, <3>2
  <2>14. ASSUME NEW j \in DOMAIN s, s[j] # x PROVE \E i \in DOMAIN q : q[i] = s[j]
    <3>1. CASE j < k
      BY <2>3, <2>10, <2>11, <3>1
    <3>2. CASE j > k
      <4>1. j - 1 \in k .. (n - 1) /\ (j - 1) + 1 = j /\ j - 1 \in 1 .. (n - 1)
        BY <2>3, <3>2
      <4>2. q[j - 1] = s[(j - 1) + 1]
        BY <2>11, <4>1
      <4> QED
        BY <2>10, <4>1, <4>2
    <3> QED
      BY <2>2, <2>3, <2>14, <3>1, <3>2
  <2>15. Removed(s, x) = q /\ Len(q) <= Len(s) /\ Len(q) + 1 = Len(s)
    BY <2>3, <2>6, <2>9, <2>10
  <2> QED
    BY <2>10, <2>12, <2>13, <2>14, <2>15
<1> QED
  BY <1>1, <1>2

\* The instance goes to the end of the pool, in which it is.
LEMMA TouchedIs ==
    ASSUME PoolTypes, NEW i \in InPool
    PROVE  /\ Touched(i) \in Seq(DOMAIN boxes) /\ Len(Touched(i)) = Len(recent)
           /\ \A j, k \in DOMAIN Touched(i) : Touched(i)[j] = Touched(i)[k] => j = k
           /\ \A k \in DOMAIN Touched(i) : \E j \in DOMAIN recent : Touched(i)[k] = recent[j]
           /\ \A j \in DOMAIN recent : \E k \in DOMAIN Touched(i) : Touched(i)[k] = recent[j]
<1>1. recent \in Seq(DOMAIN boxes) /\ \A j, k \in DOMAIN recent : recent[j] = recent[k] => j = k
  BY DEF PoolTypes
<1>2. PICK j \in DOMAIN recent : recent[j] = i
  BY DEF InPool
<1>3. PICK q : q = Removed(recent, i)
  OBVIOUS
<1>4. /\ q \in Seq(DOMAIN boxes) /\ Len(q) + 1 = Len(recent)
      /\ \A h, k \in DOMAIN q : q[h] = q[k] => h = k
      /\ \A k \in DOMAIN q : q[k] # i /\ \E h \in DOMAIN recent : q[k] = recent[h]
      /\ \A h \in DOMAIN recent : recent[h] # i => \E k \in DOMAIN q : q[k] = recent[h]
  BY <1>1, <1>2, <1>3, RemovedIs
<1>5. i \in DOMAIN boxes
  BY <1>1, <1>2
<1>6. PICK p : p = Append(q, i)
  OBVIOUS
<1>7. /\ p \in Seq(DOMAIN boxes) /\ Len(p) = Len(q) + 1 /\ DOMAIN p = 1 .. (Len(q) + 1) /\ Len(q) \in Nat
      /\ p[Len(q) + 1] = i /\ DOMAIN q = 1 .. Len(q) /\ \A k \in DOMAIN q : p[k] = q[k]
  BY <1>4, <1>5, <1>6
<1>8. \A h, k \in DOMAIN p : p[h] = p[k] => h = k
  BY <1>4, <1>7
<1>9. \A k \in DOMAIN p : \E h \in DOMAIN recent : p[k] = recent[h]
  BY <1>2, <1>4, <1>7
<1>10. \A h \in DOMAIN recent : \E k \in DOMAIN p : p[k] = recent[h]
  BY <1>4, <1>7
<1>11. Touched(i) = p
  BY <1>3, <1>6 DEF Touched
<1>12. Len(p) = Len(recent) /\ p \in Seq(DOMAIN boxes)
  BY <1>4, <1>7
<1> QED
  BY <1>8, <1>9, <1>10, <1>11, <1>12

LEMMA NodePoolStarts == PluginInit => NodePoolInv
<1> SUFFICES ASSUME PluginInit PROVE NodePoolInv
  OBVIOUS
<1>1. /\ boxes = <<>> /\ recent = <<>> /\ users = [u \in PoolUsers |-> NoUser]
      /\ emptying = FALSE /\ peak = 0 /\ jostled = FALSE
  BY DEF PluginInit, PoolInit
<1>2. NoUser \in UserType /\ NoUser.pc = "idle" /\ NoUser.id = 0
  BY DEF NoUser, UserType
<1>3. \A u \in PoolUsers : users[u].pc = "idle" /\ users[u].id = 0
  BY <1>1, <1>2
<1>4. boxes \in Seq(BoxType) /\ recent \in Seq(DOMAIN boxes) /\ Len(boxes) = 0 /\ Len(recent) = 0
      /\ DOMAIN boxes = {} /\ DOMAIN recent = {}
  BY <1>1
<1>5. PoolTypes
  <2>1. users \in [PoolUsers -> UserType] /\ 0 \in 0 .. Len(boxes)
    BY <1>1, <1>2, <1>4
  <2> QED
    BY <1>1, <1>3, <1>4, <2>1 DEF PoolTypes
<1>6. LeasesFit /\ PoolCalm
  BY <1>1, <1>3, <1>4 DEF LeasesFit, PoolCalm, Making
<1> QED
  BY <1>5, <1>6 DEF NodePoolInv

LEMMA BoxesAre ==
    ASSUME PoolTypes
    PROVE  /\ \A i \in DOMAIN boxes : boxes[i] \in BoxType /\ i \in Nat \ {0}
           /\ DOMAIN boxes = 1 .. Len(boxes) /\ Len(boxes) \in Nat
           /\ DOMAIN recent = 1 .. Len(recent) /\ Len(recent) \in Nat
           /\ \A k \in DOMAIN recent : recent[k] \in DOMAIN boxes
           /\ \A u \in PoolUsers : users[u].pc \in {"evict", "use"} => users[u].id \in DOMAIN boxes
           /\ \A u \in PoolUsers : users[u] \in UserType
  BY DEF PoolTypes

LEMMA NodePoolShows == ASSUME NodePoolInv PROVE PoolLeasesHold
  BY DEF NodePoolInv, LeasesFit, PoolCalm, PoolLeasesHold

\* The pool has no more instances in use than there are leases.
LEMMA Counting ==
    ASSUME PoolTypes, LeasesFit
    PROVE  Holding \in Nat /\ (Unused = {} => Len(recent) <= Holding)
<1> DEFINE T == {u \in PoolUsers : users[u].pc # "idle"}
<1>1. IsFiniteSet(T) /\ Holding = Cardinality(T) /\ Holding \in Nat
  BY PluginsAssumption, FS_Subset, FS_CardinalityType DEF Holding
<1>2. ASSUME Unused = {} PROVE Len(recent) <= Holding
  <2>1. \A k \in DOMAIN recent : \E u \in PoolUsers : users[u].pc = "use" /\ users[u].id = recent[k]
    BY <1>2, BoxesAre DEF Unused, LeasesFit
  <2> DEFINE f == [k \in 1 .. Len(recent) |-> CHOOSE u \in PoolUsers : users[u].pc = "use" /\ users[u].id = recent[k]]
  <2>2. \A k \in 1 .. Len(recent) : f[k] \in T /\ users[f[k]].id = recent[k]
    BY <2>1, BoxesAre
  <2>3. \A j, k \in 1 .. Len(recent) : f[j] = f[k] => j = k
    BY <2>2, BoxesAre DEF PoolTypes
  <2>4. f \in [1 .. Len(recent) -> T]
    BY <2>2
  <2> HIDE DEF f, T
  <2>5. f \in Injection(1 .. Len(recent), T)
    BY <2>3, <2>4 DEF Injection, IsInjective
  <2>6. Cardinality(1 .. Len(recent)) <= Cardinality(T)
    BY <1>1, <2>5, FS_Injection
  <2>7. Cardinality(1 .. Len(recent)) = Len(recent)
    <3>1. PICK n \in Nat : n = Len(recent)
      BY BoxesAre
    <3>2. Cardinality(1 .. n) = n
      BY FS_Interval
    <3> QED
      BY <3>1, <3>2
  <2> QED
    BY <1>1, <2>6, <2>7
<1> QED
  BY <1>1, <1>2

LEMMA PeakGrows ==
    ASSUME PoolTypes, LeasesFit, peak' = IF Holding + 1 > peak THEN Holding + 1 ELSE peak
    PROVE  /\ peak' \in Nat /\ peak <= peak' /\ Holding + 1 <= peak' /\ Holding \in Nat
           /\ \A n \in Nat : n <= MaxPool \/ n <= peak => n <= MaxPool \/ n <= peak'
<1>1. Holding \in Nat /\ peak \in Nat
  BY Counting DEF PoolTypes
<1> QED
  BY <1>1

\* One instance and one user change.
LEMMA BoxChanges ==
    ASSUME PoolTypes, NEW i \in DOMAIN boxes, NEW b \in BoxType, boxes' = [boxes EXCEPT ![i] = b]
    PROVE  /\ boxes' \in Seq(BoxType) /\ Len(boxes') = Len(boxes) /\ DOMAIN boxes' = DOMAIN boxes /\ boxes'[i] = b
           /\ \A j \in DOMAIN boxes \ {i} : boxes'[j] = boxes[j]
  BY DEF PoolTypes

LEMMA UserChanges ==
    ASSUME PoolTypes, NEW u \in PoolUsers, NEW r \in UserType, users' = [users EXCEPT ![u] = r]
    PROVE  /\ users' \in [PoolUsers -> UserType] /\ users'[u] = r
           /\ \A v \in PoolUsers \ {u} : users'[v] = users[v]
  BY DEF PoolTypes

LEMMA NoUserIs == NoUser \in UserType /\ NoUser.pc = "idle" /\ NoUser.id = 0
  BY DEF NoUser, UserType

LEMMA ReuseKeeps ==
    ASSUME NodePoolInv, NEW u \in PoolUsers, NEW m \in PoolImages, users[u].pc = "idle", UNCHANGED emptying,
           Reuse(u, m)
    PROVE  NodePoolInv'
<1>1. PICK i \in Available(m) :
         /\ boxes' = [boxes EXCEPT ![i].inUse = TRUE]
         /\ recent' = Touched(i)
         /\ users' = [users EXCEPT ![u] = [pc |-> "use", image |-> m, id |-> i]]
         /\ jostled' = (jostled \/ emptying
                      \/ \E v \in PoolUsers : users[v].pc = "evict" /\ users[v].id = i)
  BY DEF Reuse
<1>2. peak' = IF Holding + 1 > peak THEN Holding + 1 ELSE peak
  BY DEF Reuse
<1>3. i \in InPool /\ i \in DOMAIN boxes /\ boxes[i] \in BoxType /\ ~boxes[i].inUse /\ i \in Nat
  BY BoxesAre DEF Available, InPool, NodePoolInv
<1>4. PICK b \in BoxType : boxes' = [boxes EXCEPT ![i] = b] /\ b.inUse = TRUE /\ b.up = boxes[i].up
  <2>1. [boxes[i] EXCEPT !.inUse = TRUE] \in BoxType
    BY <1>3 DEF BoxType
  <2>2. PICK b \in BoxType : b = [boxes[i] EXCEPT !.inUse = TRUE]
    BY <2>1
  <2>3. b.inUse = TRUE /\ b.up = boxes[i].up
    BY <1>3, <2>2 DEF BoxType
  <2>4. boxes' = [boxes EXCEPT ![i] = b]
    BY <1>1, <2>2
  <2> QED
    BY <2>3, <2>4
<1>5. PICK r \in UserType : users' = [users EXCEPT ![u] = r] /\ r.pc = "use" /\ r.image = m /\ r.id = i
  <2>1. [pc |-> "use", image |-> m, id |-> i] \in UserType
    BY <1>3 DEF UserType
  <2> QED
    BY <1>1, <2>1
<1>6. /\ boxes' \in Seq(BoxType) /\ Len(boxes') = Len(boxes) /\ DOMAIN boxes' = DOMAIN boxes /\ boxes'[i] = b
      /\ \A j \in DOMAIN boxes \ {i} : boxes'[j] = boxes[j]
  BY <1>3, <1>4, BoxChanges DEF NodePoolInv
<1>7. /\ users' \in [PoolUsers -> UserType] /\ users'[u] = r
      /\ \A v \in PoolUsers \ {u} : users'[v] = users[v]
  BY <1>5, UserChanges DEF NodePoolInv
<1>8. /\ recent' \in Seq(DOMAIN boxes) /\ Len(recent') = Len(recent)
      /\ \A j, k \in DOMAIN recent' : recent'[j] = recent'[k] => j = k
      /\ \A k \in DOMAIN recent' : \E j \in DOMAIN recent : recent'[k] = recent[j]
      /\ \A j \in DOMAIN recent : \E k \in DOMAIN recent' : recent'[k] = recent[j]
  BY <1>1, <1>3, TouchedIs DEF NodePoolInv
<1>9. /\ peak' \in Nat /\ \A n \in Nat : n <= MaxPool \/ n <= peak => n <= MaxPool \/ n <= peak'
  BY <1>2, PeakGrows DEF NodePoolInv
<1>10. PoolTypes'
  <2>1. {emptying', jostled'} \subseteq BOOLEAN
    BY <1>1 DEF NodePoolInv, PoolTypes
  <2>2. \A v \in PoolUsers : /\ users'[v].id \in 0 .. Len(boxes')
                             /\ users'[v].pc # "idle" => users'[v].image \in PoolImages
                             /\ users'[v].pc \in {"evict", "use"} => users'[v].id # 0
    BY <1>3, <1>5, <1>6, <1>7, BoxesAre DEF NodePoolInv, PoolTypes
  <2> QED
    BY <1>6, <1>7, <1>8, <1>9, <2>1, <2>2 DEF PoolTypes
<1>11. \A v \in PoolUsers \ {u} : users[v].pc = "use" => users[v].id # i
  BY <1>3 DEF NodePoolInv, LeasesFit
<1>12. LeasesFit'
  <2>1. \A v \in PoolUsers : users'[v].pc = "use" => boxes'[users'[v].id].inUse
    BY <1>4, <1>5, <1>6, <1>7, <1>11, BoxesAre DEF NodePoolInv, LeasesFit
  <2>2. \A v, w \in PoolUsers : users'[v].pc = "use" /\ users'[w].pc = "use" /\ users'[v].id = users'[w].id => v = w
    BY <1>5, <1>7, <1>11 DEF NodePoolInv, LeasesFit
  <2>3. ASSUME NEW j \in DOMAIN boxes, boxes'[j].inUse PROVE \E v \in PoolUsers : users'[v].pc = "use" /\ users'[v].id = j
    <3>1. CASE j = i
      BY <1>5, <1>7, <3>1
    <3>2. CASE j # i
      <4>1. PICK v \in PoolUsers : users[v].pc = "use" /\ users[v].id = j
        BY <1>6, <2>3, <3>2 DEF NodePoolInv, LeasesFit
      <4> QED
        BY <1>7, <4>1
    <3> QED
      BY <3>1, <3>2
  <2> QED
    BY <1>6, <2>1, <2>2, <2>3 DEF LeasesFit
<1>13. PoolCalm'
  <2> SUFFICES ASSUME ~jostled' PROVE PoolCalm'
    BY DEF PoolCalm
  <2>1. ~jostled /\ ~emptying /\ \A v \in PoolUsers : users[v].pc = "evict" => users[v].id # i
    BY <1>1
  <2>2. \A j \in DOMAIN boxes : boxes'[j].up = boxes[j].up
    BY <1>4, <1>6
  <2>3. \A k \in DOMAIN recent' : boxes'[recent'[k]].up
    BY <1>8, <2>1, <2>2, BoxesAre DEF NodePoolInv, PoolCalm
  <2>4. boxes[i].up
    BY <1>3, <2>1 DEF NodePoolInv, PoolCalm, InPool
  <2>5. \A v \in PoolUsers : users'[v].pc = "use" => boxes'[users'[v].id].up
    BY <1>3, <1>5, <1>7, <2>1, <2>2, <2>4, BoxesAre DEF NodePoolInv, PoolCalm
  <2>6. \A v, w \in PoolUsers : Making(v)' /\ Making(w)' => v = w
    BY <1>5, <1>7, <2>1 DEF NodePoolInv, PoolCalm, Making
  <2>7. ASSUME NEW v \in PoolUsers, users'[v].pc = "evict" PROVE users'[v].id \in InPool' /\ ~boxes'[users'[v].id].inUse
    <3>1. v # u /\ users'[v] = users[v] /\ users[v].id # i
      BY <1>5, <1>7, <2>1, <2>7
    <3>2. users[v].id \in InPool /\ ~boxes[users[v].id].inUse /\ users[v].id \in DOMAIN boxes
      BY <2>1, <2>7, <3>1, BoxesAre DEF NodePoolInv, PoolCalm
    <3>3. users[v].id \in InPool'
      BY <1>8, <3>2 DEF InPool
    <3> QED
      BY <1>6, <3>1, <3>2, <3>3
  <2>8. Len(recent') <= MaxPool \/ Len(recent') <= peak'
    BY <1>8, <1>9, <2>1, BoxesAre DEF NodePoolInv, PoolCalm
  <2>9. \A v \in PoolUsers : users'[v].pc = "init" => Len(recent') + 1 <= MaxPool \/ Len(recent') + 1 <= peak'
    <3>1. Len(recent) + 1 \in Nat
      BY BoxesAre DEF NodePoolInv
    <3> QED
      BY <1>5, <1>7, <1>8, <1>9, <2>1, <3>1 DEF NodePoolInv, PoolCalm
  <2> QED
    BY <2>1, <2>3, <2>5, <2>6, <2>7, <2>8, <2>9 DEF PoolCalm
<1> QED
  BY <1>10, <1>12, <1>13 DEF NodePoolInv

LEMMA RoomKeeps ==
    ASSUME NodePoolInv, NEW u \in PoolUsers, NEW m \in PoolImages, users[u].pc = "idle", UNCHANGED emptying,
           MakeRoom(u, m)
    PROVE  NodePoolInv'
<1>1. /\ peak' = IF Holding + 1 > peak THEN Holding + 1 ELSE peak
      /\ jostled' = (jostled \/ emptying \/ \E v \in PoolUsers : Making(v))
      /\ boxes' = boxes /\ recent' = recent
  BY DEF MakeRoom
<1>2. PICK r \in UserType :
         /\ users' = [users EXCEPT ![u] = r] /\ r.image = m
         /\ \/ r.pc = "evict" /\ r.id \in InPool /\ ~boxes[r.id].inUse /\ r.id \in DOMAIN boxes
            \/ r.pc = "init" /\ r.id = 0 /\ (Len(recent) >= MaxPool => Unused = {})
  <2>1. CASE Len(recent) >= MaxPool /\ Unused # {}
    <3>1. PICK k \in Unused : users' = [users EXCEPT ![u] = [pc |-> "evict", image |-> m, id |-> recent[k]]]
      BY <2>1 DEF MakeRoom
    <3>2. recent[k] \in InPool /\ ~boxes[recent[k]].inUse /\ recent[k] \in DOMAIN boxes /\ recent[k] \in Nat
      BY BoxesAre DEF NodePoolInv, Unused, InPool
    <3>3. [pc |-> "evict", image |-> m, id |-> recent[k]] \in UserType
      BY <3>2 DEF UserType
    <3>4. PICK r \in UserType : r = [pc |-> "evict", image |-> m, id |-> recent[k]]
      BY <3>3
    <3>5. r.pc = "evict" /\ r.image = m /\ r.id = recent[k]
      BY <3>4
    <3> QED
      BY <3>1, <3>2, <3>4, <3>5
  <2>2. CASE ~(Len(recent) >= MaxPool /\ Unused # {})
    <3>1. users' = [users EXCEPT ![u] = [pc |-> "init", image |-> m, id |-> 0]]
      BY <2>2 DEF MakeRoom
    <3>2. [pc |-> "init", image |-> m, id |-> 0] \in UserType
      BY DEF UserType
    <3> QED
      BY <2>2, <3>1, <3>2
  <2> QED
    BY <2>1, <2>2
<1>3. /\ users' \in [PoolUsers -> UserType] /\ users'[u] = r
      /\ \A v \in PoolUsers \ {u} : users'[v] = users[v]
  BY <1>2, UserChanges DEF NodePoolInv
<1>4. /\ peak' \in Nat /\ Holding + 1 <= peak' /\ Holding \in Nat
      /\ \A n \in Nat : n <= MaxPool \/ n <= peak => n <= MaxPool \/ n <= peak'
  BY <1>1, PeakGrows DEF NodePoolInv
<1>5. PoolTypes'
  <2>1. {emptying', jostled'} \subseteq BOOLEAN
    BY <1>1 DEF NodePoolInv, PoolTypes
  <2>2. \A v \in PoolUsers : /\ users'[v].id \in 0 .. Len(boxes')
                             /\ users'[v].pc # "idle" => users'[v].image \in PoolImages
                             /\ users'[v].pc \in {"evict", "use"} => users'[v].id # 0
    <3>1. r.id \in 0 .. Len(boxes) /\ (r.pc \in {"evict", "use"} => r.id # 0)
      BY <1>2, BoxesAre DEF NodePoolInv
    <3> QED
      BY <1>1, <1>2, <1>3, <3>1 DEF NodePoolInv, PoolTypes
  <2> QED
    BY <1>1, <1>3, <1>4, <2>1, <2>2 DEF NodePoolInv, PoolTypes
<1>6. \A v \in PoolUsers : /\ users'[v].pc = "use" => v # u /\ users'[v] = users[v]
                           /\ users[v].pc = "use" => v # u /\ users'[v] = users[v]
  BY <1>2, <1>3
<1>7. LeasesFit'
  <2>1. \A v \in PoolUsers : users'[v].pc = "use" => boxes'[users'[v].id].inUse
    BY <1>1, <1>6 DEF NodePoolInv, LeasesFit
  <2>2. \A v, w \in PoolUsers : users'[v].pc = "use" /\ users'[w].pc = "use" /\ users'[v].id = users'[w].id => v = w
    BY <1>6 DEF NodePoolInv, LeasesFit
  <2>3. \A i \in DOMAIN boxes' : boxes'[i].inUse => \E v \in PoolUsers : users'[v].pc = "use" /\ users'[v].id = i
    BY <1>1, <1>6 DEF NodePoolInv, LeasesFit
  <2> QED
    BY <2>1, <2>2, <2>3 DEF LeasesFit
<1>8. PoolCalm'
  <2> SUFFICES ASSUME ~jostled' PROVE PoolCalm'
    BY DEF PoolCalm
  <2>1. ~jostled /\ ~emptying /\ \A v \in PoolUsers : ~Making(v)
    BY <1>1
  <2>2. \A v \in PoolUsers : Making(v)' => v = u
    BY <1>3, <2>1 DEF Making
  <2>3. /\ \A k \in DOMAIN recent' : boxes'[recent'[k]].up
        /\ \A v \in PoolUsers : users'[v].pc = "use" => boxes'[users'[v].id].up
    BY <1>1, <1>6, <2>1 DEF NodePoolInv, PoolCalm
  <2>4. \A v \in PoolUsers : users'[v].pc = "evict" => users'[v].id \in InPool' /\ ~boxes'[users'[v].id].inUse
    <3>1. InPool' = InPool
      BY <1>1 DEF InPool
    <3> QED
      BY <1>1, <1>2, <1>3, <2>2, <3>1 DEF Making
  <2>5. Len(recent') <= MaxPool \/ Len(recent') <= peak'
    BY <1>1, <1>4, <2>1, BoxesAre DEF NodePoolInv, PoolCalm
  <2>6. ASSUME NEW v \in PoolUsers, users'[v].pc = "init"
        PROVE  Len(recent') + 1 <= MaxPool \/ Len(recent') + 1 <= peak'
    <3>1. Len(recent) \in Nat /\ MaxPool \in Nat /\ (Len(recent) >= MaxPool => Unused = {})
      BY <1>2, <1>3, <2>2, <2>6, BoxesAre, PluginsAssumption DEF Making, NodePoolInv
    <3>2. Unused = {} => Len(recent) <= Holding
      BY Counting DEF NodePoolInv
    <3> QED
      BY <1>1, <1>4, <3>1, <3>2
  <2> QED
    BY <2>1, <2>2, <2>3, <2>4, <2>5, <2>6 DEF PoolCalm
<1> QED
  BY <1>5, <1>7, <1>8 DEF NodePoolInv

LEMMA EvictedKeeps == ASSUME NodePoolInv, NEW u \in PoolUsers, Evicted(u) PROVE NodePoolInv'
<1>1. /\ users[u].pc = "evict" /\ UNCHANGED <<emptying, peak, jostled>>
  BY DEF Evicted
<1>2. PICK i : i = users[u].id
  OBVIOUS
<1>3. i \in DOMAIN boxes /\ boxes[i] \in BoxType /\ users[u] \in UserType
  BY <1>1, <1>2, BoxesAre DEF NodePoolInv
<1>4. PICK b \in BoxType : boxes' = [boxes EXCEPT ![i] = b] /\ b.inUse = boxes[i].inUse
  <2>1. [boxes[i] EXCEPT !.up = FALSE] \in BoxType
    BY <1>3 DEF BoxType
  <2>2. PICK b \in BoxType : b = [boxes[i] EXCEPT !.up = FALSE]
    BY <2>1
  <2>3. b.inUse = boxes[i].inUse
    BY <1>3, <2>2 DEF BoxType
  <2>4. boxes' = [boxes EXCEPT ![i] = b]
    BY <1>2, <2>2 DEF Evicted
  <2> QED
    BY <2>3, <2>4
<1>5. PICK r \in UserType : users' = [users EXCEPT ![u] = r] /\ r.pc = "init" /\ r.image = users[u].image /\ r.id = 0
  <2>1. [users[u] EXCEPT !.pc = "init", !.id = 0] \in UserType
    BY <1>3 DEF UserType
  <2>2. PICK r \in UserType : r = [users[u] EXCEPT !.pc = "init", !.id = 0]
    BY <2>1
  <2>3. r.pc = "init" /\ r.image = users[u].image /\ r.id = 0
    BY <1>3, <2>2 DEF UserType
  <2>4. users' = [users EXCEPT ![u] = r]
    BY <2>2 DEF Evicted
  <2> QED
    BY <2>3, <2>4
<1>6. /\ boxes' \in Seq(BoxType) /\ Len(boxes') = Len(boxes) /\ DOMAIN boxes' = DOMAIN boxes /\ boxes'[i] = b
      /\ \A j \in DOMAIN boxes \ {i} : boxes'[j] = boxes[j]
  BY <1>3, <1>4, BoxChanges DEF NodePoolInv
<1>7. /\ users' \in [PoolUsers -> UserType] /\ users'[u] = r
      /\ \A v \in PoolUsers \ {u} : users'[v] = users[v]
  BY <1>5, UserChanges DEF NodePoolInv
<1>8. /\ recent' \in Seq(DOMAIN boxes) /\ Len(recent') <= Len(recent)
      /\ \A j, k \in DOMAIN recent' : recent'[j] = recent'[k] => j = k
      /\ \A k \in DOMAIN recent' : recent'[k] # i /\ \E j \in DOMAIN recent : recent'[k] = recent[j]
      /\ i \in InPool => Len(recent') + 1 = Len(recent)
      /\ Len(recent) \in Nat /\ Len(recent') \in Nat /\ peak \in Nat /\ MaxPool \in Nat
  <2>1. recent \in Seq(DOMAIN boxes) /\ \A j, k \in DOMAIN recent : recent[j] = recent[k] => j = k
    BY DEF NodePoolInv, PoolTypes
  <2>2. PICK q : q = Removed(recent, i)
    OBVIOUS
  <2>3. /\ q \in Seq(DOMAIN boxes) /\ Len(q) <= Len(recent)
        /\ \A j, k \in DOMAIN q : q[j] = q[k] => j = k
        /\ \A k \in DOMAIN q : q[k] # i /\ \E j \in DOMAIN recent : q[k] = recent[j]
        /\ \A j \in DOMAIN recent : recent[j] = i => Len(q) + 1 = Len(recent)
    BY <2>1, <2>2, RemovedIs
  <2>4. recent' = q
    BY <1>2, <2>2 DEF Evicted
  <2>5. i \in InPool => Len(q) + 1 = Len(recent)
    BY <2>3 DEF InPool
  <2>6. Len(recent) \in Nat /\ Len(q) \in Nat /\ peak \in Nat /\ MaxPool \in Nat
    BY <2>1, <2>3, PluginsAssumption DEF NodePoolInv, PoolTypes
  <2> QED
    BY <2>3, <2>4, <2>5, <2>6
<1>9. PoolTypes'
  <2>1. \A v \in PoolUsers : /\ users'[v].id \in 0 .. Len(boxes')
                             /\ users'[v].pc # "idle" => users'[v].image \in PoolImages
                             /\ users'[v].pc \in {"evict", "use"} => users'[v].id # 0
    BY <1>1, <1>5, <1>6, <1>7, BoxesAre DEF NodePoolInv, PoolTypes
  <2> QED
    BY <1>1, <1>6, <1>7, <1>8, <2>1 DEF NodePoolInv, PoolTypes
<1>10. \A v \in PoolUsers : /\ users'[v].pc = "use" => v # u /\ users'[v] = users[v]
                            /\ users[v].pc = "use" => v # u /\ users'[v] = users[v]
  BY <1>1, <1>5, <1>7
<1>11. \A j \in DOMAIN boxes : boxes'[j].inUse = boxes[j].inUse
  BY <1>4, <1>6
<1>12. LeasesFit'
  <2>1. \A v \in PoolUsers : users'[v].pc = "use" => boxes'[users'[v].id].inUse
    BY <1>10, <1>11, BoxesAre DEF NodePoolInv, LeasesFit
  <2>2. \A v, w \in PoolUsers : users'[v].pc = "use" /\ users'[w].pc = "use" /\ users'[v].id = users'[w].id => v = w
    BY <1>10 DEF NodePoolInv, LeasesFit
  <2>3. \A j \in DOMAIN boxes' : boxes'[j].inUse => \E v \in PoolUsers : users'[v].pc = "use" /\ users'[v].id = j
    BY <1>6, <1>10, <1>11 DEF NodePoolInv, LeasesFit
  <2> QED
    BY <2>1, <2>2, <2>3 DEF LeasesFit
<1>13. PoolCalm'
  <2> SUFFICES ASSUME ~jostled PROVE PoolCalm'
    BY <1>1 DEF PoolCalm
  <2>1. ~emptying /\ i \in InPool /\ ~boxes[i].inUse /\ \A v \in PoolUsers : Making(v) => v = u
    BY <1>1, <1>2 DEF NodePoolInv, PoolCalm, Making
  <2>2. \A v \in PoolUsers : Making(v)' => v = u
    BY <1>7, <2>1 DEF Making
  <2>3. \A k \in DOMAIN recent' : boxes'[recent'[k]].up
    BY <1>6, <1>8, <2>1, BoxesAre DEF NodePoolInv, PoolCalm
  <2>4. ASSUME NEW v \in PoolUsers, users'[v].pc = "use" PROVE boxes'[users'[v].id].up
    <3>1. users[v].pc = "use" /\ users'[v] = users[v] /\ users[v].id \in DOMAIN boxes
      BY <1>10, <2>4, BoxesAre DEF NodePoolInv
    <3>2. boxes[users[v].id].inUse /\ boxes[users[v].id].up
      BY <3>1 DEF NodePoolInv, LeasesFit, PoolCalm
    <3> QED
      BY <1>6, <2>1, <3>1, <3>2
  <2>5. \A v \in PoolUsers : users'[v].pc # "evict"
    BY <1>5, <1>7, <2>2 DEF Making
  <2>6. /\ Len(recent') <= MaxPool \/ Len(recent') <= peak
        /\ Len(recent') + 1 <= MaxPool \/ Len(recent') + 1 <= peak
    <3>1. Len(recent) <= MaxPool \/ Len(recent) <= peak
      BY DEF NodePoolInv, PoolCalm
    <3> QED
      BY <1>8, <2>1, <3>1
  <2> QED
    BY <1>1, <2>1, <2>2, <2>3, <2>4, <2>5, <2>6 DEF PoolCalm
<1> QED
  BY <1>9, <1>12, <1>13 DEF NodePoolInv

\* A lease that is not, or no longer, held.
LEMMA LetGo ==
    ASSUME NodePoolInv, NEW u \in PoolUsers, users' = [users EXCEPT ![u] = NoUser]
    PROVE  /\ users' \in [PoolUsers -> UserType] /\ users'[u].pc = "idle" /\ users'[u].id = 0
           /\ \A v \in PoolUsers \ {u} : users'[v] = users[v]
           /\ \A v \in PoolUsers : users'[v].pc # "idle" => v # u /\ users'[v] = users[v]
<1>1. PICK r \in UserType : r = NoUser /\ r.pc = "idle" /\ r.id = 0
  BY NoUserIs
<1>2. users' = [users EXCEPT ![u] = r]
  BY <1>1
<1>3. /\ users' \in [PoolUsers -> UserType] /\ users'[u] = r
      /\ \A v \in PoolUsers \ {u} : users'[v] = users[v]
  BY <1>2, UserChanges DEF NodePoolInv
<1> QED
  BY <1>1, <1>3

\* A sequence and one more.
LEMMA Longer ==
    ASSUME NEW S, NEW T, S \subseteq T, NEW s \in Seq(S), NEW x \in T
    PROVE  /\ Append(s, x) \in Seq(T) /\ Len(Append(s, x)) = Len(s) + 1
           /\ DOMAIN Append(s, x) = 1 .. (Len(s) + 1) /\ Append(s, x)[Len(s) + 1] = x
           /\ \A k \in DOMAIN s : Append(s, x)[k] = s[k]
           /\ \A k \in DOMAIN Append(s, x) : k # Len(s) + 1 => k \in DOMAIN s
<1>1. s \in Seq(T) /\ Len(s) \in Nat /\ DOMAIN s = 1 .. Len(s)
  OBVIOUS
<1>2. Append(s, x) \in Seq(T) /\ Len(Append(s, x)) = Len(s) + 1
  BY <1>1
<1>3. DOMAIN Append(s, x) = 1 .. (Len(s) + 1)
  BY <1>2
<1> QED
  BY <1>1, <1>2, <1>3

LEMMA CreatedKeeps == ASSUME NodePoolInv, NEW u \in PoolUsers, PoolCreated(u) PROVE NodePoolInv'
<1>1. users[u].pc = "init" /\ UNCHANGED <<emptying, peak, jostled>>
  BY DEF PoolCreated
<1>2. /\ DOMAIN boxes = 1 .. Len(boxes) /\ Len(boxes) \in Nat /\ users[u] \in UserType
      /\ DOMAIN recent = 1 .. Len(recent) /\ Len(recent) \in Nat /\ recent \in Seq(DOMAIN boxes)
      /\ \A k \in DOMAIN recent : recent[k] \in DOMAIN boxes
      /\ \A i \in DOMAIN boxes : boxes[i] \in BoxType
      /\ users[u].image \in PoolImages
  BY <1>1, BoxesAre DEF NodePoolInv, PoolTypes
<1>3. CASE users' = [users EXCEPT ![u] = NoUser] /\ UNCHANGED <<boxes, recent>>
  <2>1. /\ users' \in [PoolUsers -> UserType] /\ users'[u].pc = "idle" /\ users'[u].id = 0
        /\ \A v \in PoolUsers \ {u} : users'[v] = users[v]
        /\ \A v \in PoolUsers : users'[v].pc # "idle" => v # u /\ users'[v] = users[v]
    BY <1>3, LetGo
  <2>2. PoolTypes'
    <3>1. \A v \in PoolUsers : /\ users'[v].id \in 0 .. Len(boxes)
                               /\ users'[v].pc # "idle" => users'[v].image \in PoolImages
                               /\ users'[v].pc \in {"evict", "use"} => users'[v].id # 0
      BY <1>2, <2>1 DEF NodePoolInv, PoolTypes
    <3> QED
      BY <1>1, <1>3, <2>1, <3>1 DEF NodePoolInv, PoolTypes
  <2>3. LeasesFit'
    <3>1. \A v \in PoolUsers : users[v].pc = "use" => users'[v] = users[v]
      BY <1>1, <2>1
    <3> QED
      BY <1>3, <2>1, <3>1 DEF NodePoolInv, LeasesFit
  <2>4. PoolCalm'
    BY <1>1, <1>3, <2>1 DEF NodePoolInv, PoolCalm, Making, InPool
  <2> QED
    BY <2>2, <2>3, <2>4 DEF NodePoolInv
<1>4. CASE /\ boxes' = Append(boxes, [image |-> users[u].image, inUse |-> TRUE, up |-> TRUE])
           /\ recent' = Append(recent, Len(boxes) + 1)
           /\ users' = [users EXCEPT ![u] = [@ EXCEPT !.pc = "use", !.id = Len(boxes) + 1]]
  <2>1. PICK n \in Nat : n = Len(boxes) + 1
    BY <1>2
  <2>2. PICK b \in BoxType : boxes' = Append(boxes, b) /\ b.inUse /\ b.up
    <3>1. [image |-> users[u].image, inUse |-> TRUE, up |-> TRUE] \in BoxType
      BY <1>2 DEF BoxType
    <3> QED
      BY <1>4, <3>1
  <2>3. PICK r \in UserType : users' = [users EXCEPT ![u] = r] /\ r.pc = "use" /\ r.image = users[u].image /\ r.id = n
    <3>1. [users[u] EXCEPT !.pc = "use", !.id = n] \in UserType
      BY <1>2 DEF UserType
    <3>2. PICK r \in UserType : r = [users[u] EXCEPT !.pc = "use", !.id = n]
      BY <3>1
    <3>3. r.pc = "use" /\ r.image = users[u].image /\ r.id = n
      BY <1>2, <3>2 DEF UserType
    <3>4. users' = [users EXCEPT ![u] = r]
      BY <1>4, <2>1, <3>2
    <3> QED
      BY <3>3, <3>4
  <2>4. /\ boxes' \in Seq(BoxType) /\ Len(boxes') = n /\ DOMAIN boxes' = 1 .. n /\ boxes'[n] = b
        /\ \A i \in DOMAIN boxes : boxes'[i] = boxes[i] /\ i # n /\ i \in DOMAIN boxes'
        /\ \A i \in DOMAIN boxes' : i # n => i \in DOMAIN boxes
        /\ n \in DOMAIN boxes' /\ n # 0
    BY <1>2, <2>1, <2>2 DEF NodePoolInv, PoolTypes
  <2>5. /\ users' \in [PoolUsers -> UserType] /\ users'[u] = r
        /\ \A v \in PoolUsers \ {u} : users'[v] = users[v]
    BY <2>3, UserChanges DEF NodePoolInv
  <2>6. /\ recent' \in Seq(DOMAIN boxes') /\ Len(recent') = Len(recent) + 1
        /\ DOMAIN recent' = 1 .. (Len(recent) + 1)
        /\ recent'[Len(recent) + 1] = n /\ \A k \in DOMAIN recent : recent'[k] = recent[k]
        /\ \A k \in DOMAIN recent' : k # Len(recent) + 1 => k \in DOMAIN recent
    <3>1. recent' = Append(recent, n)
      BY <1>4, <2>1
    <3>2. DOMAIN boxes \subseteq DOMAIN boxes' /\ n \in DOMAIN boxes'
      BY <2>4
    <3>3. recent \in Seq(DOMAIN boxes)
      BY <1>2
    <3> QED
      BY <3>1, <3>2, <3>3, Longer
  <2>7. PoolTypes'
    <3>1. \A v \in PoolUsers : /\ users'[v].id \in 0 .. n
                               /\ users'[v].pc # "idle" => users'[v].image \in PoolImages
                               /\ users'[v].pc \in {"evict", "use"} => users'[v].id # 0
      BY <1>2, <2>1, <2>3, <2>4, <2>5 DEF NodePoolInv, PoolTypes
    <3>2. \A j, k \in DOMAIN recent' : recent'[j] = recent'[k] => j = k
      BY <1>2, <2>4, <2>6 DEF NodePoolInv, PoolTypes
    <3> QED
      BY <1>1, <2>4, <2>5, <2>6, <3>1, <3>2 DEF NodePoolInv, PoolTypes
  <2>8. \A v \in PoolUsers \ {u} : users[v].pc = "use" => users[v].id \in DOMAIN boxes /\ users[v].id # n
    BY <2>4, BoxesAre DEF NodePoolInv
  <2>9. LeasesFit'
    <3>1. \A v \in PoolUsers : users'[v].pc = "use" => boxes'[users'[v].id].inUse
      BY <2>2, <2>3, <2>4, <2>5, <2>8 DEF NodePoolInv, LeasesFit
    <3>2. \A v, w \in PoolUsers : users'[v].pc = "use" /\ users'[w].pc = "use" /\ users'[v].id = users'[w].id => v = w
      BY <2>3, <2>5, <2>8 DEF NodePoolInv, LeasesFit
    <3>3. ASSUME NEW i \in DOMAIN boxes', boxes'[i].inUse PROVE \E v \in PoolUsers : users'[v].pc = "use" /\ users'[v].id = i
      <4>1. CASE i = n
        BY <2>3, <2>5, <4>1
      <4>2. CASE i # n
        <5>1. PICK v \in PoolUsers : users[v].pc = "use" /\ users[v].id = i
          BY <2>4, <3>3, <4>2 DEF NodePoolInv, LeasesFit
        <5> QED
          BY <1>1, <2>5, <5>1
      <4> QED
        BY <4>1, <4>2
    <3> QED
      BY <3>1, <3>2, <3>3 DEF LeasesFit
  <2>10. PoolCalm'
    <3> SUFFICES ASSUME ~jostled PROVE PoolCalm'
      BY <1>1 DEF PoolCalm
    <3>1. ~emptying /\ \A v \in PoolUsers : Making(v) => v = u
      BY <1>1 DEF NodePoolInv, PoolCalm, Making
    <3>2. \A v \in PoolUsers : ~Making(v)'
      BY <2>3, <2>5, <3>1 DEF Making
    <3>3. ASSUME NEW k \in DOMAIN recent' PROVE boxes'[recent'[k]].up
      <4>1. CASE k = Len(recent) + 1
        BY <2>2, <2>4, <2>6, <4>1
      <4>2. CASE k # Len(recent) + 1
        <5>1. k \in DOMAIN recent /\ recent'[k] = recent[k] /\ recent[k] \in DOMAIN boxes
          BY <1>2, <2>6, <4>2
        <5>2. boxes[recent[k]].up
          BY <3>1, <5>1 DEF NodePoolInv, PoolCalm
        <5> QED
          BY <2>4, <5>1, <5>2
      <4> QED
        BY <4>1, <4>2
    <3>4. \A v \in PoolUsers : users'[v].pc = "use" => boxes'[users'[v].id].up
      BY <2>2, <2>3, <2>4, <2>5, <2>8 DEF NodePoolInv, PoolCalm
    <3>5. Len(recent') <= MaxPool \/ Len(recent') <= peak
      BY <1>1, <2>6 DEF NodePoolInv, PoolCalm
    <3>6. \A v \in PoolUsers : users'[v].pc \notin {"evict", "init"}
      BY <3>2 DEF Making
    <3> QED
      BY <1>1, <3>1, <3>2, <3>3, <3>4, <3>5, <3>6 DEF PoolCalm
  <2> QED
    BY <2>7, <2>9, <2>10 DEF NodePoolInv
<1> QED
  BY <1>3, <1>4 DEF PoolCreated

LEMMA ReleaseKeeps == ASSUME NodePoolInv, NEW u \in PoolUsers, PoolRelease(u) PROVE NodePoolInv'
<1>1. /\ users[u].pc = "use" /\ UNCHANGED <<emptying, peak, jostled>>
      /\ users' = [users EXCEPT ![u] = NoUser]
  BY DEF PoolRelease
<1>2. PICK i : i = users[u].id
  OBVIOUS
<1>3. i \in DOMAIN boxes /\ boxes[i] \in BoxType
  BY <1>1, <1>2, BoxesAre DEF NodePoolInv
<1>4. PICK b \in BoxType : boxes' = [boxes EXCEPT ![i] = b] /\ b.inUse = FALSE /\ b.up = boxes[i].up
  <2>1. [boxes[i] EXCEPT !.inUse = FALSE] \in BoxType
    BY <1>3 DEF BoxType
  <2>2. PICK b \in BoxType : b = [boxes[i] EXCEPT !.inUse = FALSE]
    BY <2>1
  <2>3. b.inUse = FALSE /\ b.up = boxes[i].up
    BY <1>3, <2>2 DEF BoxType
  <2>4. boxes' = [boxes EXCEPT ![i] = b]
    BY <1>2, <2>2 DEF PoolRelease
  <2> QED
    BY <2>3, <2>4
<1>5. /\ boxes' \in Seq(BoxType) /\ Len(boxes') = Len(boxes) /\ DOMAIN boxes' = DOMAIN boxes /\ boxes'[i] = b
      /\ \A j \in DOMAIN boxes \ {i} : boxes'[j] = boxes[j]
  BY <1>3, <1>4, BoxChanges DEF NodePoolInv
<1>6. /\ users' \in [PoolUsers -> UserType] /\ users'[u].pc = "idle" /\ users'[u].id = 0
      /\ \A v \in PoolUsers \ {u} : users'[v] = users[v]
      /\ \A v \in PoolUsers : users'[v].pc # "idle" => v # u /\ users'[v] = users[v]
  BY <1>1, LetGo
<1>7. /\ recent' \in Seq(DOMAIN boxes) /\ Len(recent') = Len(recent)
      /\ \A j, k \in DOMAIN recent' : recent'[j] = recent'[k] => j = k
      /\ \A k \in DOMAIN recent' : \E j \in DOMAIN recent : recent'[k] = recent[j]
      /\ \A j \in DOMAIN recent : \E k \in DOMAIN recent' : recent'[k] = recent[j]
  <2>1. CASE i \in InPool
    <3>1. recent' = Touched(i)
      BY <1>2, <2>1 DEF PoolRelease
    <3> QED
      BY <2>1, <3>1, TouchedIs DEF NodePoolInv
  <2>2. CASE i \notin InPool
    <3>1. recent' = recent
      BY <1>2, <2>2 DEF PoolRelease
    <3> QED
      BY <3>1 DEF NodePoolInv, PoolTypes
  <2> QED
    BY <2>1, <2>2
<1>8. PoolTypes'
  <2>1. \A v \in PoolUsers : /\ users'[v].id \in 0 .. Len(boxes')
                             /\ users'[v].pc # "idle" => users'[v].image \in PoolImages
                             /\ users'[v].pc \in {"evict", "use"} => users'[v].id # 0
    BY <1>5, <1>6, BoxesAre DEF NodePoolInv, PoolTypes
  <2> QED
    BY <1>1, <1>5, <1>6, <1>7, <2>1 DEF NodePoolInv, PoolTypes
<1>9. \A v \in PoolUsers \ {u} : users[v].pc = "use" => users[v].id # i /\ users[v].id \in DOMAIN boxes
  BY <1>1, <1>2, BoxesAre DEF NodePoolInv, LeasesFit
<1>10. LeasesFit'
  <2>1. \A v \in PoolUsers : users'[v].pc = "use" => boxes'[users'[v].id].inUse
    BY <1>5, <1>6, <1>9 DEF NodePoolInv, LeasesFit
  <2>2. \A v, w \in PoolUsers : users'[v].pc = "use" /\ users'[w].pc = "use" /\ users'[v].id = users'[w].id => v = w
    BY <1>6 DEF NodePoolInv, LeasesFit
  <2>3. ASSUME NEW j \in DOMAIN boxes, boxes'[j].inUse PROVE \E v \in PoolUsers : users'[v].pc = "use" /\ users'[v].id = j
    <3>1. j # i
      BY <1>4, <1>5, <2>3
    <3>2. PICK v \in PoolUsers : users[v].pc = "use" /\ users[v].id = j
      BY <1>5, <2>3, <3>1 DEF NodePoolInv, LeasesFit
    <3> QED
      BY <1>2, <1>6, <3>1, <3>2
  <2> QED
    BY <1>5, <2>1, <2>2, <2>3 DEF LeasesFit
<1>11. PoolCalm'
  <2> SUFFICES ASSUME ~jostled PROVE PoolCalm'
    BY <1>1 DEF PoolCalm
  <2>1. ~emptying
    BY <1>1 DEF NodePoolInv, PoolCalm
  <2>2. \A j \in DOMAIN boxes : boxes'[j].up = boxes[j].up /\ (boxes'[j].inUse => boxes[j].inUse)
    BY <1>4, <1>5
  <2>3. ASSUME NEW k \in DOMAIN recent' PROVE boxes'[recent'[k]].up
    <3>1. PICK j \in DOMAIN recent : recent'[k] = recent[j]
      BY <1>7
    <3>2. boxes[recent[j]].up /\ recent[j] \in DOMAIN boxes
      BY <2>1, BoxesAre DEF NodePoolInv, PoolCalm
    <3> QED
      BY <2>2, <3>1, <3>2
  <2>4. \A v \in PoolUsers : users'[v].pc = "use" => boxes'[users'[v].id].up
    BY <1>6, <1>9, <2>2 DEF NodePoolInv, PoolCalm
  <2>5. \A v, w \in PoolUsers : Making(v)' /\ Making(w)' => v = w
    BY <1>6 DEF NodePoolInv, PoolCalm, Making
  <2>6. ASSUME NEW v \in PoolUsers, users'[v].pc = "evict" PROVE users'[v].id \in InPool' /\ ~boxes'[users'[v].id].inUse
    <3>1. users'[v] = users[v] /\ users[v].id \in InPool /\ ~boxes[users[v].id].inUse /\ users[v].id \in DOMAIN boxes
      BY <1>6, <2>6, BoxesAre DEF NodePoolInv, PoolCalm
    <3>2. users[v].id \in InPool'
      BY <1>7, <3>1 DEF InPool
    <3> QED
      BY <2>2, <3>1, <3>2
  <2>7. Len(recent') <= MaxPool \/ Len(recent') <= peak
    BY <1>7 DEF NodePoolInv, PoolCalm
  <2>8. \A v \in PoolUsers : users'[v].pc = "init" => Len(recent') + 1 <= MaxPool \/ Len(recent') + 1 <= peak
    BY <1>6, <1>7 DEF NodePoolInv, PoolCalm
  <2> QED
    BY <1>1, <2>1, <2>3, <2>4, <2>5, <2>6, <2>7, <2>8 DEF PoolCalm
<1> QED
  BY <1>8, <1>10, <1>11 DEF NodePoolInv

LEMMA PoolStopAllKeeps == ASSUME NodePoolInv, PoolStopAll PROVE NodePoolInv'
<1>1. /\ emptying' = TRUE /\ jostled' = (jostled \/ Holding > 0) /\ UNCHANGED <<recent, users, peak>>
      /\ boxes' = [i \in DOMAIN boxes |-> IF i \in InPool THEN [boxes[i] EXCEPT !.up = FALSE] ELSE boxes[i]]
  BY DEF PoolStopAll
<1>2. \A i \in DOMAIN boxes : boxes'[i] \in BoxType /\ boxes'[i].inUse = boxes[i].inUse
  <2> SUFFICES ASSUME NEW i \in DOMAIN boxes PROVE boxes'[i] \in BoxType /\ boxes'[i].inUse = boxes[i].inUse
    OBVIOUS
  <2>1. boxes[i] \in BoxType
    BY BoxesAre DEF NodePoolInv
  <2>2. [boxes[i] EXCEPT !.up = FALSE] \in BoxType /\ [boxes[i] EXCEPT !.up = FALSE].inUse = boxes[i].inUse
    BY <2>1 DEF BoxType
  <2>3. boxes'[i] = [boxes[i] EXCEPT !.up = FALSE] \/ boxes'[i] = boxes[i]
    BY <1>1
  <2> QED
    BY <2>1, <2>2, <2>3
<1>3. boxes' \in Seq(BoxType) /\ Len(boxes') = Len(boxes) /\ DOMAIN boxes' = DOMAIN boxes
  <2>1. boxes' \in [1 .. Len(boxes) -> BoxType] /\ Len(boxes) \in Nat
    BY <1>1, <1>2, BoxesAre DEF NodePoolInv
  <2> QED
    BY <1>1, <2>1
<1>4. PoolTypes'
  BY <1>1, <1>3 DEF NodePoolInv, PoolTypes
<1>5. LeasesFit'
  BY <1>1, <1>2, <1>3, BoxesAre DEF NodePoolInv, LeasesFit
<1>6. PoolCalm'
  <2> SUFFICES ASSUME ~jostled' PROVE PoolCalm'
    BY DEF PoolCalm
  <2>1. ~jostled /\ ~(Holding > 0) /\ Holding \in Nat
    BY <1>1, Counting DEF NodePoolInv
  <2>2. Holding = 0 /\ IsFiniteSet({u \in PoolUsers : users[u].pc # "idle"})
    BY <2>1, PluginsAssumption, FS_Subset
  <2>3. {u \in PoolUsers : users[u].pc # "idle"} = {}
    BY <2>2, FS_EmptySet DEF Holding
  <2>4. \A u \in PoolUsers : users'[u].pc = "idle"
    BY <1>1, <2>3
  <2>5. Len(recent') <= MaxPool \/ Len(recent') <= peak'
    BY <1>1, <2>1 DEF NodePoolInv, PoolCalm
  <2> QED
    BY <1>1, <2>4, <2>5 DEF PoolCalm, Making
<1> QED
  BY <1>4, <1>5, <1>6 DEF NodePoolInv

LEMMA PoolStopAllEndsKeeps == ASSUME NodePoolInv, PoolStopAllEnds PROVE NodePoolInv'
<1>1. emptying /\ emptying' = FALSE /\ recent' = <<>> /\ UNCHANGED <<boxes, users, peak, jostled>>
  BY DEF PoolStopAllEnds
<1>2. recent' \in Seq(DOMAIN boxes) /\ Len(recent') = 0 /\ DOMAIN recent' = {}
  BY <1>1
<1>3. PoolTypes'
  BY <1>1, <1>2 DEF NodePoolInv, PoolTypes
<1>4. LeasesFit'
  BY <1>1 DEF NodePoolInv, LeasesFit
<1>5. PoolCalm'
  <2>1. ~jostled => \A u \in PoolUsers : users[u].pc = "idle"
    BY <1>1 DEF NodePoolInv, PoolCalm
  <2>2. Len(recent') <= MaxPool
    BY <1>2, PluginsAssumption
  <2> QED
    BY <1>1, <1>2, <2>1, <2>2 DEF PoolCalm, Making
<1> QED
  BY <1>3, <1>4, <1>5 DEF NodePoolInv

LEMMA NodePoolKeeps == ASSUME NodePoolInv, NodePoolNext \/ UNCHANGED nodePoolVars PROVE NodePoolInv'
<1>1. CASE UNCHANGED nodePoolVars
  BY <1>1 DEF nodePoolVars, NodePoolInv, PoolTypes, LeasesFit, PoolCalm, Making, InPool
<1>2. CASE PoolStopAll \/ PoolStopAllEnds
  BY <1>2, PoolStopAllKeeps, PoolStopAllEndsKeeps
<1>3. ASSUME NEW u \in PoolUsers, Evicted(u) \/ PoolCreated(u) \/ PoolRelease(u) PROVE NodePoolInv'
  BY <1>3, EvictedKeeps, CreatedKeeps, ReleaseKeeps
<1>4. ASSUME NEW u \in PoolUsers, NEW m \in PoolImages, PoolAcquire(u, m) PROVE NodePoolInv'
  <2>1. users[u].pc = "idle" /\ UNCHANGED emptying /\ (Reuse(u, m) \/ MakeRoom(u, m))
    BY <1>4 DEF PoolAcquire
  <2> QED
    BY <2>1, ReuseKeeps, RoomKeeps
<1> QED
  BY <1>1, <1>2, <1>3, <1>4 DEF NodePoolNext

-----------------------------------------------------------------------------
(* All three.                                                              *)

LEMMA LoaderTypesKeep == ASSUME LoaderTypes, LoaderNext PROVE LoaderTypes'
<1>1. CASE AutoLoadBegins
  <2>1. \A t \in PluginTypes : Load(t, "auto") \in PluginLoadType
    BY DEF Load, PluginLoadType
  <2> QED
    BY <1>1, <2>1 DEF AutoLoadBegins, LoaderTypes
<1>2. CASE AutoLoadEnds
  <2>1. \A l \in pluginLoads : l.type \in PluginTypes
    BY DEF LoaderTypes, PluginLoadType
  <2> QED
    BY <1>2, <2>1 DEF AutoLoadEnds, LoaderTypes, Autos
<1>3. CASE WatchPlugins \/ Unwatch
  BY <1>3 DEF WatchPlugins, Unwatch, LoaderTypes
<1>4. ASSUME NEW t \in PluginTypes, FileEdited(t) \/ HandleChange(t) PROVE LoaderTypes'
  BY <1>4 DEF FileEdited, HandleChange, LoaderTypes
<1>5. ASSUME NEW t \in PluginTypes, Debounced(t) PROVE LoaderTypes'
  <2>1. Load(t, "watch") \in PluginLoadType
    BY DEF Load, PluginLoadType
  <2> QED
    BY <1>5, <2>1 DEF Debounced, LoaderTypes
<1>6. ASSUME NEW l \in pluginLoads, ImportEnds(l) PROVE LoaderTypes'
  <2>1. PICK got \in IF imported[l.type] # "nothing" THEN {imported[l.type]}
                     ELSE IF pluginFiles[l.type] \in {"invalid", "good"} THEN {pluginFiles[l.type]}
                     ELSE {"failed"} :
           /\ pluginLoads' = (pluginLoads \ {l}) \cup {[l EXCEPT !.got = got]}
           /\ \/ imported' = [imported EXCEPT ![l.type] = got]
              \/ got = "failed" /\ UNCHANGED imported
    BY <1>6 DEF ImportEnds
  <2>2. l \in PluginLoadType /\ l.type \in PluginTypes
    BY DEF LoaderTypes, PluginLoadType
  <2>3. got \in {"nothing", "failed", "invalid", "good"}
    BY <2>1, <2>2 DEF LoaderTypes
  <2>4. [l EXCEPT !.got = got] \in PluginLoadType
    BY <2>2, <2>3 DEF PluginLoadType
  <2> QED
    BY <1>6, <2>1, <2>2, <2>3, <2>4 DEF ImportEnds, LoaderTypes
<1>7. ASSUME NEW l \in pluginLoads, WatchedLoaded(l) PROVE LoaderTypes'
  <2>1. l.type \in PluginTypes
    BY DEF LoaderTypes, PluginLoadType
  <2> QED
    BY <1>7, <2>1 DEF WatchedLoaded, LoaderTypes
<1> QED
  BY <1>1, <1>2, <1>3, <1>4, <1>5, <1>6, <1>7 DEF LoaderNext

\* What the registry does to the plugins that the loader registers.
LEMMA TableKeeps == ASSUME LoaderTypes, RegistryNext, UNCHANGED loaderVars PROVE LoaderTypes'
<1>0. plugins \subseteq PluginTypes
  BY DEF LoaderTypes
<1>1. plugins' \subseteq PluginTypes
  <2>1. CASE RegistryStopAll \/ RegistryStopAllEnds
    BY <1>0, <2>1 DEF RegistryStopAll, RegistryStopAllEnds
  <2>2. ASSUME NEW t \in PluginTypes, Register(t) \/ Unregister(t) PROVE plugins' \subseteq PluginTypes
    BY <1>0, <2>2 DEF Register, Unregister
  <2>3. ASSUME NEW c \in RegistryCallers, RegistryInitEnds(c) \/ StopInstanceEnds(c)
        PROVE  plugins' \subseteq PluginTypes
    BY <1>0, <2>3 DEF RegistryInitEnds, StopInstanceEnds
  <2>4. ASSUME NEW c \in RegistryCallers, NEW t \in PluginTypes, RegistryInstance(c, t) \/ StopInstance(c, t)
        PROVE  plugins' \subseteq PluginTypes
    BY <1>0, <2>4 DEF RegistryInstance, StopInstance
  <2> QED
    BY <2>1, <2>2, <2>3, <2>4 DEF RegistryNext
<1> QED
  BY <1>1 DEF LoaderTypes, loaderVars

PluginInv == LoaderTypes /\ RegistryInv /\ NodePoolInv

LEMMA PluginStarts == PluginInit => PluginInv
  BY LoaderStarts, RegistryStarts, NodePoolStarts DEF LoaderInv, PluginInv

LEMMA PluginKeeps == PluginInv /\ [PluginNext]_pluginVars => PluginInv'
<1> SUFFICES ASSUME PluginInv, [PluginNext]_pluginVars PROVE PluginInv'
  OBVIOUS
<1>1. CASE UNCHANGED pluginVars
  <2>1. LoaderTypes'
    BY <1>1 DEF PluginInv, LoaderTypes, pluginVars, loaderVars
  <2>2. UNCHANGED <<plugins, registryVars>> /\ UNCHANGED nodePoolVars
    BY <1>1 DEF pluginVars
  <2> QED
    BY <2>1, <2>2, RegistryKeeps, NodePoolKeeps DEF PluginInv
<1>2. CASE LoaderNext /\ UNCHANGED <<registryVars, nodePoolVars>>
  <2>1. LoaderTypes' /\ NodePoolInv'
    BY <1>2, LoaderTypesKeep, NodePoolKeeps DEF PluginInv
  <2>2. RegistryInv'
    BY <1>2 DEF PluginInv, registryVars, RegistryInv, RegistryTypes, SlotsFit, OneCall, EntriesRun, Under
  <2> QED
    BY <2>1, <2>2 DEF PluginInv
<1>3. CASE RegistryNext /\ UNCHANGED <<loaderVars, nodePoolVars>>
  BY <1>3, TableKeeps, RegistryKeeps, NodePoolKeeps DEF PluginInv
<1>4. CASE NodePoolNext /\ UNCHANGED <<plugins, loaderVars, registryVars>>
  <2>1. LoaderTypes'
    BY <1>4 DEF PluginInv, LoaderTypes, loaderVars
  <2> QED
    BY <1>4, <2>1, RegistryKeeps, NodePoolKeeps DEF PluginInv
<1> QED
  BY <1>1, <1>2, <1>3, <1>4 DEF PluginNext

LEMMA PluginShows == ASSUME PluginInv PROVE PluginTypeOK /\ RegistryHoldsWhatRuns /\ PoolLeasesHold
<1>1. /\ \A i \in DOMAIN made : made[i] \in PluginMadeType
      /\ \A c \in RegistryCallers : regCalls[c] \in RegCallType
      /\ \A i \in DOMAIN boxes : boxes[i] \in BoxType
      /\ \A u \in PoolUsers : users[u] \in UserType /\ users[u].id \in 0 .. Len(boxes)
      /\ \A k \in DOMAIN recent : recent[k] \in DOMAIN boxes
  BY DEF PluginInv, RegistryInv, RegistryTypes, NodePoolInv, PoolTypes
<1>2. PluginTypeOK
  <2>1. /\ plugins \subseteq PluginTypes /\ pluginFiles \in [PluginTypes -> Contents]
        /\ imported \in [PluginTypes -> {"nothing", "failed", "invalid", "good"}]
        /\ {fileEvents, debounces, outrun} \subseteq SUBSET PluginTypes
        /\ pluginLoads \subseteq PluginLoadType
        /\ auto \in {"idle", "loading", "over"} /\ watching \in BOOLEAN
    BY DEF PluginInv, LoaderTypes
  <2>2. \A i \in DOMAIN made : made[i].type \in PluginTypes /\ made[i].told \in BOOLEAN
          /\ made[i].state \in {"initializing", "ready", "error", "stopping", "stopped"}
    BY <1>1 DEF PluginMadeType
  <2>3. /\ slot \in [PluginTypes -> 0 .. Len(made)] /\ stopsAll \in BOOLEAN
        /\ \A c \in RegistryCallers :
              regCalls[c].op \in {"none", "init", "stop"} /\ regCalls[c].id \in 0 .. Len(made)
    BY <1>1 DEF PluginInv, RegistryInv, RegistryTypes, RegCallType
  <2>4. \A i \in DOMAIN boxes :
          boxes[i].image \in PoolImages /\ {boxes[i].inUse, boxes[i].up} \subseteq BOOLEAN
    BY <1>1 DEF BoxType
  <2>5. \A u \in PoolUsers :
          users[u].pc \in {"idle", "evict", "init", "use"} /\ users[u].id \in 0 .. Len(boxes)
    BY <1>1 DEF UserType
  <2> QED
    BY <1>1, <2>1, <2>2, <2>3, <2>4, <2>5 DEF PluginTypeOK, PluginLoadType
<1> QED
  BY <1>2, RegistryShows, NodePoolShows DEF PluginInv

\* The registry holds what runs as long as calls for a type do not overlap,
\* and the pool leases no sandbox twice (registry.ts, pool.ts).
THEOREM PluginsHold == PluginSpec => [](PluginTypeOK /\ RegistryHoldsWhatRuns /\ PoolLeasesHold)
<1>1. PluginInv => PluginTypeOK /\ RegistryHoldsWhatRuns /\ PoolLeasesHold
  BY PluginShows
<1>2. PluginSpec => []PluginInv
  BY PluginStarts, PluginKeeps, PTL DEF PluginSpec
<1> QED
  BY <1>1, <1>2, PTL

\* The loader alone: the types registered follow the files (loader.ts).
THEOREM LoaderFollows ==
    PluginInit /\ [][LoaderNext /\ UNCHANGED <<registryVars, nodePoolVars>>]_pluginVars => []PluginsFollowFiles
<1>1. LoaderInv => PluginsFollowFiles
  BY LoaderShows
<1>2. LoaderInv /\ [LoaderNext /\ UNCHANGED <<registryVars, nodePoolVars>>]_pluginVars => LoaderInv'
  BY LoaderKeeps DEF pluginVars
<1> QED
  BY <1>1, <1>2, LoaderStarts, PTL
=============================================================================
