-------------------------- MODULE ShellTranscript ---------------------------
(***************************************************************************)
(* What the task page shows of a task's messages (TaskDetail.tsx,          *)
(* MessageList): the last text of each segment, the calls grouped under    *)
(* the text before them, each with the result at its own number among the  *)
(* results, the last plan and the last summary.  Messages are added the    *)
(* way the streams of useAgent add them.  A text that is a raw plan, which *)
(* the page skips, is not among them.                                      *)
(***************************************************************************)
EXTENDS Naturals, SequencesExt, Loops

CONSTANTS
    Replies,            \* contents of text messages
    MaxShown            \* bound: messages of the task

ASSUME TranscriptAssumption == Replies \subseteq Nat \ {0} /\ MaxShown \in Nat \ {0}

VARIABLES
    messages,       \* sequence of [type, of]: of the content or the call's number
    isRunning,
    runFrom         \* number of calls made before the run

transcriptVars == <<messages, isRunning, runFrom>>

MessageTypes == {"user", "text", "tool_use", "tool_result", "plan", "result", "error"}

Msg(type, of) == [type |-> type, of |-> of]

Made == Cardinality({i \in DOMAIN messages : messages[i].type = "tool_use"})
HasResult(c) == Msg("tool_result", c) \in ToSet(messages)
Open == {c \in runFrom + 1 .. Made : ~HasResult(c)}

TranscriptTypeOK ==
    /\ messages \in Seq([type : MessageTypes, of : Nat]) /\ Len(messages) <= MaxShown
    /\ isRunning \in BOOLEAN /\ runFrom \in 0 .. Made

TranscriptInit == messages = <<Msg("user", 0)>> /\ isRunning = TRUE /\ runFrom = 0

-----------------------------------------------------------------------------
(* Messages arrive.                                                        *)

Adds(type, of) == /\ Len(messages) < MaxShown
                  /\ messages' = Append(messages, Msg(type, of))

RunBegins == ~isRunning /\ isRunning' = TRUE /\ runFrom' = Made

\* The user replies to a task that is not running, or approves its plan.
Asks == RunBegins /\ Adds("user", 0)
Approves == RunBegins /\ Msg("plan", 0) \in ToSet(messages) /\ UNCHANGED messages

Says == isRunning /\ (\E r \in Replies : Adds("text", r)) /\ UNCHANGED <<isRunning, runFrom>>
Calls == isRunning /\ Adds("tool_use", Made + 1) /\ UNCHANGED <<isRunning, runFrom>>

\* The engine answers the calls of a turn in the order they were made.
ResultComes == /\ isRunning /\ Open # {}
           /\ Adds("tool_result", CHOOSE c \in Open : \A d \in Open : c <= d)
           /\ UNCHANGED <<isRunning, runFrom>>

RunOver == isRunning /\ isRunning' = FALSE /\ UNCHANGED runFrom
Plans == RunOver /\ Open = {} /\ Adds("plan", 0)
Summarises == RunOver /\ Open = {} /\ Adds("result", 0)

\* A run that fails, or is stopped, may leave calls unanswered.
FailsToAnswer == RunOver /\ Adds("error", 0)
Stops == RunOver /\ UNCHANGED messages

TranscriptNext == Asks \/ Approves \/ Says \/ Calls \/ ResultComes \/ Plans \/ Summarises \/ FailsToAnswer \/ Stops

TranscriptSpec == TranscriptInit /\ [][TranscriptNext]_transcriptVars

-----------------------------------------------------------------------------
(* The messages kept, as sequences of their places.                        *)

Is(i, type) == messages[i].type = type
Places == [i \in DOMAIN messages |-> i]

\* A segment ends at a question or a summary.
Boundary(i) == Is(i, "user") \/ Is(i, "result")

LastInSegment(i) ==
    \A j \in i + 1 .. Len(messages) :
        Is(j, "text") => \E b \in i + 1 .. j - 1 : Boundary(b)

\* Variant for a mutation check: only questions end a segment.
KeepsLastAnswers ==
    Picked(Places, {i \in DOMAIN messages : Is(i, "text") =>
        \A j \in i + 1 .. Len(messages) :
            Is(j, "text") => \E b \in i + 1 .. j - 1 : Is(b, "user")})

MergedMessages == Picked(Places, {i \in DOMAIN messages : Is(i, "text") => LastInSegment(i)})

Results == Picked(MergedMessages, {i \in DOMAIN messages : Is(i, "tool_result")})

LastPlan(i) == \A j \in DOMAIN messages : Is(j, "plan") => j <= i
FilteredMessages == Picked(MergedMessages, {i \in DOMAIN messages : Is(i, "plan") => LastPlan(i)})

LastResult(i) == \A j \in DOMAIN messages : Is(j, "result") => j <= i

-----------------------------------------------------------------------------
(* Groups: a text with the calls after it, or one message.                 *)

Other(i) == [type |-> "other", message |-> i, tools |-> <<>>, isCompleted |-> TRUE]
Task(i) == [type |-> "task", message |-> i, tools |-> <<>>, isCompleted |-> FALSE]
NoGroup == [type |-> "none", message |-> 0, tools |-> <<>>, isCompleted |-> FALSE]

\* s: the groups so far, the current one, the text that may stand alone, the
\* content of the last text shown and the number of calls so far.
StartGroups == [groups |-> <<>>, current |-> NoGroup, pending |-> 0, lastText |-> 0, calls |-> 0]

\* Variant for a mutation check: a group is dropped when the next begins.
DropCurrent(s, completed) == [s EXCEPT !.current = NoGroup]

PushCurrent(s, completed) ==
    IF s.current.tools # <<>> \/ s.current.message # 0
    THEN [s EXCEPT !.groups = Append(@, [s.current EXCEPT !.isCompleted = completed]), !.current = NoGroup]
    ELSE s

FlushText(s) ==
    IF s.pending = 0 THEN s
    ELSE [s EXCEPT !.groups = Append(@, Other(s.pending)), !.pending = 0]

OnTextMessage(s, i) ==
    IF messages[i].of = s.lastText THEN s
    ELSE [PushCurrent(FlushText(s), TRUE) EXCEPT
             !.pending = i, !.lastText = messages[i].of, !.current = NoGroup]

\* Variant for a mutation check: the number of a call is its number in its group.
PairInGroup(s, i) ==
    LET group == IF s.pending # 0 THEN Task(s.pending)
                 ELSE IF s.current = NoGroup THEN Task(0) ELSE s.current
        n == Len(group.tools) + 1
        tool == [call |-> i, result |-> IF n <= Len(Results) THEN Results[n] ELSE 0] IN
    [s EXCEPT !.current = [group EXCEPT !.tools = Append(@, tool)], !.pending = 0, !.calls = @ + 1]

\* A call joins the current group, or one under the text before it; its
\* result is the one with its number.
OnToolUse(s, i) ==
    LET group == IF s.pending # 0 THEN Task(s.pending)
                 ELSE IF s.current = NoGroup THEN Task(0) ELSE s.current
        n == s.calls + 1
        tool == [call |-> i, result |-> IF n <= Len(Results) THEN Results[n] ELSE 0] IN
    [s EXCEPT !.current = [group EXCEPT !.tools = Append(@, tool)], !.pending = 0, !.calls = n]

\* Variant for a mutation check: the text before a question stays pending.
ShowsUnflushed(s, i) ==
    LET t == PushCurrent(s, TRUE) IN [t EXCEPT !.groups = Append(@, Other(i))]

OnOther(s, i) ==
    LET t == PushCurrent(FlushText(s), TRUE) IN [t EXCEPT !.groups = Append(@, Other(i))]

GroupStep(s, i) ==
    CASE Is(i, "text") -> OnTextMessage(s, i)
      [] Is(i, "tool_use") -> OnToolUse(s, i)
      [] Is(i, "tool_result") -> s
      [] Is(i, "result") /\ ~LastResult(i) -> s
      [] OTHER -> OnOther(s, i)

\* What the grouping is about: only the current group is not completed.
GroupsWith(completed) == [type : {"none", "other", "task"}, message : Nat,
                          tools : Seq([call : Nat, result : Nat]), isCompleted : completed]
GroupTypes == GroupsWith(BOOLEAN)
GroupStates == [groups : Seq(GroupsWith({TRUE})), current : GroupTypes, pending : Nat, lastText : Nat, calls : Nat]

Groups ==
    LET s == Loop([p \in GroupStates \X DOMAIN messages |-> GroupStep(p[1], p[2])], StartGroups, FilteredMessages)
    IN PushCurrent(FlushText(s), ~isRunning).groups

-----------------------------------------------------------------------------
(* Properties.                                                             *)

ShownTools == UNION {ToSet(Groups[g].tools) : g \in DOMAIN Groups}

\* The places a group shows, in order: its text, then its calls.
GroupPlaces(g) ==
    (IF g.message = 0 THEN <<>> ELSE <<g.message>>) \o [n \in DOMAIN g.tools |-> g.tools[n].call]

ShownPlaces == Loop([p \in Seq(Nat) \X GroupTypes |-> p[1] \o GroupPlaces(p[2])], <<>>, Groups)

\* A text is not shown again right after itself, even in another segment.
RepeatsLast(i) == \E j \in 1 .. i - 1 :
    /\ Is(j, "text") /\ messages[j].of = messages[i].of /\ LastInSegment(j)
    /\ \A k \in j + 1 .. i - 1 : Is(k, "text") => ~LastInSegment(k)

OnPage(i) ==
    CASE Is(i, "text") -> LastInSegment(i) /\ ~RepeatsLast(i)
      [] Is(i, "tool_result") -> FALSE
      [] Is(i, "plan") -> LastPlan(i)
      [] Is(i, "result") -> LastResult(i)
      [] OTHER -> TRUE

\* Each question, error and call is on the page once and in the order it
\* came, with the last text before the next question or summary (unless it
\* repeats the text before), the last plan and the last summary
\* (TaskDetail.tsx:1215-1418).
PageTellsAll == ShownPlaces = Picked(Places, {i \in DOMAIN messages : OnPage(i)})

\* A call that was answered is shown with its own result, and one that was
\* not with none, though the page pairs them by their numbers: it holds as
\* long as no run ended with a call unanswered (TaskDetail.tsx:1252-1263, 1369).
CallsHaveTheirResults ==
    LET over == IF isRunning THEN runFrom ELSE Made IN
    (\A c \in 1 .. over : HasResult(c)) => \A tool \in ShownTools :
        IF tool.result # 0 THEN messages[tool.result].of = messages[tool.call].of
                           ELSE ~HasResult(messages[tool.call].of)

\* Only the last group is told to be under way, and only while a run is.
LastGroupRuns == \A g \in DOMAIN Groups : ~Groups[g].isCompleted => isRunning /\ g = Len(Groups)
=============================================================================
