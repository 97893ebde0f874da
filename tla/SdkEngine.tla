----------------------------- MODULE SdkEngine -----------------------------
(***************************************************************************)
(* The SDK agent that the Python engine is a port of (agent.ts, engine.ts, *)
(* hooks.ts, utils/compact.ts, utils/messages.ts, mcp/client.ts): an agent *)
(* keeps the conversation, each query runs an engine over a copy of it,    *)
(* and what the engine made of the copy becomes the conversation when the  *)
(* consumer has read the query to its end.  The consumer may stop reading, *)
(* interrupt, clear or close at any time; it makes one query at a time.    *)
(***************************************************************************)
EXTENDS Naturals, Sequences, SequencesExt, Loops

CONSTANTS
    Queries,    \* queries made on the agent
    MaxTurns,   \* maxTurns of a query
    MaxTools,   \* bound: read-only calls, and other calls, in one reply
    MaxLinks    \* MCP servers configured
ASSUME EngineAssumption == MaxTurns \in Nat /\ MaxTools \in Nat /\ MaxLinks \in Nat

VARIABLES
    setup,      \* the agent's asynchronous start: "connecting", "resuming", "done"
    links,      \* connections in mcpLinks
    open,       \* connections that are open
    closing,    \* close(): "no", "links", "yes"
    history,    \* the agent's conversation: messages [kind, query]
    eng,        \* query -> its engine
    aborted,    \* the signal of the last query is aborted
    excused,    \* history: queries that were cleared away
    hasty       \* history: the agent was closed before it had started

engineVars == <<setup, links, open, closing, history, eng, aborted, excused, hasty>>
agentVars == <<setup, links, open, closing, hasty>>

MessageKinds == {"prompt", "results", "continue", "summary", "text", "calls", "cut", "ack"}
FromUser == {"prompt", "results", "continue", "summary"}
Messages == [kind : MessageKinds, query : Queries \cup {0}]

NewEngine(msgs) ==
    [pc |-> "hooks", msgs |-> msgs, turns |-> MaxTurns, attempts |-> 0, compacted |-> FALSE,
     stop |-> "end", result |-> "none", reads |-> 0, running |-> 0, writes |-> 0,
     writing |-> FALSE]

EngineTypeOK ==
    /\ setup \in {"connecting", "resuming", "done"} /\ closing \in {"no", "links", "yes"}
    /\ {links, open} \subseteq 0 .. MaxLinks
    /\ history \in Seq(Messages) /\ aborted \in BOOLEAN
    /\ excused \subseteq Queries /\ hasty \in BOOLEAN
    /\ \A q \in Queries :
         /\ eng[q].pc \in {"new", "hooks", "top", "init", "compact", "shrink", "request", "reply", "tools",
                           "told", "finish", "result", "done", "left"}
         /\ eng[q].msgs \in Seq(Messages) /\ eng[q].turns \in 0 .. MaxTurns
         /\ eng[q].attempts \in 0 .. 3
         /\ {eng[q].reads, eng[q].running, eng[q].writes} \subseteq 0 .. MaxTools

EngineInit ==
    /\ setup = "connecting" /\ links = 0 /\ open = 0 /\ closing = "no" /\ hasty = FALSE
    /\ history = <<>>
    /\ eng = [q \in Queries |-> [NewEngine(<<>>) EXCEPT !.pc = "new"]]
    /\ aborted = FALSE /\ excused = {}

Running(q) == eng[q].pc \notin {"new", "done", "left"}
Goto(q, e) == eng' = [eng EXCEPT ![q] = e]
Over(e, pc) == [NewEngine(<<>>) EXCEPT !.pc = pc, !.result = e.result]
Stay == UNCHANGED <<agentVars, history, aborted, excused>>
Said(e, k, q) == Append(e.msgs, [kind |-> k, query |-> q])

-----------------------------------------------------------------------------
(* The agent.                                                              *)

\* setup: a server is connected, or is not and is passed over.
Connect ==
    /\ setup = "connecting"
    /\ \/ links < MaxLinks /\ links' = links + 1 /\ open' = open + 1 /\ UNCHANGED setup
       \/ setup' = "resuming" /\ UNCHANGED <<links, open>>
    /\ UNCHANGED <<closing, hasty, history, eng, aborted, excused>>

\* setup: a stored conversation is resumed, or there is none.
Resume ==
    /\ setup = "resuming" /\ setup' = "done"
    /\ history' \in {<<>>, <<[kind |-> "prompt", query |-> 0], [kind |-> "text", query |-> 0]>>}
    /\ UNCHANGED <<links, open, closing, hasty, eng, aborted, excused>>

Interrupt ==
    /\ \E q \in Queries : Running(q)
    /\ aborted' = TRUE
    /\ UNCHANGED <<agentVars, history, eng, excused>>

\* clear: a query under way brings its copy back when it ends.
ClearHistory ==
    /\ history # <<>> /\ history' = <<>>
    /\ excused' = excused \cup {q \in Queries : eng[q].pc # "new"}
    /\ UNCHANGED <<agentVars, eng, aborted>>

\* close, between queries as in the one-shot query().
Close ==
    /\ \A q \in Queries : ~Running(q)
    /\ closing = "no" /\ closing' = "links" /\ hasty' = (setup = "connecting")
    /\ UNCHANGED <<setup, links, open, history, eng, aborted, excused>>

\* The connections are closed one after the other, then forgotten.
CloseLink ==
    /\ closing = "links"
    /\ \/ links > 0 /\ links' = links - 1 /\ open' = open - 1 /\ UNCHANGED closing
       \/ links = 0 /\ closing' = "yes" /\ UNCHANGED <<links, open>>
    /\ UNCHANGED <<setup, hasty, history, eng, aborted, excused>>

\* query: an engine with a copy of the conversation, and a new controller.
Begin(q) ==
    /\ setup = "done" /\ closing = "no" /\ eng[q].pc = "new"
    /\ \A p \in Queries : ~Running(p) /\ (p < q => eng[p].pc # "new")
    /\ Goto(q, NewEngine(history)) /\ aborted' = FALSE
    /\ UNCHANGED <<agentVars, history, excused>>

\* Variant for a mutation check: the conversation of a failed query is dropped.
KeptIfSuccess(q) == IF eng[q].result = "success" THEN eng[q].msgs ELSE history

\* The conversation after query q was read to its end.
Kept(q) == eng[q].msgs

QueryEnds(q) ==
    /\ eng[q].pc = "result" /\ Goto(q, Over(eng[q], "done"))
    /\ history' = Kept(q)
    /\ UNCHANGED <<agentVars, aborted, excused>>

\* The consumer stops reading at an event: nothing after that yield runs.
StopReading(q) ==
    /\ eng[q].pc \in {"init", "reply", "told", "result"} /\ Goto(q, Over(eng[q], "left"))
    /\ Stay

-----------------------------------------------------------------------------
(* The engine.                                                             *)

\* SessionStart and UserPromptSubmit hooks; one of them may block.
Submit(q) ==
    /\ eng[q].pc = "hooks"
    /\ \/ Goto(q, [eng[q] EXCEPT !.pc = "result", !.result = "blocked"])
       \/ Goto(q, [eng[q] EXCEPT !.pc = "init", !.msgs = Said(eng[q], "prompt", q)])
    /\ Stay

Resumed(q) == eng[q].pc = "init" /\ Goto(q, [eng[q] EXCEPT !.pc = "top"]) /\ Stay

\* The head of the loop: the turns, the signal, the budget (which a reply may
\* have used up), the size of the conversation.
Top(q) ==
    LET e == eng[q] IN
    /\ e.pc = "top"
    /\ \/ e.turns = 0 /\ Goto(q, [e EXCEPT !.pc = "finish", !.result = "error_max_turns"])
       \/ e.turns > 0 /\ aborted /\ Goto(q, [e EXCEPT !.pc = "finish", !.result = "success"])
       \/ /\ 0 < e.turns /\ e.turns < MaxTurns /\ ~aborted
          /\ Goto(q, [e EXCEPT !.pc = "finish", !.result = "error_max_budget_usd"])
       \/ e.turns > 0 /\ ~aborted /\ Goto(q, [e EXCEPT !.pc = "compact"])
       \/ e.turns > 0 /\ ~aborted /\ Goto(q, [e EXCEPT !.pc = "request", !.turns = @ - 1])
    /\ Stay

\* compactConversation never throws: after a failure the messages stay.  (The
\* failures are counted only for giving up on the first kind of compaction,
\* which Top may always do.)
Shrunk(e) ==
    {[e EXCEPT !.msgs = <<[kind |-> "summary", query |-> 0], [kind |-> "ack", query |-> 0]>>,
               !.compacted = TRUE],
     e}

\* Before a request, and after one that was too long, whose turn is given back.
Compact(q) ==
    /\ \E e \in Shrunk(eng[q]) :
         \/ e.pc = "compact" /\ Goto(q, [e EXCEPT !.pc = "request", !.turns = @ - 1])
         \/ e.pc = "shrink" /\ Goto(q, [e EXCEPT !.pc = "top", !.turns = @ + 1])
    /\ Stay

\* normalizeMessagesForAPI: adjacent messages of the user are one; results
\* that the assistant's message before does not call for are dropped.
JoinOne(acc, k) == IF acc # <<>> /\ k \in FromUser /\ Last(acc) \subseteq FromUser
                    THEN Front(acc) \o <<Last(acc) \cup {k}>> ELSE Append(acc, {k})
Joined(msgs) == Loop([p \in Seq(SUBSET MessageKinds) \X Messages |-> JoinOne(p[1], p[2].kind)], <<>>, msgs)
NormalizedForAPI(msgs) ==
    LET s == Joined(msgs)
        fixed == [i \in DOMAIN s |-> IF i > 1 /\ s[i - 1] = {"text"} THEN s[i] \ {"results"} ELSE s[i]]
    IN Picked(fixed, (SUBSET MessageKinds) \ {{}})

\* The model's answer, after the retries; an error may say that the prompt is
\* too long.
Answer(q) ==
    LET e == eng[q] IN
    /\ e.pc = "request"
    /\ \/ \E k \in {"text", "calls"}, s \in {"end", "tools", "max"} :
            Goto(q, [e EXCEPT !.pc = "reply", !.stop = s, !.msgs = Said(e, k, q)])
       \/ ~e.compacted /\ Goto(q, [e EXCEPT !.pc = "shrink"])
       \/ Goto(q, [e EXCEPT !.pc = "result", !.result = "error"])
    /\ Stay

\* The loop ends; on its last turn that is reported as running out of turns.
Ended(e) == [e EXCEPT !.pc = "finish", !.result = IF e.turns = 0 THEN "error_max_turns" ELSE "success"]

\* After the assistant's message: a reply cut off is continued, whatever it
\* called for; without calls the loop ends; else the tools are run.
GoOn(q) ==
    LET e == eng[q]
        cut == e.stop = "max" /\ e.attempts < 3
        said == Last(e.msgs).kind
        kept == IF said = "calls" THEN Front(e.msgs) \o <<[kind |-> "cut", query |-> q]>> ELSE e.msgs
    IN
    /\ e.pc = "reply"
    /\ \/ cut /\ Goto(q, [e EXCEPT !.pc = "top", !.stop = "end", !.attempts = @ + 1,
                                   !.msgs = Append(kept, [kind |-> "continue", query |-> q])])
       \/ ~cut /\ said = "text" /\ Goto(q, Ended(e))
       \/ /\ ~cut /\ said = "calls"
          /\ \E r, w \in 0 .. MaxTools :
               r + w > 0 /\ Goto(q, [e EXCEPT !.pc = "tools", !.attempts = 0, !.reads = r, !.writes = w])
    /\ Stay

\* Variant for a mutation check: the other tools do not wait for the reading ones.
NothingWritten(e) == ~e.writing

\* executeTools: the reading tools are done, and so is the tool before.
AllQuiet(e) == e.reads = 0 /\ e.running = 0 /\ ~e.writing

\* Reading tools run together, the others one by one.  A tool that is
\* unknown, disabled, denied or blocked by a hook ends without having run.
StartReads(q) ==
    /\ eng[q].pc = "tools" /\ eng[q].reads > 0 /\ eng[q].running = 0
    /\ Goto(q, [eng[q] EXCEPT !.running = eng[q].reads, !.reads = 0]) /\ Stay

ReadEnds(q) ==
    /\ eng[q].pc = "tools" /\ eng[q].running > 0
    /\ Goto(q, [eng[q] EXCEPT !.running = @ - 1]) /\ Stay

StartChange(q) ==
    /\ eng[q].pc = "tools" /\ eng[q].writes > 0 /\ AllQuiet(eng[q])
    /\ Goto(q, [eng[q] EXCEPT !.writes = @ - 1, !.writing = TRUE]) /\ Stay

ChangeEnds(q) ==
    /\ eng[q].pc = "tools" /\ eng[q].writing
    /\ Goto(q, [eng[q] EXCEPT !.writing = FALSE]) /\ Stay

ToolsEnd(q) ==
    /\ eng[q].pc = "tools" /\ AllQuiet(eng[q]) /\ eng[q].writes = 0
    /\ Goto(q, [eng[q] EXCEPT !.pc = "told"]) /\ Stay

\* Variant for a mutation check: an interrupted query does not add its results.
ResultsUnlessAborted(q) == IF aborted THEN eng[q].msgs ELSE Said(eng[q], "results", q)

\* The conversation with the results of the calls.
WithResults(q) == Said(eng[q], "results", q)

AddResults(q) ==
    LET e == [eng[q] EXCEPT !.msgs = WithResults(q), !.pc = "top"] IN
    /\ eng[q].pc = "told" /\ Goto(q, IF e.stop = "end" THEN Ended(e) ELSE [e EXCEPT !.stop = "end"]) /\ Stay

\* Stop and SessionEnd hooks, then the result.
SendResult(q) == eng[q].pc = "finish" /\ Goto(q, [eng[q] EXCEPT !.pc = "result"]) /\ Stay

EngineNext ==
    \/ Connect \/ Resume \/ Interrupt \/ ClearHistory \/ Close \/ CloseLink
    \/ \E q \in Queries :
         \/ Begin(q) \/ QueryEnds(q) \/ StopReading(q) \/ Submit(q) \/ Resumed(q) \/ Top(q)
         \/ Compact(q) \/ Answer(q) \/ GoOn(q) \/ StartReads(q) \/ ReadEnds(q) \/ StartChange(q)
         \/ ChangeEnds(q) \/ ToolsEnd(q) \/ AddResults(q) \/ SendResult(q)

EngineSpec == EngineInit /\ [][EngineNext]_engineVars

-----------------------------------------------------------------------------
\* In what is sent to the model every tool call is followed by its results
\* and every result follows its call, across turns, interruptions, failed
\* queries, compactions and resumed conversations; only the calls of a reply
\* that was cut off stay without results (engine.ts 360-372).
RequestsPaired ==
    \A q \in Queries : eng[q].pc = "request" =>
        LET s == NormalizedForAPI(eng[q].msgs) IN
        \A i \in DOMAIN s :
            /\ "calls" \in s[i] => i < Len(s) /\ "results" \in s[i + 1]
            /\ "results" \in s[i] => i > 1 /\ "calls" \in s[i - 1]

\* A tool that changes something never runs beside another tool of its query.
ChangesRunAlone == \A q \in Queries : eng[q].writing => eng[q].running = 0

\* A query read to its end stays in the agent's conversation, as its prompt
\* or within a summary, however it and the later queries ended, unless the
\* conversation was cleared.
QueriesStay ==
    \A q \in Queries \ excused :
        eng[q].pc = "done" /\ eng[q].result # "blocked" =>
            \E i \in DOMAIN history : history[i].kind = "summary" \/ history[i] = [kind |-> "prompt", query |-> q]

\* A closed agent has no connection left, unless it was closed while it was
\* still connecting.
ClosedIsClosed == closing = "yes" /\ ~hasty => open = 0
=============================================================================
