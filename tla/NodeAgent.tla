----------------------------- MODULE NodeAgent -----------------------------
(***************************************************************************)
(* The agent's streams in the shell's Node API (api/agent.ts,              *)
(* services/agent.ts, services/chat.ts, core/agent/base.ts,                *)
(* extensions/agent/duangcode): a request to chat, to plan, to execute a   *)
(* plan or to run opens a server-sent event stream over nested generators. *)
(* The client may go away and anybody may stop a session between any two   *)
(* events; an event that cannot be sent returns from the generators.       *)
(***************************************************************************)
EXTENDS Naturals, Sequences, FiniteSets

CONSTANTS
    Streams,    \* requests made
    Texts,      \* texts, told apart by their first hundred characters
    Tools       \* ids of tool calls

VARIABLES
    sess,       \* activeSessions: ids of streams
    stopped,    \* ids whose controller is aborted
    store,      \* globalPlanStore: plans, named for the stream that made them
    own,        \* the agents' plans: <<agent, plan>>, 0 for the shared agent
    inAgent,    \* the agents' sessions
    gone,       \* streams whose client is away
    st          \* stream -> what it does

nodeAgentVars == <<sess, stopped, store, own, inAgent, gone, st>>

Blocks == {<<"text", t>> : t \in Texts} \cup {<<"tool", i>> : i \in Tools}
Unopened == [kind |-> "none", pc |-> "none", agent |-> 0, plan |-> 0, out |-> "open", todo |-> <<>>,
             texts |-> {}, ids |-> {}, twice |-> FALSE, early |-> FALSE]

NodeAgentTypeOK ==
    /\ {sess, stopped, store, inAgent, gone} \subseteq SUBSET Streams
    /\ own \subseteq (Streams \cup {0}) \X Streams
    /\ \A s \in Streams :
         /\ st[s].kind \in {"none", "chat", "plan", "execute", "run"}
         /\ st[s].pc \in {"none", "made", "start", "query", "parse", "failed", "missing", "last", "end", "closed"}
         /\ st[s].out \in {"open", "done", "broken", "extra"}
         /\ st[s].plan \in Streams \cup {0} /\ st[s].agent \in Streams \cup {0}
         /\ st[s].todo \in Seq(Blocks) /\ st[s].texts \subseteq Texts /\ st[s].ids \subseteq Tools

NodeAgentInit ==
    /\ sess = {} /\ stopped = {} /\ store = {} /\ own = {} /\ inAgent = {} /\ gone = {}
    /\ st = [s \in Streams |-> Unopened]

Pc(s) == st[s].pc
Turns(s, r) == st' = [st EXCEPT ![s] = r]

-----------------------------------------------------------------------------
(* The event stream.                                                       *)

\* What the client has seen after one more event.
After(out, ev) == IF out # "open" THEN "extra" ELSE IF ev = "done" THEN "done" ELSE "open"

\* A generator that is returned from within its try runs its finally: the
\* agent forgets the session, but not one of planning.
Forgets(s) == IF st[s].kind = "plan" THEN inAgent ELSE inAgent \ {s}

\* The stream sends ev and goes on as r; if it cannot, it is closed.
Send(s, r, ev) ==
    IF s \in gone
      THEN /\ Turns(s, [r EXCEPT !.pc = "closed", !.todo = <<>>, !.early = Pc(s) = "made"])
           /\ inAgent' = IF Pc(s) \in {"query", "parse", "failed"} THEN Forgets(s) ELSE inAgent
      ELSE /\ Turns(s, [r EXCEPT !.out = After(@, ev)])
           /\ UNCHANGED inAgent

\* The generator is done, and the stream is closed.
CloseStream(s) ==
    /\ Pc(s) = "end" /\ Turns(s, [st[s] EXCEPT !.pc = "closed"])
    /\ UNCHANGED <<sess, stopped, store, own, inAgent, gone>>

ClientLeaves(s) ==
    /\ Pc(s) \notin {"none", "closed"} /\ s \notin gone /\ gone' = gone \cup {s}
    /\ UNCHANGED <<sess, stopped, store, own, inAgent, st>>

-----------------------------------------------------------------------------
(* The requests.                                                           *)

\* POST /chat: no session.  Without a key it ends at once.
Chat(s) ==
    /\ Pc(s) = "none"
    /\ \E pc \in {"start", "failed"} : Turns(s, [Unopened EXCEPT !.kind = "chat", !.pc = pc])
    /\ UNCHANGED <<sess, stopped, store, own, inAgent, gone>>

\* POST /plan and POST /: a session, and an agent of its own or the shared one.
Ask(s) ==
    /\ Pc(s) = "none" /\ sess' = sess \cup {s}
    /\ \E k \in {"plan", "run"}, a \in {0, s} :
         Turns(s, [Unopened EXCEPT !.kind = k, !.pc = "made", !.agent = a])
    /\ UNCHANGED <<stopped, store, own, inAgent, gone>>

\* Variant for a mutation check: the plan is looked up in the agent that executes it.
PlanInAgent(a, p) == <<a, p>> \in own

\* getPlan: the plan is in the store of the whole service.
PlanFound(a, p) == p \in store

\* POST /execute.
ExecutePlan(s) ==
    /\ Pc(s) = "none"
    /\ \E p \in Streams, a \in {0, s} :
         /\ p \in store /\ sess' = sess \cup {s}
         /\ Turns(s, [Unopened EXCEPT !.kind = "execute", !.pc = "made", !.agent = a, !.plan = p])
    /\ UNCHANGED <<stopped, store, own, inAgent, gone>>

\* The agent is made: that may fail, which the stream says without a "done".
\* Else it has a session and sends its id, before its try.  A plan that is
\* gone is reported instead.
StartSession(s) ==
    LET r == st[s] IN
    /\ Pc(s) = "made"
    /\ \/ /\ Turns(s, [r EXCEPT !.pc = "closed", !.out = "broken"]) /\ UNCHANGED inAgent
       \/ LET found == r.kind # "execute" \/ PlanFound(r.agent, r.plan) IN
          /\ Turns(s, IF ~found THEN [r EXCEPT !.pc = "missing"]
                        ELSE IF s \in gone THEN [r EXCEPT !.pc = "closed", !.early = TRUE]
                        ELSE [r EXCEPT !.pc = "start"])
          /\ inAgent' = IF found THEN inAgent \cup {s} ELSE inAgent
    /\ UNCHANGED <<sess, stopped, store, own, gone>>

\* Variant for a mutation check: the session is forgotten and runs on.
Unstopped(s) == stopped

\* deleteSession's controller.
Aborted(s) == stopped \cup {s}

\* POST /stop.
StopSession(s) ==
    /\ s \in sess /\ sess' = sess \ {s} /\ stopped' = Aborted(s)
    /\ UNCHANGED <<store, own, inAgent, gone, st>>

-----------------------------------------------------------------------------
(* The agent.                                                              *)

\* The directory, the images, the instructions, the MCP servers: the query begins.
Query(s) ==
    /\ Pc(s) = "start" /\ Turns(s, [st[s] EXCEPT !.pc = "query"])
    /\ UNCHANGED <<sess, stopped, store, own, inAgent, gone>>

\* A message of the query: dropped with the rest when the session is stopped.
Message(s) ==
    /\ Pc(s) = "query" /\ st[s].todo = <<>> /\ st[s].kind # "chat"
    /\ IF s \in stopped
         THEN Turns(s, [st[s] EXCEPT !.pc = IF st[s].kind = "plan" THEN "parse" ELSE "last"])
         ELSE \E b, c \in Blocks : Turns(s, [st[s] EXCEPT !.todo = <<b, c>>])
    /\ UNCHANGED <<sess, stopped, store, own, inAgent, gone>>

\* Variant for a mutation check: the ids of the tool calls sent are not looked up.
NewText(r, b) == b[1] = "tool" \/ b[2] \notin r.texts

\* processMessage sends a text once, going by its beginning, and a call once.
IsNew(r, b) == IF b[1] = "text" THEN b[2] \notin r.texts ELSE b[2] \notin r.ids

SendBlock(s) ==
    LET r == st[s]
        b == Head(r.todo)
        next == [r EXCEPT !.todo = Tail(@),
                          !.texts = IF b[1] = "text" /\ r.kind # "plan" THEN @ \cup {b[2]} ELSE @,
                          !.ids = IF b[1] = "tool" /\ r.kind # "plan" THEN @ \cup {b[2]} ELSE @,
                          !.twice = @ \/ (b[1] = "tool" /\ b[2] \in r.ids)]
        sent == IF r.kind = "plan" THEN b[1] = "text" ELSE IsNew(r, b)
    IN
    /\ Pc(s) = "query" /\ r.todo # <<>>
    /\ \/ sent /\ Send(s, next, b[1])
       \/ ~sent /\ Turns(s, [r EXCEPT !.todo = Tail(@)]) /\ UNCHANGED inAgent
    /\ UNCHANGED <<sess, stopped, store, own, gone>>

\* Results of tools, and the result of the query.
SendOther(s) ==
    /\ Pc(s) = "query" /\ st[s].todo = <<>> /\ s \notin stopped /\ st[s].kind # "plan"
    /\ Send(s, st[s], "other")
    /\ UNCHANGED <<sess, stopped, store, own, gone>>

\* The query is over, or has thrown.
QueryOver(s) ==
    /\ Pc(s) = "query" /\ st[s].todo = <<>>
    /\ \E pc \in {IF st[s].kind = "plan" THEN "parse" ELSE "last", "failed"} :
         Turns(s, [st[s] EXCEPT !.pc = pc])
    /\ UNCHANGED <<sess, stopped, store, own, inAgent, gone>>

\* parsePlanningResponse: an answer, or a plan.  The agent keeps the plan; the
\* service keeps it in the store when it passes the event on.
Parse(s) ==
    /\ Pc(s) = "parse"
    /\ \/ Send(s, [st[s] EXCEPT !.pc = "last"], "answer") /\ UNCHANGED <<store, own>>
       \/ /\ own' = own \cup {<<st[s].agent, s>>} /\ store' = store \cup {s}
          /\ Send(s, [st[s] EXCEPT !.pc = "last"], "plan")
       \/ Turns(s, [st[s] EXCEPT !.pc = "failed"]) /\ UNCHANGED <<store, own, inAgent>>
    /\ UNCHANGED <<sess, stopped, gone>>

\* catch.
SendError(s) ==
    /\ Pc(s) \in {"failed", "missing"} /\ Send(s, [st[s] EXCEPT !.pc = "last"], "error")
    /\ UNCHANGED <<sess, stopped, store, own, gone>>

\* Variant for a mutation check: an execution that was stopped ends silently.
DoneUnlessStopped(s) == IF s \in stopped THEN st[s].out ELSE After(st[s].out, "done")

\* What the client has seen with the last event.
LastSeen(s) == After(st[s].out, "done")

\* finally: the agent forgets the session (not after planning, nor when the
\* plan was not found) and the plan it kept; the last event.
SendDone(s) ==
    LET r == st[s] IN
    /\ Pc(s) = "last"
    /\ inAgent' = Forgets(s)
    /\ own' = IF r.kind = "execute" THEN own \ {<<r.agent, r.plan>>} ELSE own
    /\ Turns(s, IF s \in gone THEN [r EXCEPT !.pc = "closed"] ELSE [r EXCEPT !.pc = "end", !.out = LastSeen(s)])
    /\ UNCHANGED <<sess, stopped, store, gone>>

NodeAgentNext ==
    \E s \in Streams :
        \/ CloseStream(s) \/ ClientLeaves(s) \/ Chat(s) \/ Ask(s) \/ ExecutePlan(s) \/ StartSession(s)
        \/ StopSession(s) \/ Query(s) \/ Message(s) \/ SendBlock(s) \/ SendOther(s) \/ QueryOver(s)
        \/ Parse(s) \/ SendError(s) \/ SendDone(s)

NodeAgentSpec == NodeAgentInit /\ [][NodeAgentNext]_nodeAgentVars

-----------------------------------------------------------------------------
\* A client that stays is sent "done" once, as the last event of its stream,
\* on every way out: the end, a failure, a stop, a plan that is not found;
\* only an agent that cannot be made ends without it (api/agent.ts 19-39).
DoneIsLast ==
    \A s \in Streams :
        /\ st[s].out # "extra"
        /\ Pc(s) = "closed" /\ s \notin gone => st[s].out \in {"done", "broken"}

\* A tool call is sent once in a stream, whatever the messages repeat.
CallsSentOnce == \A s \in Streams : ~st[s].twice

\* A stream of an agent that is still open can be stopped, or has been.
StreamsCanBeStopped ==
    \A s \in Streams : Pc(s) \notin {"none", "closed"} /\ st[s].kind # "chat" => s \in sess \cup stopped

\* The plan of an execution that was accepted is found when it begins,
\* whichever agent made the plan and whoever executed it before.
PlansCanBeExecuted == \A s \in Streams : Pc(s) # "missing"

\* The agents keep the sessions of open streams, of planning, and of streams
\* whose client had left before their first event.
SessionsForgotten ==
    \A s \in inAgent : st[s].kind = "plan" \/ Pc(s) # "closed" \/ st[s].early
=============================================================================
