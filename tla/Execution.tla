----------------------------- MODULE Execution ------------------------------
(***************************************************************************)
(* Plans, their execution, and what is persisted of it.  POST /agent/plan  *)
(* saves a plan under a fresh id (agent_service.py); POST /agent/execute   *)
(* looks it up, streams run_execution_phase, and deletes it at the end;    *)
(* GET /agent/plan/{id} only looks it up.  Each streamed event is first    *)
(* persisted to the task row by _persist_agent_event (api/agent.py).       *)
(*                                                                         *)
(* One server process over one database.  Requests interleave at every     *)
(* await; a read of the database and the use of its result are two steps.  *)
(* A client can go away and the process can crash in between.  The session *)
(* of a request, which is always new, is identified with the request.      *)
(***************************************************************************)
EXTENDS Naturals

CONSTANTS Plans, Requests, Tasks, NoTask, NoPlan, NoRequest

ASSUME ExecutionAssumption == /\ NoTask \notin Tasks
                              /\ NoPlan \notin Plans
                              /\ NoRequest \notin Requests

VARIABLES
    planner,   \* [Plans -> state of the POST /agent/plan that makes it]
    rows,      \* runtime_plans: the plans with an unexpired row
    local,     \* _local_plans of the process
    pc,        \* [Requests -> where the handler or its stream is]
    op,        \* [Requests -> {"execute", "get"}]
    plan,      \* [Requests -> the planId of the request]
    task,      \* [Requests -> the taskId of the request, or NoTask]
    found,     \* requests that read the plan's row and did not drop it since
    phase,     \* [Requests -> how far the run behind the stream is]
    told,      \* requests whose run has yielded its text or tool event
    event,     \* [Requests -> the event being persisted]
    status,    \* tasks: status of the row, "none" without a row
    owner,     \* tasks: the session the row names
    counted,   \* sessions whose task_count was incremented
    runs,      \* history: requests that executed their plan
    spent,     \* history: plans that an execution has deleted
    late,      \* history: requests that arrived when their plan was spent
    gone,      \* history: requests cut off by the client, an error or a crash
    verdict    \* history: the last status the request wrote to its task

planVars == <<planner, rows, local>>
reqVars  == <<op, plan, task, late>>
runVars  == <<phase, told, event, runs>>
taskVars == <<status, owner, counted, verdict>>
vars     == <<planVars, pc, reqVars, found, runVars, taskVars, spent, gone>>

Persisting == {"lookup", "reserve", "upsert", "record"}
Streaming  == {"fetch", "fetched", "emit"} \cup Persisting
Busy       == {"gate", "gated", "pop", "delete"} \cup Streaming
Statuses   == {"running", "completed", "error"}

TypeOK ==
    /\ planner \in [Plans -> {"idle", "saving", "offered", "failed"}]
    /\ rows \subseteq Plans /\ local \subseteq Plans /\ spent \subseteq Plans
    /\ pc \in [Requests -> {"idle", "end"} \cup Busy]
    /\ op \in [Requests -> {"none", "execute", "get"}]
    /\ plan \in [Requests -> Plans \cup {NoPlan}]
    /\ task \in [Requests -> Tasks \cup {NoTask}]
    /\ phase \in [Requests -> {"none", "missing", "running", "blocked",
                               "reported", "closing", "over"}]
    /\ event \in [Requests -> {"none", "info", "success", "failure", "error", "done"}]
    /\ found \subseteq Requests /\ told \subseteq Requests /\ counted \subseteq Requests
    /\ runs \subseteq Requests /\ late \subseteq Requests /\ gone \subseteq Requests
    /\ status \in [Tasks -> Statuses \cup {"none"}]
    /\ owner \in [Tasks -> Requests \cup {NoRequest}]
    /\ verdict \in [Requests -> Statuses \cup {"none"}]

Init ==
    /\ planner = [p \in Plans |-> "idle"]
    /\ rows = {} /\ local = {} /\ spent = {}
    /\ pc = [r \in Requests |-> "idle"]
    /\ op = [r \in Requests |-> "none"]
    /\ plan = [r \in Requests |-> NoPlan]
    /\ task = [r \in Requests |-> NoTask]
    /\ phase = [r \in Requests |-> "none"]
    /\ event = [r \in Requests |-> "none"]
    /\ found = {} /\ told = {} /\ counted = {}
    /\ runs = {} /\ late = {} /\ gone = {}
    /\ status = [t \in Tasks |-> "none"]
    /\ owner = [t \in Tasks |-> NoRequest]
    /\ verdict = [r \in Requests |-> "none"]

Goto(r, where) == pc' = [pc EXCEPT ![r] = where]

-----------------------------------------------------------------------------
(* Planning: the row is stored before the client learns the id.            *)

\* save_plan_async, up to its await.
SaveLocal(p) ==
    /\ planner[p] = "idle"
    /\ planner' = [planner EXCEPT ![p] = "saving"]
    /\ local' = local \cup {p}
    /\ UNCHANGED <<rows, pc, reqVars, found, runVars, taskVars, spent, gone>>

\* save_runtime_plan returns, and the plan event is yielded; or it raises.
SaveRow(p) ==
    /\ planner[p] = "saving"
    /\ \/ planner' = [planner EXCEPT ![p] = "offered"] /\ rows' = rows \cup {p}
       \/ planner' = [planner EXCEPT ![p] = "failed"] /\ UNCHANGED rows
    /\ UNCHANGED <<local, pc, reqVars, found, runVars, taskVars, spent, gone>>

\* The row's expires_at passes; that a later lookup erases it shows nowhere.
Expire(p) ==
    /\ p \in rows
    /\ rows' = rows \ {p}
    /\ UNCHANGED <<planner, local, pc, reqVars, found, runVars, taskVars, spent, gone>>

-----------------------------------------------------------------------------
(* The lookup, get_plan_async.                                             *)

\* A client sends a request for a plan it was offered.
Post(r, p, o, t) ==
    /\ pc[r] = "idle" /\ planner[p] = "offered"
    /\ o = "get" => t = NoTask
    /\ Goto(r, "gate")
    /\ op' = [op EXCEPT ![r] = o]
    /\ plan' = [plan EXCEPT ![r] = p]
    /\ task' = [task EXCEPT ![r] = t]
    /\ late' = IF p \in spent THEN late \cup {r} ELSE late
    /\ UNCHANGED <<planVars, found, runVars, taskVars, spent, gone>>

\* The database answers get_runtime_plan.
ReadRow(r, next) ==
    /\ Goto(r, next)
    /\ found' = IF plan[r] \in rows THEN found \cup {r} ELSE found \ {r}

\* get_plan_async goes on with the answer.
Refresh(r) == local' = IF r \in found THEN local \cup {plan[r]} ELSE local \ {plan[r]}

\* The lookup of the route, before anything is streamed.
GateRead(r) ==
    /\ pc[r] = "gate"
    /\ ReadRow(r, "gated")
    /\ UNCHANGED <<planVars, reqVars, runVars, taskVars, spent, gone>>

\* Not found is a 404; a GET answers; an execution starts its stream.
GateApply(r) ==
    /\ pc[r] = "gated"
    /\ Refresh(r)
    /\ Goto(r, IF r \in found /\ op[r] = "execute" THEN "fetch" ELSE "end")
    /\ UNCHANGED <<planner, rows, reqVars, found, runVars, taskVars, spent, gone>>

\* The lookup of run_execution_phase.
PhaseRead(r) ==
    /\ pc[r] = "fetch"
    /\ ReadRow(r, "fetched")
    /\ UNCHANGED <<planVars, reqVars, runVars, taskVars, spent, gone>>

\* With the plan in hand the run starts, otherwise the stream is an error.
PhaseApply(r) ==
    /\ pc[r] = "fetched"
    /\ Refresh(r)
    /\ Goto(r, "emit")
    /\ phase' = [phase EXCEPT ![r] = IF r \in found THEN "running" ELSE "missing"]
    /\ runs' = IF r \in found THEN runs \cup {r} ELSE runs
    /\ UNCHANGED <<planner, rows, reqVars, found, told, event, taskVars, spent, gone>>

-----------------------------------------------------------------------------
(* The stream: run_agent yields an event, the route persists it, then it   *)
(* goes to the client.                                                     *)

\* What the run may yield next, and how far it is after that.  A successful
\* result that breaks a semantic rule is replaced by an error and a failed
\* result.  A run can still raise after its result.
Yields(r) ==
    CASE phase[r] = "missing"  -> {<<"error", "closing">>}
      [] phase[r] = "running"  -> {<<"success", "reported">>, <<"failure", "reported">>,
                                   <<"error", "blocked">>, <<"error", "closing">>}
                                  \cup (IF r \in told THEN {} ELSE {<<"info", "running">>})
      [] phase[r] = "blocked"  -> {<<"failure", "reported">>}
      [] phase[r] = "reported" -> {<<"done", "over">>, <<"error", "closing">>}
      [] phase[r] = "closing"  -> {<<"done", "over">>}
      [] OTHER -> {}

Yield(r) ==
    /\ pc[r] = "emit"
    /\ \E y \in Yields(r) :
          /\ event' = [event EXCEPT ![r] = y[1]]
          /\ phase' = [phase EXCEPT ![r] = y[2]]
          /\ told' = IF y[1] = "info" THEN told \cup {r} ELSE told
    /\ Goto(r, IF task[r] = NoTask THEN "emit" ELSE "lookup")
    /\ UNCHANGED <<planVars, reqVars, found, runs, taskVars, spent, gone>>

\* Variant for a mutation check: the row is created without a reservation.
LookupNoReserve(r) ==
    /\ pc[r] = "lookup"
    /\ Goto(r, IF status[task[r]] = "none" THEN "upsert" ELSE "record")
    /\ UNCHANGED <<planVars, reqVars, found, runVars, taskVars, spent, gone>>

\* repo_get_task; for a task that exists repo_create_session keeps its count.
Lookup(r) ==
    /\ pc[r] = "lookup"
    /\ Goto(r, IF status[task[r]] = "none" THEN "reserve" ELSE "record")
    /\ UNCHANGED <<planVars, reqVars, found, runVars, taskVars, spent, gone>>

\* repo_reserve_next_task_index, one transaction on the session's own row.
Reserve(r) ==
    /\ pc[r] = "reserve"
    /\ Goto(r, "upsert")
    /\ counted' = counted \cup {r}
    /\ UNCHANGED <<planVars, reqVars, found, runVars, status, owner, verdict, spent, gone>>

\* repo_upsert_task: a row that has appeared meanwhile is overwritten.
Upsert(r) ==
    /\ pc[r] = "upsert"
    /\ Goto(r, "record")
    /\ status' = [status EXCEPT ![task[r]] = "running"]
    /\ owner' = [owner EXCEPT ![task[r]] = r]
    /\ verdict' = [verdict EXCEPT ![r] = "running"]
    /\ UNCHANGED <<planVars, reqVars, found, runVars, counted, spent, gone>>

\* Variant for a mutation check: the subtype of the result is stored.
NewStatusRaw == [success |-> "success", failure |-> "error", error |-> "error"]

\* The status that an event puts on the task; the others only add a message.
NewStatus == [success |-> "completed", failure |-> "error", error |-> "error"]

\* Variant for a mutation check: an error event leaves the task as it is.
RecordResultsOnly(r) ==
    /\ pc[r] = "record"
    /\ Goto(r, "emit")
    /\ IF event[r] \in {"success", "failure"}
       THEN /\ status' = [status EXCEPT ![task[r]] = NewStatus[event[r]]]
            /\ verdict' = [verdict EXCEPT ![r] = NewStatus[event[r]]]
       ELSE UNCHANGED <<status, verdict>>
    /\ UNCHANGED <<planVars, reqVars, found, runVars, owner, counted, spent, gone>>

\* The message and, for a result or an error, repo_update_task.
Record(r) ==
    /\ pc[r] = "record"
    /\ Goto(r, "emit")
    /\ IF event[r] \in DOMAIN NewStatus
       THEN /\ status' = [status EXCEPT ![task[r]] = NewStatus[event[r]]]
            /\ verdict' = [verdict EXCEPT ![r] = NewStatus[event[r]]]
       ELSE UNCHANGED <<status, verdict>>
    /\ UNCHANGED <<planVars, reqVars, found, runVars, owner, counted, spent, gone>>

-----------------------------------------------------------------------------
(* The end of the stream: the finally clause of run_execution_phase.       *)

\* Variant for a mutation check: the plan is deleted only after a success.
FinishAfterSuccess(r) ==
    /\ pc[r] = "emit" /\ phase[r] = "over"
    /\ Goto(r, IF r \in runs /\ verdict[r] = "completed" THEN "pop" ELSE "end")
    /\ UNCHANGED <<planVars, reqVars, found, runVars, taskVars, spent, gone>>

\* The generator goes on after done; the plan was not looked up in the try.
Finish(r) ==
    /\ pc[r] = "emit" /\ phase[r] = "over"
    /\ Goto(r, IF r \in runs THEN "pop" ELSE "end")
    /\ UNCHANGED <<planVars, reqVars, found, runVars, taskVars, spent, gone>>

\* Variant for a mutation check: delete_plan_async forgets the cached copy.
PopNothing(r) ==
    /\ pc[r] = "pop"
    /\ Goto(r, "delete")
    /\ found' = found \ {r}
    /\ UNCHANGED <<planVars, reqVars, runVars, taskVars, spent, gone>>

\* delete_plan_async, up to its await.
Pop(r) ==
    /\ pc[r] = "pop"
    /\ Goto(r, "delete")
    /\ local' = local \ {plan[r]}
    /\ found' = found \ {r}
    /\ UNCHANGED <<planner, rows, reqVars, runVars, taskVars, spent, gone>>

\* Variant for a mutation check: the row stays.
DeleteNothing(r) ==
    /\ pc[r] = "delete"
    /\ Goto(r, "end")
    /\ spent' = spent \cup {plan[r]}
    /\ UNCHANGED <<planVars, reqVars, found, runVars, taskVars, gone>>

Delete(r) ==
    /\ pc[r] = "delete"
    /\ Goto(r, "end")
    /\ rows' = rows \ {plan[r]}
    /\ spent' = spent \cup {plan[r]}
    /\ UNCHANGED <<planner, local, reqVars, found, runVars, taskVars, gone>>

-----------------------------------------------------------------------------
(* Interruptions.                                                          *)

\* The client goes away, or persisting the event raises.  The generators are
\* closed: a run's finally clause is entered, a lookup just ends.
Abandon(r) ==
    /\ pc[r] \in Streaming
    /\ Goto(r, IF r \in runs THEN "pop" ELSE "end")
    /\ gone' = gone \cup {r}
    /\ UNCHANGED <<planVars, reqVars, found, runVars, taskVars, spent>>

\* The cancellation of the request reaches the await of the delete itself.
DeleteCancelled(r) ==
    /\ pc[r] = "delete"
    /\ Goto(r, "end")
    /\ gone' = gone \cup {r}
    /\ UNCHANGED <<planVars, reqVars, found, runVars, taskVars, spent>>

\* The process dies and is started again: the database is what is left.
Crash ==
    /\ planner' = [p \in Plans |-> IF planner[p] = "saving" THEN "failed" ELSE planner[p]]
    /\ local' = {}
    /\ pc' = [r \in Requests |-> IF pc[r] \in Busy THEN "end" ELSE pc[r]]
    /\ gone' = gone \cup {r \in Requests : pc[r] \in Busy}
    /\ UNCHANGED <<rows, reqVars, found, runVars, taskVars, spent>>

-----------------------------------------------------------------------------
Serve(r) == \/ GateRead(r) \/ GateApply(r) \/ PhaseRead(r) \/ PhaseApply(r)
            \/ Yield(r) \/ Lookup(r) \/ Reserve(r) \/ Upsert(r) \/ Record(r)
            \/ Finish(r) \/ Pop(r) \/ Delete(r)

Next == \/ \E p \in Plans : SaveLocal(p) \/ SaveRow(p) \/ Expire(p)
        \/ \E r \in Requests : Serve(r) \/ Abandon(r) \/ DeleteCancelled(r)
        \/ \E r \in Requests, p \in Plans, o \in {"execute", "get"},
              t \in Tasks \cup {NoTask} : Post(r, p, o, t)
        \/ Crash

Spec == Init /\ [][Next]_vars

FairSpec == Spec /\ \A r \in Requests : WF_vars(Serve(r))

-----------------------------------------------------------------------------
(* Properties.                                                             *)

\* Executions of one plan can only overlap: once one of them has deleted the
\* plan, no request that arrives later executes it (delete_plan_async in the
\* finally clause, agent_service.py:1494-1496, against the two lookups).
NoReplay == late \cap runs = {}

\* A copy of a deleted plan in _local_plans is there only while a request that
\* arrived before the deletion still has to drop it, or because such a request
\* only read the plan or was cut off (the write after the await, 353-361).
StaleCopyExplained ==
    \A p \in local \cap spent : \E r \in Requests \ late :
        /\ plan[r] = p
        /\ \/ op[r] = "get" \/ r \in gone
           \/ pc[r] \in {"fetch", "fetched"}
           \/ r \in runs /\ pc[r] \in Streaming \cup {"pop"}

\* When every request for a task has ended on its own, the task does not stay
\* "running": its status is the last one that one of them wrote, even when
\* two of them created the row (_persist_agent_event, api/agent.py:174-247).
TaskSettles ==
    \A t \in Tasks :
        LET R == {r \in Requests : task[r] = t}
        IN  (status[t] # "none" /\ \A r \in R : pc[r] \in {"idle", "end"} /\ r \notin gone)
            => \E r \in R : status[t] = verdict[r] /\ verdict[r] # "running"

\* sessions.task_count agrees with the tasks that name the session, except
\* for a reservation whose request was cut off or lost the task to another
\* request with the same taskId (repositories.py:22-44 and 54-78).
CountFollowsTasks ==
    /\ \A t \in Tasks : status[t] # "none" => owner[t] \in counted
    /\ \A r \in counted : \/ owner[task[r]] = r
                          \/ pc[r] = "upsert" \/ r \in gone
                          \/ \E s \in counted \ {r} : owner[task[r]] = s

\* A plan that was executed is deleted in the end, unless the request was cut
\* off or the process died (finally clause of run_execution_phase).
ExecutedPlanIsDeleted ==
    \A r \in Requests : (r \in runs) ~> (plan[r] \in spent \/ r \in gone)

\* docs/interview_deep_dive_guide.md:420 says of the deletion that it keeps a
\* plan from being consumed twice: no plan is executed by two requests.
ConsumedOnce == \A r, s \in runs : plan[r] = plan[s] => r = s
=============================================================================
