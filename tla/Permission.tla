----------------------------- MODULE Permission -----------------------------
(***************************************************************************)
(* The approval of tool calls, end to end.  QueryEngine                    *)
(* (forgepilot_sdk/engine.py) walks the calls that the policy left pending *)
(* one by one; a call that needs permission gets a row in                  *)
(* runtime_permissions and a permission_request event, and the engine      *)
(* awaits _wait_for_permission_decision (agent_service.py), which polls    *)
(* the row.  Any number of POST /agent/permission requests, in any worker, *)
(* answer it; POST /agent/stop aborts the session; rows expire; the        *)
(* engine's own 600 s limit cuts the wait off; the client goes away.       *)
(*                                                                         *)
(* One session, one run.  An await is a step of its own, so everything     *)
(* another task does in between is visible.                                *)
(***************************************************************************)
EXTENDS Naturals, FiniteSets

CONSTANTS
    NumCalls,     \* pending tool calls of the run, over all its turns
    Responders,   \* POST /agent/permission requests, one answer each
    AtomicSet     \* TRUE: SQLite, one conditional UPDATE; FALSE: Redis GET, TTL, SET

ASSUME PermissionAssumption == /\ NumCalls \in Nat
                               /\ AtomicSet \in BOOLEAN
                               /\ "waiter" \notin Responders

Calls   == 1 .. NumCalls
Waiter  == "waiter"
Setters == Responders \cup {Waiter}    \* callers of set_runtime_permission_status

VARIABLES
    kind,       \* [Calls -> {"allow", "ask"}]: does the call need permission
    turnEnd,    \* calls that are the last of their model turn
    pc,         \* where the engine is; a wait is {"read", ..., "delete"}
    cur,        \* the call the engine is at
    verdict,    \* what the waiter is about to return
    held,       \* the waiter looked the session up before a stop popped it here
    late,       \* the waiter's deadline has passed
    outcome,    \* what became of each call
    asked,      \* calls whose permission_request event reached the client
    cut,        \* calls whose wait ended by the 600 s limit or an exception
    row,        \* runtime_permissions: status of the unexpired row, or "none"
    forever,    \* rows stored without an expiry
    stage,      \* Redis: how far a status update has come
    keep,       \* Redis: the TTL that a status update read was positive
    stopPc,     \* POST /agent/stop: "idle", "popped", "stored", "failed"
    event,      \* abort_event of the session object the run holds
    rowAborted, \* runtime_sessions.aborted
    stopAt,     \* history: the call the engine was at when the stop was stored
    rpc,        \* responder: "idle", "set", "done"
    target,     \* responder: the call it answers
    says,       \* responder: "approved" or "denied"
    reply       \* responder: what the HTTP response said

runVars   == <<kind, turnEnd>>
engVars   == <<pc, cur, verdict, held, late, outcome, asked, cut>>
rowVars == <<row, forever>>
setVars   == <<stage, keep>>
stopVars  == <<stopPc, event, rowAborted, stopAt>>
respVars  == <<rpc, target, says, reply>>
permissionVars      == <<runVars, engVars, rowVars, setVars, stopVars, respVars>>

Statuses == {"pending", "approved", "denied", "cancelled", "timeout"}
Awaiting  == {"read", "check", "cancel", "expire", "delete"}
TurnsOver    == {"done", "aborted", "gone"}

PermissionTypeOK ==
    /\ kind \in [Calls -> {"allow", "ask"}]
    /\ turnEnd \subseteq Calls
    /\ pc \in {"pick", "register", "announce", "tool", "report"} \cup Awaiting \cup TurnsOver
    /\ cur \in 1 .. NumCalls + 1
    /\ verdict \in BOOLEAN /\ held \in BOOLEAN /\ late \in BOOLEAN
    /\ outcome \in [Calls -> {"none", "executed", "refused"}]
    /\ asked \subseteq Calls /\ cut \subseteq Calls /\ forever \subseteq Calls
    /\ row \in [Calls -> Statuses \cup {"none"}]
    /\ stage \in [Setters -> {"load", "ttl", "store"}]
    /\ keep \in [Setters -> BOOLEAN]
    /\ stopPc \in {"idle", "popped", "stored", "failed"}
    /\ event \in BOOLEAN /\ rowAborted \in BOOLEAN
    /\ stopAt \in 0 .. NumCalls + 1
    /\ rpc \in [Responders -> {"idle", "set", "done"}]
    /\ target \in [Responders -> Calls \cup {0}]
    /\ says \in [Responders -> {"none", "approved", "denied"}]
    /\ reply \in [Responders -> {"none", "ok", "nopending", "error"}]

PermissionInit ==
    /\ kind \in [Calls -> {"allow", "ask"}]
    /\ turnEnd \in {T \in SUBSET Calls : NumCalls \in Calls => NumCalls \in T}
    /\ pc = "pick" /\ cur = 1
    /\ verdict = FALSE /\ held = FALSE /\ late = FALSE
    /\ outcome = [c \in Calls |-> "none"]
    /\ asked = {} /\ cut = {}
    /\ row = [c \in Calls |-> "none"] /\ forever = {}
    /\ stage = [s \in Setters |-> "load"] /\ keep = [s \in Setters |-> FALSE]
    /\ stopPc = "idle" /\ event = FALSE /\ rowAborted = FALSE /\ stopAt = 0
    /\ rpc = [r \in Responders |-> "idle"]
    /\ target = [r \in Responders |-> 0]
    /\ says = [r \in Responders |-> "none"]
    /\ reply = [r \in Responders |-> "none"]

-----------------------------------------------------------------------------
(* The store.                                                              *)

\* DELETE of a row, and a row that stops being visible: expires_at passed.
Erase(c) == /\ row' = [row EXCEPT ![c] = "none"]
            /\ forever' = forever \ {c}

\* set_runtime_permission_status(c, st) by s returns ok in this step.
SetReturns(s, c, st, ok) ==
    \/ /\ AtomicSet
       /\ ok = (row[c] # "none")
       /\ row' = IF ok THEN [row EXCEPT ![c] = st] ELSE row
       /\ UNCHANGED <<forever, setVars>>
    \/ /\ ~AtomicSet
       /\ stage[s] = "load" /\ row[c] = "none" /\ ~ok
       /\ UNCHANGED <<rowVars, setVars>>
    \/ /\ ~AtomicSet
       /\ stage[s] = "store" /\ ok
       /\ row' = [row EXCEPT ![c] = st]
       /\ forever' = IF keep[s] THEN forever \ {c} ELSE forever \cup {c}
       /\ stage' = [stage EXCEPT ![s] = "load"]
       /\ UNCHANGED keep

\* The awaits before the last one of a Redis status update.  A TTL of a row
\* that expires within the second is rounded to 0.
SetProgresses(s, c) ==
    /\ ~AtomicSet
    /\ \/ /\ stage[s] = "load" /\ row[c] # "none"
          /\ stage' = [stage EXCEPT ![s] = "ttl"]
          /\ UNCHANGED keep
       \/ /\ stage[s] = "ttl"
          /\ stage' = [stage EXCEPT ![s] = "store"]
          /\ \E k \in BOOLEAN : /\ k => row[c] # "none" /\ c \notin forever
                                /\ keep' = [keep EXCEPT ![s] = k]
    /\ UNCHANGED rowVars

Expire(c) == /\ row[c] # "none" /\ c \notin forever
             /\ Erase(c)
             /\ UNCHANGED <<runVars, engVars, setVars, stopVars, respVars>>

-----------------------------------------------------------------------------
(* The engine and, inside its await, the waiter.                           *)

Frame == UNCHANGED <<runVars, stopVars, respVars>>

\* The call ends: its result is appended and the loop goes on; after the last
\* call of the turn the results are yielded.
Settle(o) ==
    /\ outcome' = [outcome EXCEPT ![cur] = o]
    /\ IF cur \in turnEnd THEN pc' = "report" /\ UNCHANGED cur
                          ELSE pc' = "pick" /\ cur' = cur + 1

Pick ==
    /\ pc = "pick"
    /\ pc' = IF cur > NumCalls THEN "done"
             ELSE IF kind[cur] = "ask" THEN "register" ELSE "tool"
    /\ UNCHANGED <<cur, verdict, late, outcome, asked, cut, rowVars, setVars, held>>
    /\ Frame

\* on_permission_request; an exception in it is swallowed and leaves no row.
Register ==
    /\ pc = "register"
    /\ pc' = "announce"
    /\ \/ row' = [row EXCEPT ![cur] = "pending"] /\ forever' = forever \ {cur}
       \/ UNCHANGED rowVars
    /\ UNCHANGED <<cur, verdict, late, outcome, asked, cut, setVars, held>>
    /\ Frame

\* _is_session_aborted of the session object that the run holds.
RunSeesStop == event \/ rowAborted

\* Variant for a mutation check: without the abort check.
AnnounceUnchecked ==
    /\ pc = "announce"
    /\ pc' = "read" /\ asked' = asked \cup {cur} /\ late' = FALSE
    /\ UNCHANGED <<cur, verdict, outcome, cut, rowVars, setVars, held>>
    /\ Frame

\* run_agent takes the permission_request event: a stopped session ends here.
Announce ==
    /\ pc = "announce"
    /\ IF RunSeesStop
       THEN pc' = "aborted" /\ UNCHANGED <<asked, late>>
       ELSE pc' = "read" /\ asked' = asked \cup {cur} /\ late' = FALSE
    /\ UNCHANGED <<cur, verdict, outcome, cut, rowVars, setVars, held>>
    /\ Frame

\* Variant for a mutation check: any decision taken for an approval.
ReadRowNotDenied ==
    /\ pc = "read"
    /\ \/ /\ row[cur] = "none"
          /\ Settle("refused") /\ UNCHANGED <<verdict, held>>
       \/ /\ row[cur] \in Statuses \ {"pending"}
          /\ verdict' = TRUE
          /\ pc' = "delete" /\ UNCHANGED <<cur, outcome, held>>
       \/ /\ row[cur] = "pending"
          /\ pc' = "check" /\ held' = ~event
          /\ UNCHANGED <<cur, outcome, verdict>>
    /\ UNCHANGED <<late, asked, cut, rowVars, setVars>>
    /\ Frame

\* The waiter reads the row: no row, a decision, or still pending, and then
\* get_session_async finds the run's session object unless a stop popped it.
ReadRow ==
    /\ pc = "read"
    /\ \/ /\ row[cur] = "none"
          /\ Settle("refused") /\ UNCHANGED <<verdict, held>>
       \/ /\ row[cur] \in Statuses \ {"pending"}
          /\ verdict' = (row[cur] = "approved")
          /\ pc' = "delete" /\ UNCHANGED <<cur, outcome, held>>
       \/ /\ row[cur] = "pending"
          /\ pc' = "check" /\ held' = ~event
          /\ UNCHANGED <<cur, outcome, verdict>>
    /\ UNCHANGED <<late, asked, cut, rowVars, setVars>>
    /\ Frame

\* Variant for a mutation check: without the abort check.
CheckWithoutStop ==
    /\ pc = "check"
    /\ pc' = IF late THEN "expire" ELSE "read"
    /\ UNCHANGED <<cur, verdict, late, outcome, asked, cut, rowVars, setVars, held>>
    /\ Frame

\* Variant for a mutation check: without the deadline.
CheckWithoutDeadline ==
    /\ pc = "check"
    /\ pc' = IF rowAborted \/ (held /\ event) THEN "cancel" ELSE "read"
    /\ UNCHANGED <<cur, verdict, late, outcome, asked, cut, rowVars, setVars, held>>
    /\ Frame

\* The abort check, then the deadline check, then the (possibly empty) wait
\* for an event.  A waiter that no longer found the run's session object has
\* one rebuilt from the row: it sees a stop only once that is stored.
Check ==
    /\ pc = "check"
    /\ pc' = IF rowAborted \/ (held /\ event) THEN "cancel" ELSE IF late THEN "expire" ELSE "read"
    /\ UNCHANGED <<cur, verdict, late, outcome, asked, cut, rowVars, setVars, held>>
    /\ Frame

\* The waiter's own status update, "cancelled" or "timeout"; its result is ignored.
GiveUp ==
    /\ pc \in {"cancel", "expire"}
    /\ LET st == IF pc = "cancel" THEN "cancelled" ELSE "timeout" IN
       \/ /\ \E ok \in BOOLEAN : SetReturns(Waiter, cur, st, ok)
          /\ pc' = "delete" /\ verdict' = FALSE
       \/ /\ SetProgresses(Waiter, cur)
          /\ UNCHANGED <<pc, verdict>>
    /\ UNCHANGED <<cur, late, outcome, asked, cut, held>>
    /\ Frame

\* Variant for a mutation check: the row left behind.
DeleteNothing ==
    /\ pc = "delete"
    /\ IF verdict THEN pc' = "tool" /\ UNCHANGED <<cur, outcome>>
                  ELSE Settle("refused")
    /\ UNCHANGED <<verdict, late, asked, cut, setVars, rowVars, held>>
    /\ Frame

\* The waiter deletes the row and returns; the engine acts on the verdict.
Delete ==
    /\ pc = "delete"
    /\ Erase(cur)
    /\ IF verdict THEN pc' = "tool" /\ UNCHANGED <<cur, outcome>>
                  ELSE Settle("refused")
    /\ UNCHANGED <<verdict, late, asked, cut, setVars, held>>
    /\ Frame

\* Variant for a mutation check: approved when the wait fails.
CutApproves ==
    /\ pc \in Awaiting
    /\ Settle("executed")
    /\ cut' = cut \cup {cur}
    /\ stage' = [stage EXCEPT ![Waiter] = "load"]
    /\ UNCHANGED <<verdict, late, asked, rowVars, keep, held>>
    /\ Frame

\* wait_for's 600 s limit cancels the waiter at whatever await it is in, or the
\* waiter raised: the call counts as denied and the row stays as it is.
Cut ==
    /\ pc \in Awaiting
    /\ Settle("refused")
    /\ cut' = cut \cup {cur}
    /\ stage' = [stage EXCEPT ![Waiter] = "load"]
    /\ UNCHANGED <<verdict, late, asked, rowVars, keep, held>>
    /\ Frame

\* The call, started where pc became "tool", ends.
Tool ==
    /\ pc = "tool"
    /\ Settle("executed")
    /\ UNCHANGED <<verdict, late, asked, cut, rowVars, setVars, held>>
    /\ Frame

\* Variant for a mutation check: without the abort check.
ReportUnchecked ==
    /\ pc = "report"
    /\ pc' = "pick" /\ cur' = cur + 1
    /\ UNCHANGED <<verdict, late, outcome, asked, cut, rowVars, setVars, held>>
    /\ Frame

\* Variant for a mutation check: one call skipped.
ReportSkips ==
    /\ pc = "report"
    /\ IF RunSeesStop THEN pc' = "aborted" /\ UNCHANGED cur
                      ELSE pc' = "pick" /\ cur' = cur + 2
    /\ UNCHANGED <<verdict, late, outcome, asked, cut, rowVars, setVars, held>>
    /\ Frame

\* The turn's results and the next assistant event go through run_agent, which
\* ends a stopped run.
Report ==
    /\ pc = "report"
    /\ IF RunSeesStop THEN pc' = "aborted" /\ UNCHANGED cur
                      ELSE pc' = "pick" /\ cur' = cur + 1
    /\ UNCHANGED <<verdict, late, outcome, asked, cut, rowVars, setVars, held>>
    /\ Frame

\* PERMISSION_DECISION_TIMEOUT_SECONDS after the wait began.
DeadlinePasses ==
    /\ pc \in Awaiting /\ ~late
    /\ late' = TRUE
    /\ UNCHANGED <<pc, cur, verdict, outcome, asked, cut, rowVars, setVars, held>>
    /\ Frame

\* The client disconnects (the stream's task is cancelled), or the run dies of
\* an exception: the row of a wait in progress stays.
Disconnect ==
    /\ pc \notin TurnsOver
    /\ pc' = "gone"
    /\ UNCHANGED <<cur, verdict, late, outcome, asked, cut, rowVars, setVars, held>>
    /\ Frame

-----------------------------------------------------------------------------
(* POST /agent/stop/{id}: delete_session_async, possibly in another worker  *)
(* than the run's, where no session object is there to be signalled.       *)

StopPops ==
    /\ stopPc = "idle"
    /\ stopPc' = "popped"
    /\ event' \in BOOLEAN
    /\ UNCHANGED <<rowAborted, stopAt, runVars, engVars, rowVars, setVars, respVars>>

StopStores ==
    /\ stopPc = "popped"
    /\ stopPc' = "stored" /\ rowAborted' = TRUE /\ stopAt' = cur
    /\ UNCHANGED <<event, runVars, engVars, rowVars, setVars, respVars>>

StopFails ==
    /\ stopPc = "popped"
    /\ stopPc' = "failed"
    /\ UNCHANGED <<event, rowAborted, stopAt, runVars, engVars, rowVars, setVars, respVars>>

-----------------------------------------------------------------------------
(* POST /agent/permission: respond_to_permission_async.                    *)

\* The row is read; only a pending one is answered.
Respond(r) ==
    /\ rpc[r] = "idle"
    /\ \E c \in asked, v \in {"approved", "denied"} :
         /\ target' = [target EXCEPT ![r] = c]
         /\ says' = [says EXCEPT ![r] = v]
         /\ IF row[c] = "pending"
            THEN rpc' = [rpc EXCEPT ![r] = "set"] /\ UNCHANGED reply
            ELSE /\ rpc' = [rpc EXCEPT ![r] = "done"]
                 /\ reply' = [reply EXCEPT ![r] = "nopending"]
    /\ UNCHANGED <<runVars, engVars, rowVars, setVars, stopVars>>

\* The status update of an answer; with Redis, publishing the event can fail
\* after the update took effect.
RespondSets(r) ==
    /\ rpc[r] = "set"
    /\ \/ \E ok \in BOOLEAN :
            /\ SetReturns(r, target[r], says[r], ok)
            /\ rpc' = [rpc EXCEPT ![r] = "done"]
            /\ \E a \in IF ~ok THEN {"nopending"}
                        ELSE IF AtomicSet THEN {"ok"} ELSE {"ok", "error"} :
                 reply' = [reply EXCEPT ![r] = a]
       \/ /\ SetProgresses(r, target[r])
          /\ UNCHANGED <<rpc, reply>>
    /\ UNCHANGED <<target, says, runVars, engVars, stopVars>>

-----------------------------------------------------------------------------
\* What the event loop runs without anybody's help: the engine and its waiter.
Engine == \/ Pick \/ Register \/ Announce \/ ReadRow \/ Check \/ GiveUp
          \/ Delete \/ Tool \/ Report

PermissionNext == \/ Engine \/ Cut \/ DeadlinePasses \/ Disconnect
        \/ StopPops \/ StopStores \/ StopFails
        \/ \E c \in Calls : Expire(c)
        \/ \E r \in Responders : Respond(r) \/ RespondSets(r)

PermissionSpec == PermissionInit /\ [][PermissionNext]_permissionVars

\* The event loop keeps running the run's task.  Nothing is assumed of the
\* user, of the timers, or of the 600 s limit.
RunSpec == PermissionSpec /\ WF_permissionVars(Engine)

-----------------------------------------------------------------------------
(* Properties.                                                             *)

\* The answers whose status update took effect.
Wrote(r) == reply[r] \in {"ok", "error"}

\* Somebody's approval of call c was stored.
Approved(c) == \E r \in Responders : Wrote(r) /\ target[r] = c /\ says[r] = "approved"

\* A call that needed permission was executed only if somebody approved that
\* very call and the approval was stored: neither the deadline, the stop, a
\* lost row nor an answer to another call lets a tool run
\* (engine.py:640-661, agent_service.py:280-341).
OnlyApprovedCallsRun ==
    \A c \in Calls : kind[c] = "ask" /\ outcome[c] = "executed" => Approved(c)

\* Once a call is settled its row is gone, so that a late answer is told "No
\* pending permission found" -- unless the wait was cut off.  This is where an
\* update that could create the row would go wrong (agent_service.py:287-311,
\* 326-341); true of SQLite's conditional UPDATE.
SettledCallHasNoRow ==
    \A c \in Calls : outcome[c] # "none" /\ c \notin cut => row[c] = "none"

\* A tool that starts after the stop was stored belongs to the turn that was
\* running then: no stopped session begins another turn (agent_service.py:1334).
StopEndsWithTurn ==
    \A c \in Calls : rowAborted /\ outcome[c] = "executed" =>
        \A d \in turnEnd : ~(stopAt <= d /\ d < c)

\* No permission prompt reaches the client of a stopped session.
NoPromptAfterStop == [][rowAborted => asked' = asked]_permissionVars

\* Nobody has to answer: once the waiter's own deadline has passed the call is
\* settled, whatever the answers and the row's expiry do meanwhile.
DeadlineSettles ==
    \A c \in Calls : (cur = c /\ pc \in Awaiting /\ late)
                        ~> (outcome[c] # "none" \/ pc = "gone")

\* A stored stop ends the run even if nobody answers and no deadline comes.
StopEndsRun == (stopPc = "stored") ~> (pc \in TurnsOver)

\* What the route says: "Permission response received" is the answer while the
\* permission is pending, "No pending permission found" once it is not
\* (api/agent.py:362-365).
AckOnlyWhilePending ==
    [][\A r \in Responders : reply[r] = "none" /\ reply'[r] = "ok" =>
           outcome[target[r]] = "none"]_permissionVars

\* What the stop route promises, {"status": "stopped"}: once it has answered, no
\* call starts but the one that the engine was at (api/agent.py:373).
NoToolAfterStop ==
    [][stopPc = "stored" /\ pc # "tool" /\ pc' = "tool" => cur = stopAt]_permissionVars

\* The answers on record for call c.
Cast(c) == {says[r] : r \in {q \in Responders : Wrote(q) /\ target[q] = c}}

\* The abstract specification: an answer counts when its update took effect.
A == INSTANCE Approval WITH
       needs <- [c \in Calls |-> kind[c] = "ask"],
       votes <- [c \in Calls |-> Cast(c)]

\* The protocol implements Approval: with all its races no call is settled
\* twice, out of order, or executed without its approval.
ImplementsApproval == A!Spec
=============================================================================
