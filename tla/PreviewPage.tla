---------------------------- MODULE PreviewPage ----------------------------
(***************************************************************************)
(* The hook that asks for a live preview and follows it                    *)
(* (useVitePreview.ts), on a task page that goes from task to task without *)
(* being mounted again (TaskDetail.tsx).  Of the preview manager           *)
(* (NodePreview) it sees a status for each task.                           *)
(***************************************************************************)
EXTENDS Naturals, FiniteSets

CONSTANTS
    PageTasks,          \* tasks
    MaxClicks           \* bound: what the user does on the page

ASSUME PageAssumption == MaxClicks \in Nat

VARIABLES
    server,         \* the manager's status: task -> status
    pageTask,       \* taskIdRef of the page
    shows,          \* the page's status, and whether a start or a look gave it
    poll,           \* intervals polling: the one pollIntervalRef has, and one it lost
    requests,       \* requests under way: set of [kind, task, n, here, answer], here: of this page
    clicks          \* what the user did so far

pageVars == <<server, pageTask, shows, poll, requests, clicks>>

ServerStatuses == {"starting", "running", "stopped", "error"}

PageTypeOK ==
    /\ server \in [PageTasks -> ServerStatuses]
    /\ pageTask \in PageTasks
    /\ shows \in ({"idle"} \cup ServerStatuses) \X {"start", "look"}
    /\ poll \in [ref : BOOLEAN, lost : BOOLEAN]
    /\ \A c \in requests :
         /\ c.kind \in {"start", "stop", "status"} /\ c.task \in PageTasks /\ c.n \in 0 .. MaxClicks
         /\ c.here \in BOOLEAN /\ c.answer \in {"none"} \cup ServerStatuses
    /\ clicks \in 0 .. MaxClicks

Asked(kind, t, n) == [kind |-> kind, task |-> t, n |-> n, here |-> TRUE, answer |-> "none"]

\* The hook's first look.
PageInit ==
    /\ server = [t \in PageTasks |-> "stopped"]
    /\ pageTask \in PageTasks /\ shows = <<"idle", "start">>
    /\ poll = [ref |-> FALSE, lost |-> FALSE]
    /\ requests = {Asked("status", pageTask, 0)} /\ clicks = 0

-----------------------------------------------------------------------------
(* The server.                                                             *)

\* A server is up or fails; one that is up ends, and an entry that failed is
\* removed.
ServerMoves ==
    /\ \E t \in PageTasks, s \in {"running", "error", "stopped"} :
         /\ server[t] = "starting" \/ (server[t] \in {"running", "error"} /\ s = "stopped")
         /\ server' = [server EXCEPT ![t] = s]
    /\ UNCHANGED <<pageTask, shows, poll, requests, clicks>>

\* What the manager makes of a request, and its answer.  A start that is
\* refused leaves the entry as it is.
Outcomes(c) ==
    CASE c.kind = "stop" -> {<<"stopped", "stopped">>}
      [] c.kind = "status" -> {<<server[c.task], server[c.task]>>}
      [] OTHER -> IF server[c.task] = "running" THEN {<<"running", "running">>}
                  ELSE {<<"starting", "starting">>, <<server[c.task], "error">>}

Serve ==
    /\ \E c \in requests : c.answer = "none" /\ \E o \in Outcomes(c) :
         /\ server' = [server EXCEPT ![c.task] = o[1]]
         /\ requests' = (requests \ {c}) \cup {[c EXCEPT !.answer = o[2]]}
    /\ UNCHANGED <<pageTask, shows, poll, clicks>>

-----------------------------------------------------------------------------
(* The user.                                                               *)

Click == clicks < MaxClicks /\ clicks' = clicks + 1

\* startPreview: the page shows "starting" from here on.
StartPreview ==
    /\ Click
    /\ requests' = requests \cup {Asked("start", pageTask, clicks')}
    /\ shows' = <<"starting", "start">> /\ poll' = [poll EXCEPT !.ref = FALSE]
    /\ UNCHANGED <<pageTask, server>>

\* stopPreview: nothing is shown before the answer.
StopPreview ==
    /\ Click
    /\ requests' = requests \cup {Asked("stop", pageTask, clicks')}
    /\ poll' = [poll EXCEPT !.ref = FALSE]
    /\ UNCHANGED <<pageTask, shows, server>>

\* Another task's page: the hook's effects come first, so that the look and
\* TaskDetail's stop are both for the new task.
ChangeTask ==
    /\ Click
    /\ \E t \in PageTasks \ {pageTask} :
         /\ pageTask' = t
         /\ requests' = requests \cup {Asked("status", t, clicks'), Asked("stop", t, clicks')}
    /\ poll' = [poll EXCEPT !.ref = FALSE]
    /\ UNCHANGED <<shows, server>>

\* The page is left and opened again: an interval that the hook lost goes on,
\* and what the old page asked is still answered.
Remount ==
    /\ Click
    /\ pageTask' \in PageTasks
    /\ requests' = {[c EXCEPT !.here = FALSE] : c \in {d \in requests : d.kind # "status"}} \cup {Asked("status", pageTask', clicks')}
    /\ shows' = <<"idle", "start">> /\ poll' = [poll EXCEPT !.ref = FALSE]
    /\ UNCHANGED server

-----------------------------------------------------------------------------
(* Intervals and answers.                                                  *)

PollTicks ==
    /\ poll.ref \/ poll.lost
    /\ Asked("status", pageTask, 0) \notin requests
    /\ requests' = requests \cup {Asked("status", pageTask, 0)}
    /\ UNCHANGED <<pageTask, shows, poll, clicks, server>>

\* Variant for a mutation check: a start's answer is shown and nothing asked again.
NotPolled(p) == p

\* A start's answer "starting" has the hook poll; an interval that another
\* start left is no longer known, and never cleared.
Polled(p) == [ref |-> TRUE, lost |-> p.lost \/ p.ref]

\* updateStateFromResponse, for the task the page has by now.
ShowAnswer(c) ==
    /\ shows' = <<IF c.answer = "stopped" THEN "idle" ELSE c.answer, IF c.kind = "start" THEN "start" ELSE "look">>
    /\ LET kept == [poll EXCEPT !.ref = @ /\ c.answer = "starting"] IN
         poll' = IF c.kind = "start" /\ c.answer = "starting" THEN Polled(kept) ELSE kept

ShowStopped == shows' = <<"idle", "start">> /\ UNCHANGED poll

\* The old page shows nothing any more, but polls.
OldHears(c) ==
    /\ UNCHANGED shows
    /\ poll' = [poll EXCEPT !.lost = @ \/ (c.kind = "start" /\ c.answer = "starting")]

Hears == /\ \E c \in requests :
              /\ c.answer # "none" /\ requests' = requests \ {c}
              /\ IF ~c.here THEN OldHears(c) ELSE IF c.kind = "stop" THEN ShowStopped ELSE ShowAnswer(c)
         /\ UNCHANGED <<pageTask, clicks, server>>

\* A request or its answer is lost: a look's is only logged.
CallFails ==
    /\ \E c \in requests :
         /\ requests' = requests \ {c}
         /\ shows' = IF c.kind = "status" \/ ~c.here THEN shows ELSE <<"error", "start">>
    /\ UNCHANGED <<pageTask, poll, clicks, server>>

PageNext == ServerMoves \/ Serve \/ StartPreview \/ StopPreview \/ ChangeTask \/ Remount \/ PollTicks \/ Hears \/ CallFails

PageSpec == PageInit /\ [][PageNext]_pageVars
-----------------------------------------------------------------------------
\* A page that shows a preview starting, because it was asked to start one, is
\* told when that is over: a start or stop is under way, or an interval polls.
StartsAreFollowed ==
    shows = <<"starting", "start">> => poll.ref \/ poll.lost \/ \E c \in requests : c.here /\ c.kind \in {"start", "stop"}
=============================================================================
