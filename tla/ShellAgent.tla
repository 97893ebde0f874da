----------------------------- MODULE ShellAgent -----------------------------
(***************************************************************************)
(* The shell's agent hook (useAgent.ts), the registry of background runs   *)
(* (background-tasks.ts) and the page that drives both (TaskDetail.tsx).   *)
(*                                                                         *)
(* A run is one request to the agent service and its event stream.  It     *)
(* belongs to the instance of the hook that started it and outlives it:    *)
(* leaving a page hands the run's AbortController to the registry, coming  *)
(* back takes it over again.  Everything between two awaits is one step;   *)
(* in between, the user navigates, other streams deliver and timers fire.  *)
(* A view is the state and the refs of one instance of the hook; the refs  *)
(* that mirror state (taskIdRef, isRunningRef) are that state.             *)
(***************************************************************************)
EXTENDS Naturals, FiniteSets

CONSTANTS Tasks, NoTask,
          MaxRuns,      \* how many requests are made to the service
          MaxOpens,     \* how many times the user opens a task
          MaxViews      \* how many times the page is mounted

ASSUME ShellAgentAssumption == /\ NoTask \notin Tasks
                               /\ MaxRuns \in Nat /\ MaxOpens \in Nat
                               /\ MaxViews \in Nat \ {0}

Runs  == 1..MaxRuns
NoRun == 0

VARIABLES
    view,      \* [1..MaxViews -> state of that instance of the hook]
    current,   \* the mounted instance
    loads,     \* [1..MaxOpens -> progress of initialize() for one opening]
    opened,    \* openings so far
    run,       \* [Runs -> the request and its stream]
    bg,        \* backgroundTasks: [Tasks -> the entry's run and isRunning]
    removals,  \* [Tasks -> delayed removeBackgroundTask calls outstanding]
    status,    \* tasks table: status, "none" without a row
    planned,   \* tasks whose last stored plan message has pending steps
    calm       \* history: the user and the polls have waited for what is under way

storeVars == <<status, planned>>
bgVars    == <<bg, removals>>
pageVars  == <<view, current, loads, opened>>
vars      == <<pageVars, run, bgVars, storeVars, calm>>

NoPlan   == [of |-> NoTask, steps |-> "none"]
NoPoll   == [task |-> NoTask, tick |-> NoTask, still |-> FALSE]
Blank    == [task |-> NoTask, active |-> NoTask, running |-> FALSE, phase |-> "idle",
             plan |-> NoPlan, perm |-> FALSE, ctl |-> NoRun,
             shown |-> {}, poll |-> NoPoll, stopping |-> NoTask]
NoLoad   == [view |-> 1, task |-> NoTask, pc |-> "none", was |-> NoRun, final |-> FALSE]
NoEntry  == [run |-> NoRun, running |-> FALSE]
Final    == {"completed", "error", "stopped"}
(* What a run asks the service for: a plan, the execution of one, an answer  *)
(* to a first prompt with images or to a reply, or a fast chat for either.   *)
Kinds    == {"plan", "exec", "image", "talk", "chat", "quick"}

ViewType == [task : Tasks \cup {NoTask}, active : Tasks \cup {NoTask}, running : BOOLEAN,
             phase : {"idle", "planning", "awaiting_approval", "executing"},
             plan : [of : Tasks \cup {NoTask}, steps : {"none", "pending", "moving", "done"}],
             perm : BOOLEAN,
             ctl : Runs \cup {NoRun}, shown : SUBSET Tasks,
             poll : [task : Tasks \cup {NoTask}, tick : Tasks \cup {NoTask}, still : BOOLEAN],
             stopping : Tasks \cup {NoTask}]

TypeOK ==
    /\ view \in [1..MaxViews -> ViewType]
    /\ current \in 1..MaxViews
    /\ opened \in 0..MaxOpens
    /\ loads \in [1..MaxOpens -> [view : 1..MaxViews, task : Tasks \cup {NoTask},
                                  pc : {"none", "meta", "status", "rows", "over"},
                                  was : Runs \cup {NoRun}, final : BOOLEAN]]
    /\ run \in [Runs -> [task : Tasks \cup {NoTask}, kind : Kinds, view : 1..MaxViews,
                         pc : {"none", "early", "claimed", "open", "closing", "reload", "over"},
                         aborted : BOOLEAN]]
    /\ bg \in [Tasks -> [run : Runs \cup {NoRun}, running : BOOLEAN]]
    /\ removals \in [Tasks -> Nat]
    /\ status \in [Tasks -> {"none", "running"} \cup Final]
    /\ planned \subseteq Tasks /\ calm \in BOOLEAN

NoRequest == [task |-> NoTask, kind |-> "plan", view |-> 1, pc |-> "none", aborted |-> FALSE]
Over(r)   == [NoRequest EXCEPT !.pc = "over", !.aborted = run[r].aborted]

Init ==
    /\ view = [i \in 1..MaxViews |-> Blank]
    /\ current = 1 /\ opened = 0
    /\ loads = [n \in 1..MaxOpens |-> NoLoad]
    /\ run = [r \in Runs |-> NoRequest]
    /\ bg = [t \in Tasks |-> NoEntry]
    /\ removals = [t \in Tasks |-> 0]
    /\ status \in [Tasks -> {"none", "completed"}]
    /\ planned = {} /\ calm = TRUE

\* Runs are numbered in the order of their requests.
Unused(r) == run[r].pc = "none" /\ \A q \in Runs : q < r => run[q].pc # "none"

Live(r)     == run[r].pc \in {"early", "claimed", "open"} /\ ~run[r].aborted
Own(r)      == view[run[r].view]
IsActive(r) == Own(r).active = run[r].task

\* What is left of a view after its page is unmounted.  A setState does nothing
\* then, so taskIdRef keeps its value; isRunningRef is also set directly, to TRUE.
Refs(v) == [Blank EXCEPT !.task = v.task, !.active = v.active, !.running = v.running,
                         !.ctl = v.ctl, !.poll = v.poll, !.stopping = v.stopping]
Kept(i, v) == Refs([v EXCEPT !.task = view[i].task, !.running = view[i].running \/ @])
SetView(i, v) == view' = [view EXCEPT ![i] = IF i = current THEN v ELSE Kept(i, v)]

Show(r, v)         == SetView(run[r].view, v)
ShowAnyway(r, v)   == Show(r, v)         \* mutant: the isActive guard is missing
ShowIfActive(r, v) == IF IsActive(r) THEN Show(r, v) ELSE UNCHANGED view

Appended(r)        == [Own(r) EXCEPT !.shown = @ \cup {run[r].task}]
Goto(r, where)     == run' = [run EXCEPT ![r] = IF where = "over" THEN Over(r)
                                               ELSE [@ EXCEPT !.pc = where]]
SetStatus(t, s)    == status' = IF status[t] = "none" THEN status
                                ELSE [status EXCEPT ![t] = s]

-----------------------------------------------------------------------------
(* Switching tasks.                                                        *)

\* mutant: asks for the phase instead of isRunning
MovableExecuting(v) == v.ctl # NoRun /\ v.task # NoTask /\ v.phase = "executing"

\* The run that loadTask and the unmount hand over to the registry.
Movable(v) == v.ctl # NoRun /\ v.task # NoTask /\ v.running

\* addBackgroundTask replaces whatever entry the task has.
Parked(b, v) == [b EXCEPT ![v.task] = [run |-> v.ctl, running |-> TRUE]]

\* The task in the page's address.  A new task is only opened from the home
\* page, once, with the prompt it starts with.
Route == IF opened > 0 /\ loads[opened].view = current THEN loads[opened].task ELSE NoTask

Loading(i) == {n \in 1..opened : loads[n].view = i /\ loads[n].pc \notin {"none", "over"}}

\* Runs that have no controller yet: nothing can stop or keep them.
Unarmed(i) == {r \in Runs : run[r].pc \in {"early", "claimed"} /\ run[r].view = i}

\* Nothing is under way in the view: no load, no request without a controller
\* or on its way out, no stop, and no delayed removal of the task's entry.
Settled == /\ Loading(current) = {} /\ Unarmed(current) = {}
           /\ \A r \in Runs : run[r].view = current
                  => /\ run[r].pc # "closing"
                     /\ run[r].pc = "open" => ~run[r].aborted
           /\ view[current].stopping = NoTask
           /\ view[current].task # NoTask => removals[view[current].task] = 0

UserActs == calm' = (calm /\ Settled)

\* A new request, while the one before it still holds the controller.
UserAsks == calm' = (calm /\ Settled /\ view[current].ctl = NoRun)

\* A poll or a stop calls view i idle while the run it holds goes on, or one
\* is about to begin.
CalledIdle(i) == calm' = (calm /\ Unarmed(i) = {}
                               /\ ~\E r \in Runs : r = view[i].ctl /\ Live(r))

\* loadTask(t) up to its await, in view i whose state is v and with registry b:
\* a run of another task is parked, the poll ends, and t is the active task.
Parks(v, t) == Movable(v) /\ v.task # t

LoadTask(i, v, t, b) ==
    /\ SetView(i, [(IF Parks(v, t) THEN [v EXCEPT !.ctl = NoRun, !.shown = {},
                                                  !.perm = FALSE, !.plan = NoPlan]
                                   ELSE v)
                   EXCEPT !.poll.task = NoTask, !.active = t])
    /\ bg' = IF Parks(v, t) THEN Parked(b, v) ELSE b

\* The route has changed to t: initialize() starts.
Open(t) ==
    /\ opened < MaxOpens
    /\ t # Route
    /\ status[t] = "none" => Route = NoTask /\ \A n \in 1..opened : loads[n].task # t
    /\ LoadTask(current, view[current], t, bg)
    /\ opened' = opened + 1
    /\ loads' = [loads EXCEPT ![opened + 1] =
                    [view |-> current, task |-> t, pc |-> "meta", was |-> NoRun, final |-> FALSE]]
    /\ UserActs
    /\ UNCHANGED <<current, run, removals, storeVars>>

\* The page unmounts (the user goes home) and is mounted again later.
Leave ==
    /\ current < MaxViews
    /\ view[current].task # NoTask \/ Loading(current) # {}
    /\ current' = current + 1
    /\ view' = [view EXCEPT ![current] = [Refs(@) EXCEPT !.poll.task = NoTask]]
    /\ bg' = IF Movable(view[current]) THEN Parked(bg, view[current]) ELSE bg
    /\ UserActs
    /\ UNCHANGED <<loads, opened, run, removals, storeVars>>

\* getTask returns a row: loadMessages starts and looks into the registry
\* before its first await.
LoadFound(n) ==
    /\ loads[n].pc = "meta"
    /\ LET t == loads[n].task
       IN /\ status[t] # "none"
          /\ loads' = [loads EXCEPT ![n].pc = "status",
                                    ![n].was = IF bg[t].running THEN bg[t].run ELSE NoRun]
    /\ UNCHANGED <<view, current, opened, run, bgVars, storeVars, calm>>

\* What runAgent asks the service for: a fast chat, an answer with images, a plan.
FirstKinds == {"chat", "image", "plan"}

\* getTask returns no row: initialize calls runAgent, up to its first await.
LoadMissing(n, r, k) ==
    /\ loads[n].pc = "meta" /\ Unused(r)
    /\ status[loads[n].task] = "none"
    /\ k \in FirstKinds
    /\ loads' = [loads EXCEPT ![n] = [@ EXCEPT !.pc = "over", !.was = NoRun, !.final = FALSE]]
    /\ run' = [run EXCEPT ![r] = [task |-> loads[n].task, kind |-> k, view |-> loads[n].view,
                                  pc |-> "early", aborted |-> FALSE]]
    /\ SetView(loads[n].view, [view[loads[n].view] EXCEPT !.running = TRUE, !.shown = {},
                                           !.phase = "planning", !.plan = NoPlan])
    /\ UNCHANGED <<current, opened, bgVars, storeVars, calm>>

\* loadMessages after getTask is about to read the messages of the task, which
\* is active from here on whatever was opened in between.
Continues(n, v) ==
    /\ SetView(loads[n].view, [v EXCEPT !.active = loads[n].task])
    /\ loads' = [loads EXCEPT ![n].pc = "rows",
                              ![n].final = status[loads[n].task] \in {"completed", "stopped"}]
    /\ UNCHANGED <<current, opened, run, storeVars, calm>>

\* No background run of the task was seen: the view becomes idle.
StaysIdle(n) ==
    /\ loads[n].pc = "status" /\ loads[n].was = NoRun
    /\ Continues(n, [view[loads[n].view] EXCEPT !.running = FALSE, !.phase = "idle",
                                                !.ctl = NoRun, !.poll.task = NoTask])
    /\ UNCHANGED bgVars

\* The background run has been aborted since.
FindsAborted(n) ==
    /\ loads[n].pc = "status" /\ loads[n].was # NoRun /\ run[loads[n].was].aborted
    /\ Continues(n, [view[loads[n].view] EXCEPT !.running = FALSE, !.phase = "idle",
                                                !.ctl = NoRun])
    /\ bg' = [bg EXCEPT ![loads[n].task] = NoEntry]
    /\ UNCHANGED removals

\* The background run is taken over: its entry is removed later, and a poll
\* watches the task.
Restores(n) ==
    /\ loads[n].pc = "status" /\ loads[n].was # NoRun /\ ~run[loads[n].was].aborted
    /\ Continues(n, [view[loads[n].view] EXCEPT !.running = TRUE, !.phase = "executing",
                                                !.ctl = loads[n].was,
                                                !.poll.task = loads[n].task])
    /\ removals' = [removals EXCEPT ![loads[n].task] = @ + 1]
    /\ UNCHANGED bg

\* A plan that still waits for its approval.
Waits(l) == l.was = NoRun /\ l.task \in planned /\ ~l.final

\* loadMessages after getMessagesByTaskId: messages, task and a waiting plan.
LoadRows(n) ==
    /\ loads[n].pc = "rows"
    /\ LET l == loads[n]
           v == [view[l.view] EXCEPT !.shown = {l.task}, !.task = l.task]
       IN SetView(l.view, IF Waits(l)
                          THEN [v EXCEPT !.plan = [of |-> l.task, steps |-> "pending"],
                                         !.phase = "awaiting_approval"]
                          ELSE v)
    /\ loads' = [loads EXCEPT ![n] = [@ EXCEPT !.pc = "over", !.was = NoRun, !.final = FALSE]]
    /\ UNCHANGED <<current, opened, run, bgVars, storeVars, calm>>

\* mutant: a removal that was not asked for
RemoveAnyTime(t) ==
    /\ removals' = [removals EXCEPT ![t] = @ - 1]
    /\ bg' = [bg EXCEPT ![t] = NoEntry]
    /\ UNCHANGED <<pageVars, run, storeVars, calm>>

\* A delayed removeBackgroundTask: 50 ms after a takeover, 1 s after "done".
RemoveLater(t) ==
    /\ removals[t] > 0
    /\ removals' = [removals EXCEPT ![t] = @ - 1]
    /\ bg' = [bg EXCEPT ![t] = NoEntry]
    /\ UNCHANGED <<pageVars, run, storeVars, calm>>

-----------------------------------------------------------------------------
(* A run and its stream.                                                   *)

\* runAgent after getAppDataDir: the task and the active task are set.
Claim(r) ==
    /\ run[r].pc = "early"
    /\ Goto(r, "claimed")
    /\ Show(r, [Own(r) EXCEPT !.task = run[r].task, !.active = run[r].task])
    /\ UNCHANGED <<current, loads, opened, bgVars, storeVars, calm>>

\* The last database call before the request returns: the controller is set.
\* A first prompt creates the task's row, if there is none.
ArmFirst(r) ==
    /\ run[r].pc = "claimed" /\ run[r].kind \in FirstKinds
    /\ Goto(r, "open")
    /\ status' = IF status[run[r].task] = "none" THEN [status EXCEPT ![run[r].task] = "running"]
                                                 ELSE status
    /\ Show(r, IF run[r].kind = "plan" THEN [Own(r) EXCEPT !.ctl = r]
                                       ELSE [Own(r) EXCEPT !.ctl = r, !.phase = "executing"])
    /\ UNCHANGED <<current, loads, opened, bgVars, planned, calm>>

\* approvePlan has stored the plan once more.
ArmExec(r) ==
    /\ run[r].pc = "claimed" /\ run[r].kind = "exec"
    /\ Goto(r, "open")
    /\ planned' = planned \cup {run[r].task}
    /\ Show(r, [Own(r) EXCEPT !.ctl = r])
    /\ UNCHANGED <<current, loads, opened, bgVars, status, calm>>

\* continueConversation has stored the message; the view runs only now.
ArmReply(r) ==
    /\ run[r].pc = "claimed" /\ run[r].kind \in {"talk", "quick"}
    /\ Goto(r, "open")
    /\ Show(r, [Own(r) EXCEPT !.ctl = r, !.running = TRUE,
                              !.phase = IF run[r].kind = "quick" THEN "executing" ELSE @])
    /\ UNCHANGED <<current, loads, opened, bgVars, storeVars, calm>>

At(r, kinds) == run[r].pc = "open" /\ ~run[r].aborted /\ run[r].kind \in kinds

\* The streams that processStream reads, that runAgent reads for its plan, and
\* those of a fast chat.
Streaming(r) == At(r, {"exec", "image", "talk"})
Planning(r)  == At(r, {"plan"})
Chatting(r)  == At(r, {"chat", "quick"})

\* finally: a run whose task is not the active one leaves the view alone.
Released(r, v) == IF IsActive(r) THEN [v EXCEPT !.running = FALSE, !.ctl = NoRun] ELSE v

\* After an execution the task is stored as completed, whatever happened.
Executed(r)    == IsActive(r) /\ run[r].kind = "exec"
Ended(r, v)    == IF Executed(r) THEN [Released(r, v) EXCEPT !.phase = "idle", !.plan = NoPlan]
                  ELSE Released(r, v)
Outcome(r)     == IF Executed(r) THEN SetStatus(run[r].task, "completed") ELSE UNCHANGED status

\* The end of a run, with v the view before its finally and registry b.  initialize calls
\* loadTask again when runAgent returns: for the task the page was opened with,
\* whatever task the hook is at by now.
EndOf(r) == IF Executed(r) THEN "reload" ELSE "over"

LoadsAgain(r, v, b) ==
    /\ LoadTask(run[r].view, Released(r, v), run[r].task, b)
    /\ calm' = (calm /\ ~Parks(Released(r, v), run[r].task)
                     /\ (run[r].view = current => IsActive(r)))
    /\ UNCHANGED status

Finish(r, v, b) ==
    IF run[r].kind \in FirstKinds THEN LoadsAgain(r, v, b)
    ELSE Show(r, Ended(r, v)) /\ Outcome(r) /\ bg' = b /\ UNCHANGED calm

\* "done", the last event, settles the registry's entry of the task whatever
\* is on screen.
EntryDone(t) == [bg EXCEPT ![t].running = FALSE]

OnDone(r) ==
    /\ Streaming(r)
    /\ removals' = IF bg[run[r].task] = NoEntry THEN removals
                    ELSE [removals EXCEPT ![run[r].task] = @ + 1]
    /\ LET v == [Own(r) EXCEPT !.perm = FALSE]
       IN Finish(r, IF ~IsActive(r) THEN Own(r)
                    ELSE IF v.plan = NoPlan THEN v ELSE [v EXCEPT !.plan.steps = "done"],
                 EntryDone(run[r].task))
    /\ Goto(r, EndOf(r))
    /\ UNCHANGED <<current, loads, opened, planned>>

\* A permission request is shown for the active task; for any other it is
\* neither shown nor stored.
OnPermission(r) ==
    /\ Streaming(r)
    /\ ShowIfActive(r, [Appended(r) EXCEPT !.perm = TRUE])
    /\ UNCHANGED <<current, loads, opened, run, bgVars, storeVars, calm>>

\* Text, or a tool call: shown if the task is active, and stored.
OnText(r) ==
    /\ Streaming(r)
    /\ ShowIfActive(r, Appended(r))
    /\ UNCHANGED <<current, loads, opened, run, bgVars, storeVars, calm>>

\* Text of a planning stream; its error ends the phase.
OnPlanText(r, p) ==
    /\ Planning(r) /\ p \in {Own(r).phase, "idle"}
    /\ ShowIfActive(r, [Appended(r) EXCEPT !.phase = p])
    /\ UNCHANGED <<current, loads, opened, run, bgVars, storeVars, calm>>

\* Text of a fast chat; its error or its "done" ends the phase.
OnChatText(r, p) ==
    /\ Chatting(r) /\ p \in {Own(r).phase, "idle"}
    /\ ShowIfActive(r, [Appended(r) EXCEPT !.phase = p])
    /\ UNCHANGED <<current, loads, opened, run, bgVars, storeVars, calm>>

\* AskUserQuestion in the active task: the run on the controller is aborted,
\* the stream is left and its tool_use is not stored.
OnQuestion(r) ==
    /\ Streaming(r) /\ IsActive(r)
    /\ Finish(r, Appended(r), bg)
    /\ run' = [q \in Runs |-> LET now == [run[q] EXCEPT !.aborted = @ \/ q = Own(r).ctl]
                              IN IF q # r THEN now
                                 ELSE IF EndOf(r) = "over" THEN [Over(r) EXCEPT !.aborted = now.aborted]
                                 ELSE [now EXCEPT !.pc = EndOf(r)]]
    /\ UNCHANGED <<current, loads, opened, removals, planned>>

\* The progress of the plan on screen moves for every stream's results.
OnToolResult(r) ==
    /\ Streaming(r)
    /\ LET v == IF IsActive(r) THEN Appended(r) ELSE Own(r)
       IN Show(r, IF v.plan = NoPlan THEN v ELSE [v EXCEPT !.plan.steps = "moving"])
    /\ UNCHANGED <<current, loads, opened, run, bgVars, storeVars, calm>>

\* updateTaskFromMessage: a result that hit the turn limit leaves the task running.
OutcomeStatus(t, s) == IF s = "running" THEN UNCHANGED status ELSE SetStatus(t, s)

\* "result" and "error" messages: createMessage, updateTaskFromMessage.
OnOutcome(r, s) ==
    /\ Streaming(r)
    /\ ShowIfActive(r, Appended(r))
    /\ OutcomeStatus(run[r].task, s)
    /\ UNCHANGED <<current, loads, opened, run, bgVars, planned, calm>>

\* The planning stream answers with a plan, or directly.
OnPlan(r) ==
    /\ Planning(r)
    /\ ShowIfActive(r, [Appended(r) EXCEPT !.plan = [of |-> run[r].task, steps |-> "pending"],
                                           !.phase = "awaiting_approval"])
    /\ planned' = planned \cup {run[r].task}
    /\ UNCHANGED <<current, loads, opened, run, bgVars, status, calm>>

OnAnswer(r) ==
    /\ Planning(r)
    /\ ShowIfActive(r, [Appended(r) EXCEPT !.plan = NoPlan, !.phase = "idle"])
    /\ SetStatus(run[r].task, "completed")
    /\ UNCHANGED <<current, loads, opened, run, bgVars, planned, calm>>

\* The stream ends without "done".
StreamEnds(r) ==
    /\ Streaming(r) \/ Planning(r)
    /\ Finish(r, Own(r), bg) /\ Goto(r, EndOf(r))
    /\ UNCHANGED <<current, loads, opened, removals, planned>>

\* A fast chat that opened its task completes it; one that answers a reply is
\* only stored.
ChatEnds(r) ==
    /\ Chatting(r) /\ run[r].kind = "chat"
    /\ Goto(r, "closing")
    /\ SetStatus(run[r].task, "completed")
    /\ UNCHANGED <<pageVars, bgVars, planned, calm>>

QuickEnds(r) ==
    /\ Chatting(r) /\ run[r].kind = "quick"
    /\ Goto(r, "closing")
    /\ UNCHANGED <<pageVars, bgVars, storeVars, calm>>

\* The request fails, or the stream breaks: catch, with an error stored.
Fails(r, kinds, v) ==
    /\ At(r, kinds)
    /\ Goto(r, "closing")
    /\ ShowIfActive(r, v)
    /\ SetStatus(run[r].task, "error")
    /\ UNCHANGED <<current, loads, opened, bgVars, planned, calm>>

FirstFails(r) == Fails(r, FirstKinds, [Appended(r) EXCEPT !.phase = "idle"])
ExecFails(r)  == Fails(r, {"exec"}, Appended(r))
ReplyFails(r) == Fails(r, {"talk", "quick"}, Appended(r))

\* An aborted request throws AbortError, which the catch ignores.
AbortSeen(r) ==
    /\ run[r].pc = "open" /\ run[r].aborted
    /\ Finish(r, Own(r), bg) /\ Goto(r, EndOf(r))
    /\ UNCHANGED <<current, loads, opened, removals, planned>>

Finally(r) ==
    /\ run[r].pc = "closing"
    /\ Finish(r, Own(r), bg) /\ Goto(r, EndOf(r))
    /\ UNCHANGED <<current, loads, opened, removals, planned>>

\* approvePlan's reload of the messages does not ask what is active by then.
Reload(r) ==
    /\ run[r].pc = "reload"
    /\ Goto(r, "over")
    /\ Show(r, [Own(r) EXCEPT !.shown = {run[r].task}])
    /\ UNCHANGED <<current, loads, opened, bgVars, storeVars, calm>>

-----------------------------------------------------------------------------
(* What the user does in the mounted view, and the poll of a restored run. *)

Here == view[current]
Put(v) == SetView(current, v)

\* A message that the view itself adds is about the task on screen.
Mine == {Here.task} \ {NoTask}

Begin(r, k) == run' = [run EXCEPT ![r] = [task |-> Here.task, kind |-> k, view |-> current,
                                          pc |-> "claimed", aborted |-> FALSE]]

Approve(r) ==
    /\ Unused(r)
    /\ Here.plan # NoPlan /\ Here.task # NoTask /\ Here.phase = "awaiting_approval"
    /\ Begin(r, "exec")
    /\ Put([Here EXCEPT !.active = Here.task, !.running = TRUE, !.phase = "executing",
                        !.plan.steps = "pending"])
    /\ UserAsks
    /\ UNCHANGED <<current, loads, opened, bgVars, storeVars>>

Reject ==
    /\ Here.plan # NoPlan /\ Here.phase = "awaiting_approval"
    /\ Put([Here EXCEPT !.plan = NoPlan, !.phase = "idle", !.shown = @ \cup Mine])
    /\ SetStatus(Here.task, "stopped")
    /\ UNCHANGED <<current, loads, opened, run, bgVars, planned, calm>>

\* continueConversation, also with the answer to a question; isRunning is
\* set only after the message is stored, when the run is armed.
Reply(r, k) ==
    /\ Unused(r) /\ k \in {"talk", "quick"}
    /\ ~Here.running /\ Here.task # NoTask
    /\ Begin(r, k)
    /\ Put([Here EXCEPT !.shown = @ \cup Mine])
    /\ UserAsks
    /\ UNCHANGED <<current, loads, opened, bgVars, storeVars>>

\* stopAgent up to the answer of POST /agent/stop, and after it.
StopBegins ==
    /\ Here.running /\ Here.task # NoTask /\ Here.stopping = NoTask
    /\ Put([Here EXCEPT !.poll.task = NoTask, !.stopping = Here.task])
    /\ run' = IF Here.ctl = NoRun THEN run ELSE [run EXCEPT ![Here.ctl].aborted = TRUE]
    /\ UserActs
    /\ UNCHANGED <<current, loads, opened, bgVars, storeVars>>

StopEnds(i) ==
    /\ view[i].stopping # NoTask
    /\ SetView(i, [view[i] EXCEPT !.stopping = NoTask, !.running = FALSE])
    /\ SetStatus(view[i].stopping, "stopped")
    /\ CalledIdle(i)
    /\ UNCHANGED <<current, loads, opened, run, bgVars, planned>>

\* respondToPermission, answered or failed.
AnswerPermission ==
    /\ Here.perm
    /\ Put([Here EXCEPT !.perm = FALSE, !.shown = @ \cup Mine])
    /\ UNCHANGED <<current, loads, opened, run, bgVars, storeVars, calm>>

QuietPhase(v) == [v EXCEPT !.phase = "idle"]      \* mutant: isRunning is not reset
Quiet(v) == [v EXCEPT !.running = FALSE, !.phase = "idle"]

\* The interval's callback up to getTask: an aborted or missing controller
\* ends the poll; whether the task is active is asked here only.
PollTick(i) ==
    /\ view[i].poll.task # NoTask /\ view[i].poll.tick = NoTask
    /\ LET v == view[i]
           still == v.active = v.poll.task
       IN IF v.ctl = NoRun \/ \E r \in Runs : r = v.ctl /\ run[r].aborted
          THEN /\ SetView(i, [(IF still THEN Quiet(v) ELSE v) EXCEPT !.poll.task = NoTask])
               /\ IF still THEN CalledIdle(i) ELSE UNCHANGED calm
          ELSE /\ SetView(i, [v EXCEPT !.poll.tick = v.poll.task, !.poll.still = still])
               /\ UNCHANGED calm
    /\ UNCHANGED <<current, loads, opened, run, bgVars, storeVars>>

\* The callback after its reads.  What it clears is the interval there is by
\* now, and what it calls idle is the task on screen by now.
PollSees(i) ==
    /\ view[i].poll.tick # NoTask
    /\ LET v == [view[i] EXCEPT !.poll.tick = NoTask]
           t == view[i].poll.tick
       IN IF status[t] \in Final
          THEN /\ SetView(i, [(IF v.poll.still THEN Quiet(v) ELSE v) EXCEPT !.poll.task = NoTask])
               /\ IF v.poll.still THEN CalledIdle(i) ELSE UNCHANGED calm
          ELSE /\ SetView(i, IF v.poll.still THEN [v EXCEPT !.shown = {t}] ELSE v)
               /\ UNCHANGED calm
    /\ UNCHANGED <<current, loads, opened, run, bgVars, storeVars>>

\* The same after 300 polls in a row without a new message.  A pending tool call
\* would reset the count, but a stored tool_use never has its id: the events
\* carry it as id, and what is stored is their toolUseId.
PollGivesUp(i) ==
    /\ view[i].poll.tick # NoTask /\ view[i].poll.still
    /\ status[view[i].poll.tick] \notin Final
    /\ SetView(i, [Quiet(view[i]) EXCEPT !.poll = NoPoll, !.shown = {view[i].poll.tick}])
    /\ CalledIdle(i)
    /\ UNCHANGED <<current, loads, opened, run, bgVars, storeVars>>

-----------------------------------------------------------------------------
Load(n) == LoadFound(n) \/ StaysIdle(n) \/ FindsAborted(n) \/ Restores(n) \/ LoadRows(n)
           \/ \E r \in Runs, k \in FirstKinds : LoadMissing(n, r, k)

Event(r) == \/ OnDone(r) \/ OnPermission(r) \/ OnText(r) \/ OnQuestion(r)
            \/ OnToolResult(r) \/ OnPlan(r) \/ OnAnswer(r)
            \/ \E p \in {Own(r).phase, "idle"} : OnPlanText(r, p) \/ OnChatText(r, p)
            \/ \E s \in {"completed", "error", "running"} : OnOutcome(r, s)
            \/ StreamEnds(r) \/ ChatEnds(r) \/ QuickEnds(r)
            \/ FirstFails(r) \/ ExecFails(r) \/ ReplyFails(r)

Proceed(r) == \/ Claim(r) \/ ArmFirst(r) \/ ArmExec(r) \/ ArmReply(r)
              \/ AbortSeen(r) \/ Finally(r) \/ Reload(r)

User == \/ \E t \in Tasks : Open(t)
        \/ Leave \/ Reject \/ StopBegins \/ AnswerPermission
        \/ \E r \in Runs : Approve(r) \/ \E k \in {"talk", "quick"} : Reply(r, k)

Next == \/ User
        \/ \E n \in 1..opened : Load(n)
        \/ \E r \in Runs : Event(r) \/ Proceed(r)
        \/ \E t \in Tasks : RemoveLater(t)
        \/ \E i \in 1..MaxViews : StopEnds(i) \/ PollTick(i) \/ PollSees(i) \/ PollGivesUp(i)

Spec == Init /\ [][Next]_vars

\* Database calls and timers come back; a poll that finds nothing new and no
\* live run gives up.  Nothing is assumed of the service or of the user.
Fairness ==
    /\ \A n \in 1..MaxOpens : WF_vars(n <= opened /\ Load(n))
    /\ \A r \in Runs : WF_vars(Proceed(r))
    /\ \A i \in 1..MaxViews : /\ WF_vars(StopEnds(i) \/ PollTick(i) \/ PollSees(i))
                              /\ SF_vars(PollGivesUp(i) /\ \A r \in Runs : ~Live(r))

FairSpec == Spec /\ Fairness

-----------------------------------------------------------------------------
\* A run that goes on while another task is on screen stays out of the view:
\* its events change nothing there but the progress of a plan (the guards on
\* isActive in processStream and the planning loop of useAgent.ts).  The end of
\* a first prompt is no such event: initialize then loads its task again.
StreamsKeepToTheirTask ==
    [][\A r \in Runs :
         /\ run[r].pc = "open" /\ ~IsActive(r)
         /\ run[r].kind \in FirstKinds => run'[r].pc # "over"
         /\ Event(r)
         => /\ \A i \in 1..MaxViews : [view[i] EXCEPT !.plan.steps = "none"]
                                       = [view'[i] EXCEPT !.plan.steps = "none"]
            /\ \A q \in Runs \ {r} : run'[q] = run[q]]_vars

\* A live run can be stopped: the mounted view or the registry holds its
\* controller, as long as nobody acts in a view that has something under way,
\* no poll or stop has called a view idle whose run goes on, and no first
\* prompt has taken the page back from another task as it ended.
RunsStayInReach ==
    calm => \A r \in Runs : run[r].pc = "open" /\ ~run[r].aborted =>
                \/ view[current].ctl = r
                \/ bg[run[r].task] = [run |-> r, running |-> TRUE]

\* The mounted view does not go on showing a run for ever when nothing runs,
\* under the same conditions.
IndicatorSettles ==
    <>[](calm /\ view[current].running => \E r \in Runs : Live(r))
=============================================================================
