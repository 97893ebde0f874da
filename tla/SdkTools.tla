------------------------------ MODULE SdkTools ------------------------------
(***************************************************************************)
(* The stores behind the SDK's coordination tools: tasks, teams, cron jobs *)
(* and to-dos under numbered ids, mailboxes of agents, and git worktrees.  *)
(* The stores belong to the process, so all its agents and subagents share *)
(* them; a call is one step.                                               *)
(***************************************************************************)
EXTENDS Naturals, Sequences, FiniteSets, Functions

CONSTANTS
    Mates,              \* names of agents
    Branches,           \* git branches
    MaxToolCalls        \* bound: calls, which also stamp what they make
ASSUME ToolsAssumption == MaxToolCalls \in Nat

VARIABLES
    book,           \* kind of entry -> id -> stamp
    counter,        \* kind of entry -> ids given so far
    noted,          \* what the model was told: set of [kind, id, stamp]
    hits,           \* history: set of <<kind, stamp meant, stamp hit>>
    mail,           \* mailboxes: name -> stamps, for the names that have one
    due,            \* history: name -> stamps of the messages for it
    got,            \* history: name -> stamps read
    trees,          \* git's worktrees: set of [path, branch]
    branches,       \* git's branches
    worktrees,      \* activeWorktrees: set of [id, path, branch]
    keptTrees,      \* history: paths of worktrees kept on exit
    toolCalls,
    restarted       \* history: kinds whose ids began anew

toolVars == <<book, counter, noted, hits, mail, due, got, trees, branches, worktrees, keptTrees, toolCalls, restarted>>
mailVars == <<mail, due, got>>
bookVars == <<book, counter, noted, hits, restarted>>
treeVars == <<trees, branches, worktrees, keptTrees>>

BookKinds == {"task", "team", "cron", "todo"}
Stamps == 1 .. MaxToolCalls

ToolsTypeOK ==
    /\ \A k \in BookKinds : DOMAIN book[k] \subseteq 1 .. counter[k] /\ \A i \in DOMAIN book[k] : book[k][i] \in Stamps
    /\ \A m \in noted : m.kind \in BookKinds /\ m.id \in Stamps /\ m.stamp \in Stamps
    /\ DOMAIN mail \subseteq Mates /\ \A n \in DOMAIN mail : mail[n] \in Seq(Stamps)
    /\ due \in [Mates -> SUBSET Stamps] /\ \A n \in Mates : got[n] \in Seq(Stamps)
    /\ \A t \in trees : t.path \in Stamps /\ t.branch \in Branches
    /\ branches \subseteq Branches /\ keptTrees \subseteq Stamps
    /\ \A a \in worktrees : a.id \in Stamps /\ a.path \in Stamps /\ a.branch \in Branches
    /\ toolCalls \in 0 .. MaxToolCalls /\ restarted \subseteq BookKinds

ToolsInit ==
    /\ book = [k \in BookKinds |-> <<>>] /\ counter = [k \in BookKinds |-> 0]
    /\ noted = {} /\ hits = {} /\ restarted = {}
    /\ mail = <<>> /\ due = [n \in Mates |-> {}] /\ got = [n \in Mates |-> <<>>]
    /\ trees = {} /\ branches \in SUBSET Branches /\ worktrees = {} /\ keptTrees = {}
    /\ toolCalls = 0

Called == toolCalls < MaxToolCalls /\ toolCalls' = toolCalls + 1

-----------------------------------------------------------------------------
(* Numbered entries.                                                       *)

\* Variant for a mutation check: entries are numbered by how many there are.
IdBySize(k) == Cardinality(DOMAIN book[k]) + 1

NextId(k) == counter[k] + 1

\* TaskCreate, TeamCreate, CronCreate, TodoWrite's add.
CreateEntry ==
    /\ Called
    /\ \E k \in BookKinds :
         /\ book' = [book EXCEPT ![k] = [i \in DOMAIN @ \cup {NextId(k)} |-> IF i = NextId(k) THEN toolCalls' ELSE @[i]]]
         /\ counter' = [counter EXCEPT ![k] = @ + 1]
         /\ noted' = noted \cup {[kind |-> k, id |-> NextId(k), stamp |-> toolCalls']}
    /\ UNCHANGED <<hits, restarted, mailVars, treeVars>>

\* Whatever has the id now.
Hit(m) == IF m.id \in DOMAIN book[m.kind] THEN hits \cup {<<m.kind, m.stamp, book[m.kind][m.id]>>} ELSE hits

\* TaskUpdate, TaskStop, TodoWrite's toggle: an id the model remembers.
UpdateEntry ==
    /\ Called
    /\ \E m \in noted : m.kind \in {"task", "todo"} /\ hits' = Hit(m)
    /\ UNCHANGED <<book, counter, noted, restarted, mailVars, treeVars>>

\* TeamDelete, CronDelete, TodoWrite's remove: tasks are never removed.
DeleteEntry ==
    /\ Called
    /\ \E m \in noted :
         /\ m.kind # "task" /\ hits' = Hit(m)
         /\ book' = [book EXCEPT ![m.kind] = Restrict(@, DOMAIN @ \ {m.id})]
    /\ UNCHANGED <<counter, noted, restarted, mailVars, treeVars>>

\* TodoWrite's clear: the ids go on.
ClearTodoList ==
    /\ Called /\ book' = [book EXCEPT !["todo"] = <<>>]
    /\ UNCHANGED <<counter, noted, hits, restarted, mailVars, treeVars>>

\* clearTasks, clearTeams, clearCronJobs, clearTodos: the ids begin anew,
\* whatever the model remembers.
ClearEntries ==
    /\ Called
    /\ \E k \in BookKinds : /\ book' = [book EXCEPT ![k] = <<>>] /\ counter' = [counter EXCEPT ![k] = 0]
                        /\ restarted' = restarted \cup {k}
    /\ UNCHANGED <<noted, hits, mailVars, treeVars>>

-----------------------------------------------------------------------------
(* Mailboxes.                                                              *)

Box(n) == IF n \in DOMAIN mail THEN mail[n] ELSE <<>>

\* writeToMailbox for each of the names.
Delivered(names) ==
    /\ mail' = [n \in DOMAIN mail \cup names |-> IF n \in names THEN Append(Box(n), toolCalls') ELSE mail[n]]
    /\ due' = [n \in Mates |-> IF n \in names THEN due[n] \cup {toolCalls'} ELSE due[n]]

\* SendMessage to an agent, or to all that have a mailbox by now.
SendMessage ==
    /\ Called
    /\ \/ \E n \in Mates : Delivered({n})
       \/ Delivered(DOMAIN mail)
    /\ UNCHANGED <<got, bookVars, treeVars>>

\* Variant for a mutation check: reading leaves the messages there.
StillThere(n) == Box(n)

\* What reading leaves.
Emptied(n) == <<>>

ReadMailbox ==
    /\ Called
    /\ \E n \in Mates :
         /\ got' = [got EXCEPT ![n] = @ \o Box(n)]
         /\ mail' = [m \in DOMAIN mail \cup {n} |-> IF m = n THEN Emptied(n) ELSE mail[m]]
    /\ UNCHANGED <<due, bookVars, treeVars>>

\* clearMailboxes: what was not read is lost, and a broadcast reaches no one.
ClearMailboxes ==
    /\ Called /\ mail' = <<>> /\ due' = [n \in Mates |-> Range(got[n])]
    /\ UNCHANGED <<got, bookVars, treeVars>>

-----------------------------------------------------------------------------
(* Worktrees.                                                              *)

\* EnterWorktree: the branch if there is none, then a tree at a path of its
\* own.  That fails where the branch is checked out, and for reasons of git;
\* the branch stays.
EnterWorktree ==
    /\ Called
    /\ \E b \in Branches, p \in {t.path : t \in trees} \cup {toolCalls'}, works \in BOOLEAN :
         /\ branches' = branches \cup {b}
         /\ IF works /\ \A t \in trees : t.branch # b /\ t.path # p
              THEN /\ trees' = trees \cup {[path |-> p, branch |-> b]}
                   /\ worktrees' = worktrees \cup {[id |-> toolCalls', path |-> p, branch |-> b]}
              ELSE UNCHANGED <<trees, worktrees>>
    /\ UNCHANGED <<keptTrees, bookVars, mailVars>>

\* Variant for a mutation check: an exit that fails forgets the tree.
ForgottenAnyway(a, ok) == worktrees \ {a}

\* An exit that fails throws before the tree is forgotten.
Forgotten(a, ok) == IF ok THEN worktrees \ {a} ELSE worktrees

\* ExitWorktree: the tree is kept, or removed with its branch, whoever made
\* the branch; a branch that cannot be deleted stays.
ExitWorktree ==
    /\ Called
    /\ \E a \in worktrees, ok \in BOOLEAN, keeps \in BOOLEAN :
         /\ worktrees' = Forgotten(a, ok \/ keeps)
         /\ keptTrees' = IF keeps THEN keptTrees \cup {a.path} ELSE keptTrees
         /\ IF ok /\ ~keeps
              THEN trees' = {t \in trees : t.path # a.path} /\ branches' \in {branches, branches \ {a.branch}}
              ELSE UNCHANGED <<trees, branches>>
    /\ UNCHANGED <<bookVars, mailVars>>

ToolsNext ==
    \/ CreateEntry \/ UpdateEntry \/ DeleteEntry \/ ClearTodoList \/ ClearEntries
    \/ SendMessage \/ ReadMailbox \/ ClearMailboxes
    \/ EnterWorktree \/ ExitWorktree

ToolsSpec == ToolsInit /\ [][ToolsNext]_toolVars
-----------------------------------------------------------------------------
(* Properties.                                                             *)

\* Until a store is cleared as a whole, a call with an id that the model
\* remembers reaches the entry it means, or none, whatever was deleted and
\* created between.
IdsKeepTheirMeaning == \A h \in hits : h[1] \in restarted \/ h[2] = h[3]

\* What was sent to an agent is read once and in the order it was sent, over
\* every order of messages, broadcasts, reads and clearings.
MailOnceInOrder ==
    \A n \in Mates :
        LET all == got[n] \o Box(n) IN
        /\ Range(all) = due[n]
        /\ \A i, j \in DOMAIN all : i < j => all[i] < all[j]

\* A worktree that the tool made can still be removed with it, unless it was
\* kept; and what can be removed is there, with its branch.
WorktreesTracked ==
    /\ \A t \in trees : t.path \in keptTrees \/ \E a \in worktrees : a.path = t.path /\ a.branch = t.branch
    /\ \A a \in worktrees : a.branch \in branches /\ [path |-> a.path, branch |-> a.branch] \in trees
=============================================================================
