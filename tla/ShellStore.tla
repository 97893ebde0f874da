---------------------------- MODULE ShellStore ----------------------------
(***************************************************************************)
(* The shell's database (shared/db/database.ts) and the task lists of its  *)
(* pages that are kept beside it.  In the desktop program the tables are   *)
(* SQLite's, in a browser IndexedDB's; the desktop program falls back to   *)
(* IndexedDB for a call that cannot connect.  A SQLite call is one         *)
(* statement; an IndexedDB update reads the row, and writes it back whole. *)
(***************************************************************************)
EXTENDS Naturals, FiniteSets

CONSTANTS
    StoreTasks,     \* tasks, named by the time of their creation
    StoreCallers,   \* calls under way at once
    MaxCalls        \* bound: calls in all

ASSUME StoreAssumption == MaxCalls \in Nat

VARIABLES
    env,        \* "tauri" (the desktop program) or "browser"
    linked,     \* the SQLite connection is open
    db,         \* store -> its tables: tasks, and the rows that belong to a task
    calls,      \* caller -> the call under way
    started,    \* calls begun; the value a call writes is its number
    list,       \* allTasks: the task list shown
    page,       \* the task whose page is open
    genTitle,   \* generatedTitle: the last title generated, 0 for none
    born,       \* tasks created so far
    titled,     \* tasks whose title has been asked for
    kept,       \* history: store -> the tasks as the calls one after the other leave them
    raced,      \* history: tasks written between another call's read and write, or left half deleted
    astray      \* history: the list was set from a stale read, another store or another task's title

storeVars == <<env, linked, db, calls, started, list, page, genTitle, born, titled, kept, raced, astray>>

Stores == {"sqlite", "idb"}
Home == IF env = "tauri" THEN "sqlite" ELSE "idb"
Fields == {"status", "title", "favorite"}
NoCall == [kind |-> "none", pc |-> "idle", store |-> "idb", task |-> CHOOSE t \in StoreTasks : TRUE,
           stamp |-> 0, copy |-> <<>>]

NewRow == [f \in Fields |-> 0]
Empty == [x \in {} |-> NewRow]
Put(tasks, t, row) == [x \in DOMAIN tasks \cup {t} |-> IF x = t THEN row ELSE tasks[x]]
Without(tasks, t) == [x \in DOMAIN tasks \ {t} |-> tasks[x]]

\* The column a kind of update writes.
Field(kind) == CASE kind = "status" -> "status" [] kind = "favorite" -> "favorite" [] OTHER -> "title"
Updates == {"status", "favorite", "rename", "title"}
Kinds == Updates \cup {"create", "delete", "message", "file", "load", "clear"}

TaskTable(T) == /\ DOMAIN T \subseteq StoreTasks
                /\ \A t \in DOMAIN T : T[t] \in [Fields -> 0 .. MaxCalls]
StoreTypeOK ==
    /\ env \in {"tauri", "browser"} /\ linked \in BOOLEAN
    /\ \A s \in Stores : /\ TaskTable(db[s].tasks) /\ TaskTable(kept[s])
                         /\ db[s].rows \subseteq {"message", "file"} \X StoreTasks
    /\ \A c \in StoreCallers :
         /\ calls[c].kind \in Kinds \cup {"none"} /\ calls[c].store \in Stores
         /\ calls[c].pc \in {"idle", "go", "put", "rows", "shown", "set", "each", "first"}
         /\ calls[c].task \in StoreTasks /\ calls[c].stamp \in 0 .. MaxCalls
    /\ started \in 0 .. MaxCalls /\ genTitle \in 0 .. MaxCalls
    /\ TaskTable(list) /\ page \in StoreTasks
    /\ born \subseteq StoreTasks /\ titled \subseteq born /\ raced \subseteq StoreTasks /\ astray \in BOOLEAN

StoreInit ==
    /\ env \in {"tauri", "browser"} /\ linked = FALSE
    /\ born \in SUBSET StoreTasks /\ titled = born
    /\ list = [t \in born |-> NewRow]
    /\ kept = [s \in Stores |-> IF s = Home THEN list ELSE Empty]
    /\ db = [s \in Stores |-> [tasks |-> kept[s], rows |-> {}]]
    /\ calls = [c \in StoreCallers |-> NoCall] /\ started = 0
    /\ page \in StoreTasks /\ genTitle = 0 /\ raced = {} /\ astray = FALSE

-----------------------------------------------------------------------------
Becomes(c, r) == calls' = [calls EXCEPT ![c] = r]
Ends(c) == Becomes(c, NoCall)

\* getSQLiteDatabase, and IndexedDB when that gives nothing.
Connects(s) ==
    \/ env = "browser" /\ s = "idb" /\ UNCHANGED linked
    \/ env = "tauri" /\ s = "sqlite" /\ linked' = TRUE
    \/ env = "tauri" /\ ~linked /\ s = "idb" /\ UNCHANGED linked

\* A row changes while another call holds a copy of it.
Races(c, t) ==
    raced' = IF \E d \in StoreCallers \ {c} : calls[d].pc = "put" /\ calls[d].task = t
                  /\ calls[d].store = calls[c].store
             THEN raced \cup {t} ELSE raced

\* A write while a list read before it is still to be shown, or another write
\* of the same column, or a task shown that is not stored yet.
Overlaps(r, d) == \/ d.pc = "set"
                  \/ d.kind = "create" /\ d.task = r.task
                  \/ d.kind # "none" /\ d.task = r.task /\ d.kind \in Updates /\ Field(d.kind) = Field(r.kind)
Stales(c) == astray' = (astray \/ \E d \in StoreCallers \ {c} : Overlaps(calls[c], calls[d]))

StartCall(c) ==
    /\ calls[c].pc = "idle" /\ started < MaxCalls /\ started' = started + 1
    /\ \E kind \in (Updates \ {"title"}) \cup {"delete", "message", "file", "load", "clear"},
          t \in StoreTasks, s \in Stores :
         /\ kind \in {"rename", "favorite", "delete"} => t \in DOMAIN list
         /\ kind \in {"load", "clear"} => t = page
         /\ kind \in {"status", "message", "file"} => \E u \in Stores : t \in DOMAIN kept[u]
         /\ Connects(s)
         /\ Becomes(c, [NoCall EXCEPT !.kind = kind, !.pc = "go", !.store = s, !.task = t, !.stamp = started + 1])
         /\ astray' = (astray \/ s # Home)
    /\ UNCHANGED <<env, db, list, page, genTitle, born, titled, kept, raced>>

\* A new task's page: the task is shown before it is stored.
StartCreate(c) ==
    /\ calls[c].pc = "idle" /\ started < MaxCalls /\ started' = started + 1
    /\ \E t \in StoreTasks \ born, s \in Stores :
         /\ Connects(s)
         /\ born' = born \cup {t}
         /\ Becomes(c, [NoCall EXCEPT !.kind = "create", !.pc = "go", !.store = s, !.task = t, !.stamp = started + 1])
         /\ page' = t /\ list' = Put(list, t, NewRow)
         /\ astray' = (astray \/ s # Home)
    /\ UNCHANGED <<env, db, genTitle, titled, kept, raced>>

\* createTask; the page loads the list again when the task is there.
CreateTask(c) ==
    LET r == calls[c] IN
    /\ r.kind = "create" /\ r.pc = "go"
    /\ db' = [db EXCEPT ![r.store].tasks = Put(@, r.task, NewRow)]
    /\ kept' = [kept EXCEPT ![r.store] = Put(@, r.task, NewRow)]
    /\ Becomes(c, [r EXCEPT !.kind = "load"])
    /\ Races(c, r.task) /\ Stales(c)
    /\ UNCHANGED <<env, linked, started, list, page, genTitle, born, titled>>

\* The title a model makes of the prompt is stored when it arrives.
StartTitle(c) ==
    /\ calls[c].pc = "idle" /\ started < MaxCalls /\ started' = started + 1
    /\ \E s \in Stores : \E t \in DOMAIN kept[s] \ titled :
         /\ Connects(s)
         /\ titled' = titled \cup {t}
         /\ Becomes(c, [NoCall EXCEPT !.kind = "title", !.pc = "go", !.store = s, !.task = t, !.stamp = started + 1])
    /\ UNCHANGED <<env, db, list, page, genTitle, born, kept, raced, astray>>

Written(tasks, r) == IF r.task \in DOMAIN tasks THEN [tasks EXCEPT ![r.task][Field(r.kind)] = r.stamp] ELSE tasks

\* updateTask with SQLite: one statement, which names the columns given.
UpdateRow(c) ==
    LET r == calls[c] IN
    /\ r.kind \in Updates /\ r.pc = "go" /\ r.store = "sqlite"
    /\ db' = [db EXCEPT ![r.store].tasks = Written(@, r)]
    /\ kept' = [kept EXCEPT ![r.store] = Written(@, r)]
    /\ Becomes(c, [r EXCEPT !.pc = "shown"])
    /\ Stales(c)
    /\ UNCHANGED <<env, linked, started, list, page, genTitle, born, titled, raced>>

\* Variant for a mutation check: a row that was not found is written all the same.
ReadAnyway(tasks, t) == IF t \in DOMAIN tasks THEN tasks[t] ELSE NewRow

\* getTask; <<>> for a task that is not there.
Read(tasks, t) == IF t \in DOMAIN tasks THEN tasks[t] ELSE <<>>

\* updateTask with IndexedDB: the row is read, and written back in another transaction.
ReadRow(c) ==
    LET r == calls[c]  row == Read(db[r.store].tasks, r.task) IN
    /\ r.kind \in Updates /\ r.pc = "go" /\ r.store = "idb"
    /\ Becomes(c, IF row = <<>> THEN [r EXCEPT !.pc = "shown"] ELSE [r EXCEPT !.pc = "put", !.copy = row])
    /\ Stales(c)
    /\ UNCHANGED <<env, linked, db, started, list, page, genTitle, born, titled, kept, raced>>

PutRow(c) ==
    LET r == calls[c] IN
    /\ r.pc = "put"
    /\ db' = [db EXCEPT ![r.store].tasks = Put(@, r.task, [r.copy EXCEPT ![Field(r.kind)] = r.stamp])]
    /\ kept' = [kept EXCEPT ![r.store] = Written(@, r)]
    /\ Becomes(c, [r EXCEPT !.pc = "shown", !.copy = <<>>])
    /\ Races(c, r.task) /\ Stales(c)
    /\ UNCHANGED <<env, linked, started, list, page, genTitle, born, titled>>

\* Variant for a mutation check: only the task's own row goes.
TaskOnly(s, rows, t) == rows

\* SQLite deletes what belongs to the task with it; IndexedDB does not.
Cascades(s, rows, t) == IF s = "sqlite" THEN {r \in rows : r[2] # t} ELSE rows

DeleteTask(c) ==
    LET r == calls[c] IN
    /\ r.pc = "first" \/ (r.kind = "delete" /\ r.pc = "go")
    /\ db' = [db EXCEPT ![r.store] = [tasks |-> Without(@.tasks, r.task), rows |-> Cascades(r.store, @.rows, r.task)]]
    /\ kept' = [kept EXCEPT ![r.store] = Without(@, r.task)]
    /\ Becomes(c, [r EXCEPT !.pc = IF r.store = "idb" THEN "rows" ELSE IF r.kind = "clear" THEN "each" ELSE "shown"])
    /\ Races(c, r.task) /\ Stales(c)
    /\ UNCHANGED <<env, linked, started, list, page, genTitle, born, titled>>

\* deleteMessagesByTaskId: one transaction.
DeleteMessages(c) ==
    LET r == calls[c] IN
    /\ r.pc = "rows"
    /\ db' = [db EXCEPT ![r.store].rows = @ \ {<<"message", r.task>>}]
    /\ Becomes(c, [r EXCEPT !.pc = IF r.kind = "clear" THEN "each" ELSE "shown"])
    /\ UNCHANGED <<env, linked, started, list, page, genTitle, born, titled, kept, raced, astray>>

\* A message or a file of a task that is gone is refused by SQLite only.
Accepts(s, t) == s = "idb" \/ t \in DOMAIN db[s].tasks

CreateRow(c, kind) ==
    LET r == calls[c] IN
    /\ r.kind = kind /\ r.pc = "go"
    /\ db' = IF Accepts(r.store, r.task) THEN [db EXCEPT ![r.store].rows = @ \cup {<<kind, r.task>>}] ELSE db
    /\ raced' = IF r.task \in DOMAIN db[r.store].tasks THEN raced ELSE raced \cup {r.task}
    /\ Ends(c)
    /\ UNCHANGED <<env, linked, started, list, page, genTitle, born, titled, kept, astray>>

CreateMessage(c) == CreateRow(c, "message")
CreateFile(c) == CreateRow(c, "file")

-----------------------------------------------------------------------------
(* What the pages do with their list.                                      *)

\* A call from the list is shown there when it returns.
ShowCall(c) ==
    LET r == calls[c] IN
    /\ r.pc = "shown" /\ r.kind \in {"rename", "favorite", "delete", "status"}
    /\ list' = CASE r.kind = "delete" -> Without(list, r.task)
                 [] r.kind = "status" -> list
                 [] r.kind = "rename" /\ r.task \notin DOMAIN db[r.store].tasks -> list
                 [] OTHER -> Written(list, r)
    /\ Ends(c) /\ Stales(c)
    /\ UNCHANGED <<env, linked, db, started, page, genTitle, born, titled, kept, raced>>

\* A generated title is given to the task whose page is open.
ShowTitle(c) ==
    LET r == calls[c] IN
    /\ r.pc = "shown" /\ r.kind = "title"
    /\ genTitle' = r.stamp
    /\ list' = Written(list, [r EXCEPT !.task = page])
    /\ Ends(c)
    /\ astray' = (astray \/ page # r.task \/ \E d \in StoreCallers \ {c} : Overlaps(r, calls[d]))
    /\ UNCHANGED <<env, linked, db, started, page, born, titled, kept, raced>>

\* getAllTasks.
LoadAllTasks(c) ==
    LET r == calls[c] IN
    /\ r.kind = "load" /\ r.pc = "go"
    /\ Becomes(c, [r EXCEPT !.pc = "set", !.copy = db[r.store].tasks])
    /\ UNCHANGED <<env, linked, db, started, list, page, genTitle, born, titled, kept, raced, astray>>

\* Variant for a mutation check: the open page's task is never read anew.
KeepsPage(tasks) == IF page \in DOMAIN list THEN Put(tasks, page, list[page]) ELSE tasks

\* The open page's task is kept when it is not stored yet.
Merged(tasks) == IF page \in DOMAIN list \ DOMAIN tasks THEN Put(tasks, page, list[page]) ELSE tasks

SetList(c) ==
    LET r == calls[c] IN
    /\ r.pc = "set" /\ list' = Merged(r.copy)
    /\ Ends(c)
    /\ UNCHANGED <<env, linked, db, started, page, genTitle, born, titled, kept, raced, astray>>

\* Another page: its effects give it the last generated title, and load the list.
Navigate(c) ==
    /\ calls[c].pc = "idle" /\ started < MaxCalls /\ started' = started + 1
    /\ \E t \in DOMAIN list \ {page}, s \in Stores :
         /\ Connects(s)
         /\ page' = t
         /\ list' = IF genTitle # 0 THEN [list EXCEPT ![t]["title"] = genTitle] ELSE list
         /\ Becomes(c, [NoCall EXCEPT !.kind = "load", !.pc = "go", !.store = s, !.task = t, !.stamp = started + 1])
         /\ astray' = (astray \/ s # Home)
    /\ UNCHANGED <<env, db, genTitle, born, titled, kept, raced>>

-----------------------------------------------------------------------------
(* Clearing all data, and loading the page again.                          *)

ClearBegins(c) ==
    LET r == calls[c] IN
    /\ r.kind = "clear" /\ r.pc = "go"
    /\ Becomes(c, [r EXCEPT !.pc = "each", !.copy = DOMAIN db[r.store].tasks])
    /\ UNCHANGED <<env, linked, db, started, list, page, genTitle, born, titled, kept, raced, astray>>

\* The messages of the next task; the task itself is then deleted.
ClearTask(c) ==
    LET r == calls[c] IN
    /\ r.pc = "each"
    /\ \E t \in r.copy :
         /\ db' = [db EXCEPT ![r.store].rows = @ \ {<<"message", t>>}]
         /\ Becomes(c, [r EXCEPT !.pc = "first", !.task = t, !.copy = @ \ {t}])
    /\ UNCHANGED <<env, linked, started, list, page, genTitle, born, titled, kept, raced, astray>>

\* The page is loaded again: after a clear, or at any time.  Nothing that was
\* under way goes on, and the list is read anew.
Reload(c) ==
    /\ \/ calls[c].pc = "each" /\ calls[c].copy = {} /\ UNCHANGED started
       \/ calls[c].pc = "idle" /\ started < MaxCalls /\ started' = started + 1
    /\ calls' = [d \in StoreCallers |-> IF d = c THEN [NoCall EXCEPT !.kind = "load", !.pc = "go", !.store = Home] ELSE NoCall]
    /\ linked' = (env = "tauri")
    /\ list' = Empty /\ genTitle' = 0
    /\ raced' = raced \cup {calls[d].task : d \in {e \in StoreCallers : calls[e].pc = "rows"}}
    /\ UNCHANGED <<env, db, page, born, titled, kept, astray>>

StoreNext ==
    \E c \in StoreCallers :
       \/ StartCall(c) \/ StartCreate(c) \/ StartTitle(c) \/ CreateTask(c)
       \/ UpdateRow(c) \/ ReadRow(c) \/ PutRow(c) \/ DeleteTask(c) \/ DeleteMessages(c)
       \/ CreateMessage(c) \/ CreateFile(c)
       \/ ShowCall(c) \/ ShowTitle(c) \/ LoadAllTasks(c) \/ SetList(c) \/ Navigate(c)
       \/ ClearBegins(c) \/ ClearTask(c) \/ Reload(c)

StoreSpec == StoreInit /\ [][StoreNext]_storeVars

-----------------------------------------------------------------------------
(* Properties.                                                             *)

AllIdle == \A c \in StoreCallers : calls[c].pc = "idle"

\* Every update stays: a task's row has in every column what was written
\* there last, and a deleted task stays deleted, unless IndexedDB's row was
\* written by another call between an update's read and its write.
WritesStay == \A s \in Stores : \A t \in StoreTasks \ raced :
    /\ t \in DOMAIN db[s].tasks <=> t \in DOMAIN kept[s]
    /\ t \in DOMAIN kept[s] => db[s].tasks[t] = kept[s][t]

\* When no call is under way, messages and files belong to tasks that exist.
\* Not covered in IndexedDB: the files of a deleted task, which nothing
\* deletes, and messages written after their task was deleted.
RowsHaveTasks == AllIdle => \A s \in Stores : \A x \in db[s].rows :
    x[2] \in DOMAIN db[s].tasks \/ (s = "idb" /\ (x[1] = "file" \/ x[2] \in raced))

\* When no call is under way the list shows the tasks that are stored, by
\* their titles and favorites, unless a list was read before a write and set
\* after it, two writes of a column overlapped, or a generated title arrived
\* while another task's page was open.
ListTellsStore == AllIdle /\ ~astray => \A t \in StoreTasks \ raced :
    /\ t \in DOMAIN list <=> t \in DOMAIN db[Home].tasks
    /\ t \in DOMAIN list => \A f \in {"title", "favorite"} : list[t][f] = db[Home].tasks[t][f]
=============================================================================
