---------------------------- MODULE SessionFile -----------------------------
(***************************************************************************)
(* One session's transcript (forgepilot_sdk/session.py): the file, the     *)
(* lock file beside it, and calls that append to the transcript, save it,  *)
(* rename it (tag_session is the same), update its metadata or delete it.  *)
(*                                                                         *)
(* A writer is one call, made by a thread of a process.  The threads of a  *)
(* process exclude each other with an RLock per session before they try    *)
(* the lock file; processes have only the lock file.  os.replace makes     *)
(* every write of the transcript atomic.  Messages are the writers that    *)
(* brought them, and Old for what a legacy file holds.                     *)
(***************************************************************************)
EXTENDS Naturals

CONSTANTS Writers, Processes, ProcessOf, NoLock, Old,
          OpsOf    \* [Writers -> the calls it may make]

Ops == {"append", "save", "rename", "update", "delete"}

ASSUME SessionAssumption == /\ ProcessOf \in [Writers -> Processes]
                            /\ OpsOf \in [Writers -> SUBSET Ops]
                            /\ NoLock \notin Writers
                            /\ Old \notin Writers

VARIABLES
    strict,     \* FORGEPILOT_SESSION_STRICT_PARITY
    legacy,     \* the session has a file in the legacy directory
    present,    \* transcript.json exists
    messages,   \* the messages in it
    lock,       \* who created the lock file, or NoLock without one
    old,        \* the lock file's mtime is older than _LOCK_STALE_SECONDS
    callPc,         \* [Writers -> where the call is]
    callOp,         \* [Writers -> what it does]
    migrating,  \* writers in the lock to copy the legacy file only
    base,       \* [Writers -> the messages it goes by]
    impatient,  \* writers past _LOCK_ACQUIRE_TIMEOUT_SECONDS
    todo,       \* [Writers -> what rmtree has listed and not yet removed]
    aged,       \* history: a lock file has become old
    after,      \* history: [appends and saves -> who wrote since], from its
                \* own write on, itself included
    unread,     \* history: writers whose read of the transcript failed
    buried,     \* history: [Writers -> the messages it set out to delete]
    beside      \* history: deletions beside which another kind of call ran

fileVars == <<present, messages>>
lockVars == <<lock, old, aged>>
tombVars == <<todo, buried, beside>>
sessionVars == <<strict, legacy, fileVars, lockVars, callPc, callOp, migrating, base, impatient,
          after, unread, tombVars>>

Inside   == {"load", "write", "unlock"}
Acquires == {"lock", "look", "break"}
Removes  == {"scan", "remove", "unlegacy"}
InCall     == {"peek", "thread", "replace"} \cup Acquires \cup Inside \cup Removes
Messages == Writers \cup {Old}

SessionTypeOK ==
    /\ strict \in BOOLEAN /\ legacy \in BOOLEAN /\ present \in BOOLEAN
    /\ messages \subseteq Messages /\ (present \/ messages = {})
    /\ lock \in Writers \cup {NoLock}
    /\ old \in BOOLEAN /\ aged \in BOOLEAN
    /\ callPc \in [Writers -> {"idle", "end", "dead"} \cup InCall]
    /\ callOp \in [Writers -> Ops \cup {"none"}]
    /\ base \in [Writers -> SUBSET Messages]
    /\ todo \in [Writers -> SUBSET {"file", "lock"}]
    /\ migrating \subseteq Writers /\ impatient \subseteq Writers
    /\ unread \subseteq Writers
    /\ after \in [Writers -> SUBSET Writers]
    /\ buried \in [Writers -> SUBSET Messages]
    /\ beside \subseteq Writers

SessionInit ==
    /\ strict \in BOOLEAN /\ legacy \in BOOLEAN
    /\ present = FALSE /\ messages = {}
    /\ lock = NoLock /\ old = FALSE /\ aged = FALSE
    /\ callPc = [w \in Writers |-> "idle"] /\ callOp = [w \in Writers |-> "none"]
    /\ migrating = {} /\ impatient = {} /\ unread = {}
    /\ base = [w \in Writers |-> {}] /\ todo = [w \in Writers |-> {}]
    /\ after = [w \in Writers |-> {}]
    /\ buried = [w \in Writers |-> {}] /\ beside = {}

CallGoes(w, where) == callPc' = [callPc EXCEPT ![w] = where]

\* Deletions that are under way.
Deleting == {d \in Writers : callPc[d] \in Removes}

Wrote(w) == w \in after[w]

-----------------------------------------------------------------------------
(* The calls, up to the lock.                                              *)

\* In strict mode save_session replaces the file without the lock.
Start(w, o) ==
    /\ callPc[w] = "idle" /\ o \in OpsOf[w]
    /\ callOp' = [callOp EXCEPT ![w] = o]
    /\ CallGoes(w, CASE o = "delete" -> "scan"
                 [] o = "rename" -> "peek"
                 [] o = "save" /\ strict -> "replace"
                 [] OTHER -> "thread")
    /\ beside' = IF o = "delete" THEN beside ELSE beside \cup Deleting
    /\ UNCHANGED <<strict, legacy, fileVars, lockVars, migrating, base, impatient,
                   after, unread, todo, buried>>

\* rename_session reads the transcript before it calls save_session, which
\* will write the messages read here.  Without a transcript a legacy file is
\* migrated, outside strict mode.
Peek(w) ==
    /\ callPc[w] = "peek"
    /\ \/ /\ present
          /\ base' = [base EXCEPT ![w] = messages]
          /\ CallGoes(w, IF strict THEN "replace" ELSE "thread")
          /\ UNCHANGED <<migrating, unread>>
       \/ /\ present      \* the read or the parse fails
          /\ CallGoes(w, "end")
          /\ unread' = unread \cup {w}
          /\ UNCHANGED <<base, migrating>>
       \/ /\ ~present /\ legacy /\ ~strict
          /\ base' = [base EXCEPT ![w] = {Old}]
          /\ migrating' = migrating \cup {w}
          /\ CallGoes(w, "thread")
          /\ UNCHANGED unread
       \/ /\ ~present      \* nor a legacy file that can be read
          /\ CallGoes(w, "end")
          /\ UNCHANGED <<base, migrating, unread>>
    /\ UNCHANGED <<strict, legacy, fileVars, lockVars, callOp, impatient, after, tombVars>>

\* Variant for a mutation check: there is no lock file.
ThreadOnly(w) ==
    /\ callPc[w] = "thread"
    /\ \A v \in Writers : ProcessOf[v] = ProcessOf[w] => callPc[v] \notin Acquires \cup Inside
    /\ CallGoes(w, "load")
    /\ UNCHANGED <<strict, legacy, fileVars, lockVars, callOp, migrating, base, impatient,
                   after, unread, tombVars>>

\* The RLock of the process.
GetThread(w) ==
    /\ callPc[w] = "thread"
    /\ \A v \in Writers : ProcessOf[v] = ProcessOf[w] => callPc[v] \notin Acquires \cup Inside
    /\ CallGoes(w, "lock")
    /\ UNCHANGED <<strict, legacy, fileVars, lockVars, callOp, migrating, base, impatient,
                   after, unread, tombVars>>

-----------------------------------------------------------------------------
(* The lock file.                                                          *)

\* Variant for a mutation check: the lock file is opened without O_EXCL.
CreateAnyway(w) ==
    /\ callPc[w] = "lock"
    /\ lock' = w /\ old' = FALSE
    /\ CallGoes(w, "load")
    /\ impatient' = impatient \ {w}
    /\ UNCHANGED <<strict, legacy, fileVars, aged, callOp, migrating, base,
                   after, unread, tombVars>>

Create(w) ==
    /\ callPc[w] = "lock" /\ lock = NoLock
    /\ lock' = w /\ old' = FALSE
    /\ CallGoes(w, "load")
    /\ impatient' = impatient \ {w}
    /\ UNCHANGED <<strict, legacy, fileVars, aged, callOp, migrating, base,
                   after, unread, tombVars>>

\* Writing the pid into it raises: the lock file stays behind.
CreateFails(w) ==
    /\ callPc[w] = "lock" /\ lock = NoLock
    /\ lock' = w /\ old' = FALSE
    /\ CallGoes(w, "end")
    /\ UNCHANGED <<strict, legacy, fileVars, aged, callOp, migrating, base, impatient,
                   after, unread, tombVars>>

\* The directory has gone since the call made it, and open raises.
NoDirectory(w) ==
    /\ callPc[w] = "lock" /\ lock = NoLock
    /\ \E d \in Writers : callOp[d] = "delete" /\ callPc[d] \in {"unlegacy", "end"}
    /\ CallGoes(w, "end")
    /\ UNCHANGED <<strict, legacy, fileVars, lockVars, callOp, migrating, base, impatient,
                   after, unread, tombVars>>

\* FileExistsError.
Exists(w) ==
    /\ callPc[w] = "lock" /\ lock # NoLock
    /\ CallGoes(w, "look")
    /\ UNCHANGED <<strict, legacy, fileVars, lockVars, callOp, migrating, base, impatient,
                   after, unread, tombVars>>

\* Variant for a mutation check: the time limit is not looked at.
LookForever(w) ==
    /\ callPc[w] = "look"
    /\ CallGoes(w, IF lock # NoLock /\ old THEN "break" ELSE "lock")
    /\ UNCHANGED <<strict, legacy, fileVars, lockVars, callOp, migrating, base, impatient,
                   after, unread, tombVars>>

\* The lock file's age; stat of a file that has gone meanwhile raises.
Look(w) ==
    /\ callPc[w] = "look"
    /\ CallGoes(w, IF lock # NoLock /\ old THEN "break"
               ELSE IF w \in impatient THEN "end" ELSE "lock")
    /\ UNCHANGED <<strict, legacy, fileVars, lockVars, callOp, migrating, base, impatient,
                   after, unread, tombVars>>

\* Unlink whatever is there by now.
Break(w) ==
    /\ callPc[w] = "break"
    /\ lock' = NoLock /\ old' = FALSE
    /\ CallGoes(w, "lock")
    /\ UNCHANGED <<strict, legacy, fileVars, aged, callOp, migrating, base, impatient,
                   after, unread, tombVars>>

\* finally: unlink whatever is there; a migration goes on to the real save.
Unlock(w) ==
    /\ callPc[w] = "unlock"
    /\ lock' = NoLock /\ old' = FALSE
    /\ CallGoes(w, IF w \in migrating THEN "thread" ELSE "end")
    /\ migrating' = migrating \ {w}
    /\ UNCHANGED <<strict, legacy, fileVars, aged, callOp, base, impatient, after, unread,
                   tombVars>>

-----------------------------------------------------------------------------
(* Inside the lock.                                                        *)

\* The existence check of a migration.
LoadToMigrate(w) ==
    /\ w \in migrating
    /\ CallGoes(w, IF present THEN "unlock" ELSE "write")
    /\ UNCHANGED <<fileVars, base, unread>>

\* A call that does not write because it got no transcript.
Skips(w) == callOp[w] = "update" \/ (callOp[w] = "append" /\ strict)

\* It reads a legacy file instead and writes its messages at once.
Migrates(w) == ~present /\ legacy /\ ~(callOp[w] = "update" /\ strict)

\* What _load_session_unlocked returns to append, update and save.
LoadFile(w) ==
    /\ w \notin migrating
    /\ \/ /\ present
          /\ base' = IF callOp[w] \in {"append", "update"} THEN [base EXCEPT ![w] = messages] ELSE base
          /\ CallGoes(w, "write")
          /\ UNCHANGED <<fileVars, unread>>
       \/ /\ present      \* the read or the parse fails
          /\ unread' = unread \cup {w}
          /\ CallGoes(w, IF Skips(w) THEN "unlock" ELSE "write")
          /\ UNCHANGED <<fileVars, base>>
       \/ /\ Migrates(w)
          /\ present' = TRUE /\ messages' = {Old}
          /\ base' = IF callOp[w] \in {"append", "update"} THEN [base EXCEPT ![w] = {Old}] ELSE base
          /\ CallGoes(w, "write")
          /\ UNCHANGED unread
       \/ /\ ~present      \* nor a legacy file that can be read
          /\ CallGoes(w, IF Skips(w) THEN "unlock" ELSE "write")
          /\ UNCHANGED <<fileVars, base, unread>>

Load(w) ==
    /\ callPc[w] = "load"
    /\ LoadToMigrate(w) \/ LoadFile(w)
    /\ UNCHANGED <<strict, legacy, lockVars, callOp, migrating, impatient, after, tombVars>>

\* Variant for a mutation check: an append forgets the messages it loaded.
PayloadAlone(w) ==
    IF w \in migrating THEN {Old}
    ELSE CASE callOp[w] \in {"append", "save"} -> {w}
           [] OTHER -> base[w]

\* The messages of the payload that w writes.
Payload(w) ==
    IF w \in migrating THEN {Old}
    ELSE CASE callOp[w] = "append" -> base[w] \cup {w}
           [] callOp[w] = "save"   -> {w}
           [] OTHER            -> base[w]

\* os.replace.
Store(w) ==
    /\ present' = TRUE
    /\ messages' = Payload(w)
    /\ after' = IF w \in migrating THEN after
                ELSE [v \in Writers |-> IF Wrote(v) \/ (v = w /\ callOp[w] \in {"append", "save"})
                                        THEN after[v] \cup {w} ELSE after[v]]

Write(w) ==
    /\ callPc[w] = "write"
    /\ Store(w)
    /\ CallGoes(w, "unlock")
    /\ UNCHANGED <<strict, legacy, lockVars, callOp, migrating, base, impatient, unread, tombVars>>

\* Writing the temporary file or replacing the transcript raises.
WriteFails(w) ==
    /\ \/ callPc[w] \in {"write", "replace"}
       \/ callPc[w] = "load" /\ w \notin migrating /\ Migrates(w)
    /\ CallGoes(w, IF callPc[w] = "replace" THEN "end" ELSE "unlock")
    /\ migrating' = migrating \ {w}
    /\ UNCHANGED <<strict, legacy, fileVars, lockVars, callOp, base, impatient, after, unread, tombVars>>

\* save_session in strict mode.
Replace(w) ==
    /\ callPc[w] = "replace"
    /\ Store(w)
    /\ CallGoes(w, "end")
    /\ UNCHANGED <<strict, legacy, lockVars, callOp, migrating, base, impatient, unread, tombVars>>

-----------------------------------------------------------------------------
(* delete_session takes no lock.                                           *)

\* Variant for a mutation check: rmtree is to remove the legacy file as well.
ScanAll(w) ==
    /\ callPc[w] = "scan"
    /\ CallGoes(w, "remove")
    /\ todo' = [todo EXCEPT ![w] = {"file", "lock", "legacy"}]
    /\ UNCHANGED <<strict, legacy, fileVars, lockVars, callOp, migrating, base, impatient,
                   after, unread, buried, beside>>

\* rmtree lists the directory.
Scan(w) ==
    /\ callPc[w] = "scan"
    /\ CallGoes(w, "remove")
    /\ todo' = [todo EXCEPT ![w] = (IF present THEN {"file"} ELSE {})
                                   \cup (IF lock # NoLock THEN {"lock"} ELSE {})]
    /\ buried' = [buried EXCEPT ![w] = messages \cup (IF legacy THEN {Old} ELSE {})]
    /\ beside' = IF \E v \in Writers : callPc[v] \in InCall /\ callOp[v] # "delete"
                 THEN beside \cup {w} ELSE beside
    /\ UNCHANGED <<strict, legacy, fileVars, lockVars, callOp, migrating, base, impatient,
                   after, unread>>

RemoveFile(w) ==
    /\ callPc[w] = "remove" /\ "file" \in todo[w]
    /\ todo' = [todo EXCEPT ![w] = @ \ {"file"}]
    /\ present' = FALSE /\ messages' = {}
    /\ UNCHANGED <<strict, legacy, lockVars, callPc, callOp, migrating, base, impatient,
                   after, unread, buried, beside>>

RemoveLock(w) ==
    /\ callPc[w] = "remove" /\ "lock" \in todo[w]
    /\ todo' = [todo EXCEPT ![w] = @ \ {"lock"}]
    /\ lock' = NoLock /\ old' = FALSE
    /\ UNCHANGED <<strict, legacy, fileVars, aged, callPc, callOp, migrating, base, impatient,
                   after, unread, buried, beside>>

Removed(w) ==
    /\ callPc[w] = "remove" /\ todo[w] = {}
    /\ CallGoes(w, "unlegacy")
    /\ UNCHANGED <<strict, legacy, fileVars, lockVars, callOp, migrating, base, impatient,
                   after, unread, tombVars>>

\* Variant for a mutation check: the legacy file is left.
KeepLegacy(w) ==
    /\ callPc[w] = "unlegacy"
    /\ CallGoes(w, "end")
    /\ UNCHANGED <<strict, legacy, fileVars, lockVars, callOp, migrating, base, impatient,
                   after, unread, tombVars>>

Unlegacy(w) ==
    /\ callPc[w] = "unlegacy"
    /\ legacy' = FALSE
    /\ CallGoes(w, "end")
    /\ UNCHANGED <<strict, fileVars, lockVars, callOp, migrating, base, impatient,
                   after, unread, tombVars>>

-----------------------------------------------------------------------------
(* Time and crashes.                                                       *)

\* 10 s have passed since w began to try.
Patience(w) ==
    /\ callPc[w] \in {"lock", "look"} /\ w \notin impatient
    /\ impatient' = impatient \cup {w}
    /\ UNCHANGED <<strict, legacy, fileVars, lockVars, callPc, callOp, migrating, base,
                   after, unread, tombVars>>

\* The lock file is 60 s old, whether or not its creator is still at work.
Age ==
    /\ lock # NoLock /\ ~old
    /\ old' = TRUE /\ aged' = TRUE
    /\ UNCHANGED <<strict, legacy, fileVars, lock, callPc, callOp, migrating, base, impatient,
                   after, unread, tombVars>>

ProcessDies(p) ==
    /\ callPc' = [w \in Writers |-> IF ProcessOf[w] = p /\ callPc[w] \in InCall THEN "dead" ELSE callPc[w]]
    /\ UNCHANGED <<strict, legacy, fileVars, lockVars, callOp, migrating, base, impatient,
                   after, unread, tombVars>>

-----------------------------------------------------------------------------
Step(w) == \/ Peek(w) \/ GetThread(w)
           \/ Create(w) \/ CreateFails(w) \/ NoDirectory(w) \/ Exists(w) \/ Look(w) \/ Break(w)
           \/ Load(w) \/ Write(w) \/ WriteFails(w) \/ Unlock(w) \/ Replace(w)
           \/ Scan(w) \/ RemoveFile(w) \/ RemoveLock(w) \/ Removed(w) \/ Unlegacy(w)

SessionNext == \/ \E w \in Writers : Step(w) \/ Patience(w)
        \/ \E w \in Writers, o \in Ops : Start(w, o)
        \/ Age
        \/ \E p \in Processes : ProcessDies(p)

SessionSpec == SessionInit /\ [][SessionNext]_sessionVars

SessionFairSpec == SessionSpec /\ (\A w \in Writers : WF_sessionVars(Step(w))) /\ WF_sessionVars(\E w \in Writers : Patience(w))

-----------------------------------------------------------------------------
(* Properties.                                                             *)

\* No lock file has become old, and nobody deletes the session.
Calm == ~aged /\ \A w \in Writers : callOp[w] # "delete"

\* While no lock file gets old and nobody deletes the session, at most one
\* writer is inside _session_write_lock, whoever crashes, times out or fails.
Exclusive ==
    Calm => \A v, w \in Writers : callPc[v] \in Inside /\ callPc[w] \in Inside => v = w

\* Under the same conditions the message of an append that was written stays,
\* unless save_session replaced the messages, a rename or tag wrote back the
\* messages it had read before the append (session.py:453-461, 470-478), or an append
\* could not read the transcript and started it anew (321-331).
AppendsKept ==
    Calm => \A w \in Writers :
        Wrote(w) /\ callOp[w] = "append" =>
            \/ w \in messages
            \/ \E v \in after[w] \ {w} :
                  \/ callOp[v] = "save"
                  \/ callOp[v] = "rename" /\ w \notin base[v]
                  \/ callOp[v] = "append" /\ v \in unread

\* Under the same conditions what a save wrote stays too, and in strict mode,
\* where it writes without the lock, an append or update may undo it as well.
SavesKept ==
    Calm => \A w \in Writers :
        Wrote(w) /\ callOp[w] = "save" =>
            \/ w \in messages
            \/ \E v \in after[w] \ {w} :
                  \/ callOp[v] = "save"
                  \/ callOp[v] = "rename" /\ w \notin base[v]
                  \/ callOp[v] = "append" /\ v \in unread
                  \/ callOp[v] \in {"append", "update"} /\ strict

\* When delete_session has returned, what it set out to delete comes back only
\* through a call that ran beside it (it takes no lock, session.py:513-522).
NoGhost ==
    \A d \in Writers :
        callOp[d] = "delete" /\ callPc[d] = "end" /\ messages \cap buried[d] # {}
            => d \in beside

\* Every call comes back, with the lock, without it or with a TimeoutError
\* (_LOCK_ACQUIRE_TIMEOUT_SECONDS, session.py:186-188), unless its process dies:
\* in the end, as each writer makes one call, nobody is on the way any more.
CallReturns == <>[](\A w \in Writers : callPc[w] \notin InCall)
=============================================================================
