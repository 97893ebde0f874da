---------------------------- MODULE SdkSessions ----------------------------
(***************************************************************************)
(* The SDK's transcripts (session.ts): one JSON file per session, which    *)
(* every change reads and writes as a whole, with awaits between.          *)
(***************************************************************************)
EXTENDS Naturals, Sequences, FiniteSets

CONSTANTS
    SessionIds,         \* sessions
    MaxJobs             \* bound: calls on sessions, which also name what they write
ASSUME JobsAssumption == MaxJobs \in Nat

VARIABLES
    file,           \* transcripts: session -> [state, msgs, title]
    jobs,           \* calls under way: set of records
    jobCount,
    wants,          \* history: what the calls that returned have made of a session
    overlapped      \* history: sessions on which two calls have overlapped, and their forks

sdkSessionVars == <<file, jobs, jobCount, wants, overlapped>>

NoSession == [state |-> "none", msgs |-> <<>>, title |-> 0]
JobKinds == {"save", "append", "rename", "fork", "delete"}
Jobs == 0 .. MaxJobs

SessionsTypeOK ==
    /\ \A s \in SessionIds : /\ file[s].state \in {"none", "torn", "whole", "mixed"}
                             /\ file[s].msgs \in Seq(Jobs) /\ file[s].title \in Jobs
                             /\ wants[s].msgs \in Seq(Jobs) /\ wants[s].title \in Jobs
    /\ \A j \in jobs : /\ j.n \in Jobs /\ j.kind \in JobKinds /\ {j.from, j.to} \subseteq SessionIds
                       /\ j.pc \in {"load", "open", "write"} /\ j.msgs \in Seq(Jobs) /\ j.title \in Jobs
    /\ jobCount \in Jobs /\ overlapped \subseteq SessionIds

SdkSessionsInit ==
    /\ file = [s \in SessionIds |-> NoSession] /\ wants = [s \in SessionIds |-> NoSession]
    /\ jobs = {} /\ jobCount = 0 /\ overlapped = {}

-----------------------------------------------------------------------------
(* Transcripts.                                                            *)

\* A call on a session; a save, which an agent does on close, begins with
\* opening the file, with the agent's own messages.
CallSession ==
    /\ jobCount < MaxJobs /\ jobCount' = jobCount + 1
    /\ \E k \in JobKinds, s, t \in SessionIds :
         /\ (k = "fork") # (s = t)
         /\ jobs' = jobs \cup {[n |-> jobCount', kind |-> k, from |-> s, to |-> t, msgs |-> <<jobCount'>>, title |-> 0,
                                pc |-> IF k = "save" THEN "open" ELSE IF k = "delete" THEN "write" ELSE "load"]}
         /\ LET met == overlapped \cup {x \in {s, t} : \E j \in jobs : x \in {j.from, j.to}} IN
              overlapped' = met \cup {j.to : j \in {x \in jobs' : x.from \in met}}
    /\ UNCHANGED <<file, wants>>

\* Variant for a mutation check: a rename writes the title alone.
TitleOnly(j, f) == [j EXCEPT !.pc = "open", !.msgs = <<>>, !.title = j.n]

\* What the call makes of the transcript it has read.
Changed(j, f) ==
    [j EXCEPT !.pc = "open",
              !.msgs = IF j.kind = "append" THEN Append(f.msgs, j.n) ELSE f.msgs,
              !.title = IF j.kind = "append" THEN f.title ELSE j.n]

\* loadSession: a file that is missing or cannot be parsed ends the call.
LoadSession ==
    /\ \E j \in jobs :
         /\ j.pc = "load"
         /\ jobs' = IF file[j.from].state = "whole" THEN (jobs \ {j}) \cup {Changed(j, file[j.from])} ELSE jobs \ {j}
    /\ UNCHANGED <<file, jobCount, wants, overlapped>>

\* saveSession: the file is made, or cut.
OpenFile ==
    /\ \E j \in jobs :
         /\ j.pc = "open" /\ jobs' = (jobs \ {j}) \cup {[j EXCEPT !.pc = "write"]}
         /\ file' = [file EXCEPT ![j.to] = [NoSession EXCEPT !.state = "torn"]]
    /\ UNCHANGED <<jobCount, wants, overlapped>>

\* ... and written: over what another call wrote since, of which the end may
\* stay; into nothing, if the session was deleted since.
WriteFile(j) ==
    \E state \in {"whole", "mixed"} :
        /\ state = "mixed" => file[j.to].state \in {"whole", "mixed"}
        /\ file' = IF file[j.to].state = "none" THEN file
                   ELSE [file EXCEPT ![j.to] = [state |-> state, msgs |-> j.msgs, title |-> j.title]]

\* What a call that returns means to have done.
Wanted(j) ==
    CASE j.kind = "save" -> [state |-> "whole", msgs |-> j.msgs, title |-> 0]
      [] j.kind = "append" -> [wants[j.to] EXCEPT !.msgs = Append(@, j.n)]
      [] j.kind = "rename" -> [wants[j.to] EXCEPT !.title = j.n]
      [] j.kind = "fork" -> [wants[j.from] EXCEPT !.title = j.n]
      [] j.kind = "delete" -> NoSession

EndSession ==
    /\ \E j \in jobs :
         /\ j.pc = "write" /\ jobs' = jobs \ {j}
         /\ IF j.kind = "delete" THEN file' = [file EXCEPT ![j.to] = NoSession] ELSE WriteFile(j)
         /\ wants' = [wants EXCEPT ![j.to] = Wanted(j)]
    /\ UNCHANGED <<jobCount, overlapped>>

\* The process ends.
SdkCrash ==
    /\ jobs # {} /\ jobs' = {}
    /\ overlapped' = overlapped \cup {j.to : j \in {x \in jobs : x.pc = "write"}}
    /\ UNCHANGED <<file, jobCount, wants>>

SdkSessionsNext == CallSession \/ LoadSession \/ OpenFile \/ EndSession \/ SdkCrash

SdkSessionsSpec == SdkSessionsInit /\ [][SdkSessionsNext]_sdkSessionVars
-----------------------------------------------------------------------------
(* Properties.                                                             *)

\* When no call is under way, a session's file holds what the calls that
\* returned have made of it, unless two of them overlapped or the process
\* ended while one wrote.
CallsOnSessionsAdd ==
    \A s \in SessionIds \ overlapped :
        (\A j \in jobs : j.to # s) => file[s] = wants[s]
=============================================================================
