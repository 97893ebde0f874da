---------------------------- MODULE RecordProofs -----------------------------
(***************************************************************************)
(* Proofs about what the server keeps: plans and tasks (Execution), for    *)
(* every set of plans, requests and tasks, and transcripts (SessionFile),  *)
(* for any writers and processes.                                          *)
(***************************************************************************)
EXTENDS Execution, SessionFile, TLAPS

-----------------------------------------------------------------------------
(* Execution.                                                              *)

\* What a request is before it arrives, and what it has once it has arrived.
Requested ==
    \A r \in Requests :
       /\ pc[r] = "idle" => /\ plan[r] = NoPlan /\ verdict[r] = "none"
                            /\ r \notin found \cup late \cup gone \cup runs \cup counted
       /\ pc[r] # "idle" => /\ plan[r] \in Plans /\ planner[plan[r]] = "offered"
                            /\ op[r] # "none"
       /\ pc[r] \in {"gate", "gated", "fetch", "fetched"} => r \notin runs
       /\ pc[r] \in {"pop", "delete"} => r \in runs
       /\ pc[r] \in Persisting => task[r] \in Tasks
       /\ op[r] = "get" => r \notin runs /\ pc[r] \in {"gate", "gated", "end"}

\* A plan that was deleted has no row, is not offered again, and is what the
\* late requests asked for.
Deleted == /\ spent \cap rows = {}
           /\ \A p \in rows \cup spent : planner[p] = "offered"
           /\ \A r \in late : plan[r] \in spent

\* A late request never finds its plan.
LateMiss == late \cap found = {}

\* Request r may still hold a copy of p in _local_plans.
Holds(r, p) == /\ r \notin late /\ plan[r] = p
               /\ \/ op[r] = "get" \/ r \in gone
                  \/ pc[r] \in {"fetch", "fetched"}
                  \/ r \in runs /\ pc[r] \in Streaming \cup {"pop"}

\* StaleCopyExplained, from the moment on when a deletion is under way.
Copies == \A p \in local :
             (p \in spent \/ \E s \in Requests : pc[s] = "delete" /\ plan[s] = p)
                => \E r \in Requests : Holds(r, p)

IInv == TypeOK /\ Requested /\ Deleted /\ LateMiss /\ NoReplay /\ Copies

-----------------------------------------------------------------------------
LEMMA InitIInv == Init => IInv
  BY ExecutionAssumption DEF Init, IInv, TypeOK, Requested, Deleted, LateMiss, NoReplay,
     Copies, Persisting, Busy, Streaming, Statuses

\* Every step keeps the types.
LEMMA TypeStep ==
    ASSUME TypeOK, Requested, [Next]_vars
    PROVE  TypeOK'
<1>p. \A r \in Requests : pc[r] # "idle" => plan[r] \in Plans
  BY DEF Requested
<1> USE DEF TypeOK, Busy, Streaming, Persisting, Statuses
<1>1. ASSUME NEW p \in Plans, SaveLocal(p) PROVE TypeOK'
  BY <1>1 DEF SaveLocal, reqVars, runVars, taskVars
<1>2. ASSUME NEW p \in Plans, SaveRow(p) PROVE TypeOK'
  BY <1>2 DEF SaveRow, reqVars, runVars, taskVars
<1>3. ASSUME NEW p \in Plans, Expire(p) PROVE TypeOK'
  BY <1>3 DEF Expire, reqVars, runVars, taskVars
<1>4. ASSUME NEW r \in Requests, NEW p \in Plans, NEW o \in {"execute", "get"},
             NEW t \in Tasks \cup {NoTask}, Post(r, p, o, t)
      PROVE  TypeOK'
  BY <1>4 DEF Post, Goto, planVars, runVars, taskVars
<1>5. ASSUME NEW r \in Requests, GateRead(r) \/ PhaseRead(r) PROVE TypeOK'
  BY <1>5 DEF GateRead, PhaseRead, ReadRow, Goto, planVars, reqVars, runVars, taskVars
<1>6. ASSUME NEW r \in Requests, GateApply(r) PROVE TypeOK'
  BY <1>6, <1>p DEF GateApply, Refresh, Goto, reqVars, runVars, taskVars
<1>7. ASSUME NEW r \in Requests, PhaseApply(r) PROVE TypeOK'
  BY <1>7, <1>p DEF PhaseApply, Refresh, Goto, reqVars, taskVars
<1>8. ASSUME NEW r \in Requests, Yield(r) PROVE TypeOK'
  BY <1>8 DEF Yield, Yields, Goto, planVars, reqVars, taskVars
<1>9. ASSUME NEW r \in Requests, Lookup(r) \/ Reserve(r) PROVE TypeOK'
  BY <1>9 DEF Lookup, Reserve, Goto, planVars, reqVars, runVars, taskVars
<1>10. ASSUME NEW r \in Requests, Upsert(r) PROVE TypeOK'
  BY <1>10 DEF Upsert, Goto, planVars, reqVars, runVars
<1>11. ASSUME NEW r \in Requests, Record(r) PROVE TypeOK'
  BY <1>11 DEF Record, NewStatus, Goto, planVars, reqVars, runVars
<1>12. ASSUME NEW r \in Requests, Finish(r) \/ Pop(r) \/ Delete(r) PROVE TypeOK'
  BY <1>12, <1>p DEF Finish, Pop, Delete, Goto, planVars, reqVars, runVars, taskVars
<1>13. ASSUME NEW r \in Requests, Abandon(r) \/ DeleteCancelled(r) PROVE TypeOK'
  BY <1>13 DEF Abandon, DeleteCancelled, Goto, planVars, reqVars, runVars, taskVars
<1>14. ASSUME Crash PROVE TypeOK'
  BY <1>14 DEF Crash, reqVars, runVars, taskVars
<1>15. ASSUME UNCHANGED vars PROVE TypeOK'
  BY <1>15 DEF vars, planVars, reqVars, runVars, taskVars
<1> QED
  BY <1>1, <1>2, <1>3, <1>4, <1>5, <1>6, <1>7, <1>8, <1>9, <1>10, <1>11, <1>12,
     <1>13, <1>14, <1>15 DEF Next, Serve

-----------------------------------------------------------------------------
(* The other conjuncts; a step of a request is one of few kinds.           *)

LEMMA RequestedStep ==
    ASSUME TypeOK, Requested, [Next]_vars
    PROVE  Requested'
<1> USE DEF TypeOK, Busy, Streaming, Persisting, Requested
<1>1. ASSUME NEW p \in Plans, SaveLocal(p) \/ SaveRow(p) \/ Expire(p) PROVE Requested'
  BY <1>1 DEF SaveLocal, SaveRow, Expire, reqVars, runVars, taskVars
<1>4. ASSUME NEW r \in Requests, NEW p \in Plans, NEW o \in {"execute", "get"},
             NEW t \in Tasks \cup {NoTask}, Post(r, p, o, t)
      PROVE  Requested'
  BY <1>4 DEF Post, Goto, planVars, runVars, taskVars
<1>5. ASSUME NEW r \in Requests, GateRead(r) \/ PhaseRead(r) PROVE Requested'
  BY <1>5 DEF GateRead, PhaseRead, ReadRow, Goto, planVars, reqVars, runVars, taskVars
<1>6. ASSUME NEW r \in Requests, GateApply(r) PROVE Requested'
  BY <1>6 DEF GateApply, Goto, reqVars, runVars, taskVars
<1>7. ASSUME NEW r \in Requests, PhaseApply(r) PROVE Requested'
  BY <1>7 DEF PhaseApply, Goto, reqVars, taskVars
<1>8. ASSUME NEW r \in Requests, Yield(r) PROVE Requested'
  <2>1. /\ pc[r] = "emit"
        /\ pc' = [pc EXCEPT ![r] = IF task[r] = NoTask THEN "emit" ELSE "lookup"]
        /\ UNCHANGED <<planVars, reqVars, found, runs, taskVars, gone>>
    BY <1>8 DEF Yield, Goto
  <2> QED
    BY <2>1 DEF planVars, reqVars, taskVars
<1>9. ASSUME NEW r \in Requests, Lookup(r) \/ Reserve(r) PROVE Requested'
  BY <1>9 DEF Lookup, Reserve, Goto, planVars, reqVars, runVars, taskVars
<1>10. ASSUME NEW r \in Requests, Upsert(r) PROVE Requested'
  BY <1>10 DEF Upsert, Goto, planVars, reqVars, runVars
<1>11. ASSUME NEW r \in Requests, Record(r) PROVE Requested'
  BY <1>11 DEF Record, Goto, planVars, reqVars, runVars
<1>12. ASSUME NEW r \in Requests, Finish(r) \/ Pop(r) \/ Delete(r) PROVE Requested'
  BY <1>12 DEF Finish, Pop, Delete, Goto, planVars, reqVars, runVars, taskVars
<1>13. ASSUME NEW r \in Requests, Abandon(r) \/ DeleteCancelled(r) PROVE Requested'
  BY <1>13 DEF Abandon, DeleteCancelled, Goto, planVars, reqVars, runVars, taskVars
<1>14. ASSUME Crash PROVE Requested'
  BY <1>14 DEF Crash, reqVars, runVars, taskVars
<1>15. ASSUME UNCHANGED vars PROVE Requested'
  BY <1>15 DEF vars, planVars, reqVars, runVars, taskVars
<1> QED
  BY <1>1, <1>4, <1>5, <1>6, <1>7, <1>8, <1>9, <1>10, <1>11, <1>12,
     <1>13, <1>14, <1>15 DEF Next, Serve

LEMMA DeletedStep ==
    ASSUME IInv, [Next]_vars
    PROVE  Deleted' /\ LateMiss' /\ NoReplay'
<1> USE DEF IInv, TypeOK, Requested, Deleted, LateMiss, NoReplay
<1>1. ASSUME NEW p \in Plans, SaveLocal(p) \/ SaveRow(p) \/ Expire(p)
      PROVE  Deleted' /\ LateMiss' /\ NoReplay'
  BY <1>1 DEF SaveLocal, SaveRow, Expire, reqVars, runVars, taskVars
<1>2. ASSUME NEW r \in Requests, NEW p \in Plans, NEW o \in {"execute", "get"},
             NEW t \in Tasks \cup {NoTask}, Post(r, p, o, t)
      PROVE  Deleted' /\ LateMiss' /\ NoReplay'
  BY <1>2 DEF Post, planVars, runVars, taskVars
<1>3. ASSUME NEW r \in Requests, GateRead(r) \/ PhaseRead(r)
      PROVE  Deleted' /\ LateMiss' /\ NoReplay'
  BY <1>3 DEF GateRead, PhaseRead, ReadRow, planVars, reqVars, runVars, taskVars
<1>4. ASSUME NEW r \in Requests, GateApply(r) \/ PhaseApply(r)
      PROVE  Deleted' /\ LateMiss' /\ NoReplay'
  BY <1>4 DEF GateApply, PhaseApply, reqVars, runVars, taskVars
<1>5. ASSUME NEW r \in Requests,
             Yield(r) \/ Lookup(r) \/ Reserve(r) \/ Upsert(r) \/ Record(r) \/ Finish(r)
      PROVE  Deleted' /\ LateMiss' /\ NoReplay'
  <2>1. UNCHANGED <<planner, rows, late, plan, found, runs, spent>>
    BY <1>5 DEF Yield, Lookup, Reserve, Upsert, Record, Finish, planVars, reqVars, runVars
  <2> QED
    BY <2>1
<1>6. ASSUME NEW r \in Requests, Pop(r) \/ Delete(r) \/ Abandon(r) \/ DeleteCancelled(r)
      PROVE  Deleted' /\ LateMiss' /\ NoReplay'
  BY <1>6 DEF Pop, Delete, Abandon, DeleteCancelled, planVars, reqVars, runVars, Streaming,
     Persisting
<1>7. ASSUME Crash PROVE Deleted' /\ LateMiss' /\ NoReplay'
  BY <1>7 DEF Crash, reqVars, runVars
<1>8. ASSUME UNCHANGED vars PROVE Deleted' /\ LateMiss' /\ NoReplay'
  BY <1>8 DEF vars, planVars, reqVars, runVars
<1> QED
  BY <1>1, <1>2, <1>3, <1>4, <1>5, <1>6, <1>7, <1>8 DEF Next, Serve
-----------------------------------------------------------------------------
(* Stale copies.                                                           *)

\* Plan p is deleted or about to be.
Leaving(p) == p \in spent \/ \E s \in Requests : pc[s] = "delete" /\ plan[s] = p

\* A step that adds no copy and starts no deletion, and after which whoever
\* held a copy still does.
LEMMA CopiesKept ==
    ASSUME Copies,
           \A p \in local' : p \in local /\ (Leaving(p)' => Leaving(p)),
           \A p \in local', r \in Requests : Holds(r, p) => Holds(r, p)'
    PROVE  Copies'
  BY DEF Copies, Leaving

\* What a lookup does to the copies when it goes on to be at `where`.
LEMMA CopiesRefreshed ==
    ASSUME IInv, NEW r \in Requests, NEW where, Refresh(r), plan[r] \in Plans,
           pc' = [pc EXCEPT ![r] = where], where # "delete",
           UNCHANGED <<spent, late, plan, op, gone>>, runs \subseteq runs',
           \A s \in Requests \ {r} : s \in runs => s \in runs',
           r \in found => Holds(r, plan[r])',
           r \notin runs
    PROVE  Copies'
<1> USE DEF IInv, TypeOK, Requested
<1>1. ASSUME NEW s \in Requests, NEW p, Holds(s, p), s # r PROVE Holds(s, p)'
  BY <1>1 DEF Holds
<1>2. ASSUME NEW p, Leaving(p)' PROVE Leaving(p)
  BY <1>2 DEF Leaving
<1>3. CASE r \in found
  <2>1. local' = local \cup {plan[r]} /\ Holds(r, plan[r])'
    BY <1>3 DEF Refresh
  <2>2. ASSUME NEW p \in local', Leaving(p)' PROVE \E s \in Requests : Holds(s, p)'
    <3>1. CASE p = plan[r]
      BY <2>1, <3>1
    <3>2. CASE p # plan[r]
      <4>1. PICK s \in Requests : Holds(s, p)
        BY <2>1, <2>2, <3>2, <1>2 DEF Copies, Leaving
      <4>2. s # r
        BY <4>1, <3>2 DEF Holds
      <4> QED
        BY <4>1, <4>2, <1>1
    <3> QED
      BY <3>1, <3>2
  <2> QED
    BY <2>2 DEF Copies, Leaving
<1>4. CASE r \notin found
  <2>1. local' = local \ {plan[r]}
    BY <1>4 DEF Refresh
  <2>2. ASSUME NEW p \in local', Leaving(p)' PROVE \E s \in Requests : Holds(s, p)'
    <3>1. PICK s \in Requests : Holds(s, p)
      BY <2>1, <2>2, <1>2 DEF Copies, Leaving
    <3>2. s # r
      BY <3>1, <2>1 DEF Holds
    <3> QED
      BY <3>1, <3>2, <1>1
  <2> QED
    BY <2>2 DEF Copies, Leaving
<1> QED
  BY <1>3, <1>4

LEMMA CopiesStep ==
    ASSUME IInv, [Next]_vars
    PROVE  Copies'
<1> USE DEF IInv, TypeOK, Requested
<1>c. Copies
  OBVIOUS
<1>1. ASSUME NEW p \in Plans, SaveLocal(p) PROVE Copies'
  <2>1. /\ planner[p] = "idle" /\ local' = local \cup {p}
        /\ UNCHANGED <<pc, op, plan, late, found, runs, spent, gone>>
    BY <1>1 DEF SaveLocal, reqVars, runVars
  <2>2. ~Leaving(p)
    BY <2>1 DEF Leaving, Deleted
  <2>3. \A q : /\ Leaving(q)' => Leaving(q)
               /\ \A r \in Requests : Holds(r, q) => Holds(r, q)'
    BY <2>1 DEF Leaving, Holds
  <2> QED
    BY <2>1, <2>2, <2>3 DEF Copies, Leaving
<1>2. ASSUME NEW p \in Plans, SaveRow(p) \/ Expire(p) PROVE Copies'
  <2>1. UNCHANGED <<local, pc, op, plan, late, runs, spent, gone>>
    BY <1>2 DEF SaveRow, Expire, reqVars, runVars
  <2> QED
    BY <2>1, <1>c DEF Copies, Holds
<1>3. ASSUME NEW r \in Requests, NEW p \in Plans, NEW o \in {"execute", "get"},
             NEW t \in Tasks \cup {NoTask}, Post(r, p, o, t)
      PROVE  Copies'
  <2>1. /\ pc[r] = "idle" /\ pc' = [pc EXCEPT ![r] = "gate"]
        /\ op' = [op EXCEPT ![r] = o] /\ plan' = [plan EXCEPT ![r] = p]
        /\ UNCHANGED <<local, found, runs, spent, gone>>
        /\ \A s \in Requests \ {r} : s \in late' <=> s \in late
    BY <1>3 DEF Post, Goto, planVars, runVars
  <2>2. ASSUME NEW q \in local', Leaving(q)' PROVE Leaving(q)
    BY <2>1, <2>2 DEF Leaving
  <2>3. ASSUME NEW q \in local', NEW s \in Requests, Holds(s, q) PROVE Holds(s, q)'
    <3>1. s # r
      BY <2>1, <2>3, ExecutionAssumption DEF Holds
    <3> QED
      BY <2>1, <2>3, <3>1 DEF Holds
  <2> QED
    BY <2>1, <2>2, <2>3, <1>c, CopiesKept
<1>4. ASSUME NEW r \in Requests, GateRead(r) \/ PhaseRead(r) PROVE Copies'
  <2>1. /\ UNCHANGED <<local, op, plan, late, runs, spent, gone>>
        /\ \/ pc[r] = "gate" /\ pc' = [pc EXCEPT ![r] = "gated"]
           \/ pc[r] = "fetch" /\ pc' = [pc EXCEPT ![r] = "fetched"]
    BY <1>4 DEF GateRead, PhaseRead, ReadRow, Goto, planVars, reqVars, runVars
  <2>2. \A q : Leaving(q)' => Leaving(q)
    BY <2>1 DEF Leaving
  <2>3. \A q : \A s \in Requests : Holds(s, q) => Holds(s, q)'
    BY <2>1 DEF Holds, Streaming, Persisting
  <2> QED
    BY <2>1, <2>2, <2>3, <1>c, CopiesKept
<1>5. ASSUME NEW r \in Requests, GateApply(r) PROVE Copies'
  <2> DEFINE where == IF r \in found /\ op[r] = "execute" THEN "fetch" ELSE "end"
  <2>1. /\ Refresh(r) /\ pc[r] = "gated" /\ pc' = [pc EXCEPT ![r] = where]
        /\ UNCHANGED <<spent, late, plan, op, gone, runs>> /\ where \in {"fetch", "end"}
    BY <1>5 DEF GateApply, Goto, reqVars, runVars
  <2>2. r \notin runs /\ plan[r] \in Plans
    BY <2>1
  <2>3. ASSUME r \in found PROVE Holds(r, plan[r])'
    <3>1. r \notin late' /\ plan'[r] = plan[r]
      BY <2>1, <2>3 DEF LateMiss
    <3>2. op[r] # "none"
      BY <2>1
    <3> QED
      BY <2>1, <2>3, <3>1, <3>2 DEF Holds
  <2> HIDE DEF where
  <2> QED
    BY <2>1, <2>2, <2>3, CopiesRefreshed
<1>6. ASSUME NEW r \in Requests, PhaseApply(r) PROVE Copies'
  <2>1. /\ Refresh(r) /\ pc[r] = "fetched" /\ pc' = [pc EXCEPT ![r] = "emit"]
        /\ UNCHANGED <<spent, late, plan, op, gone>>
        /\ runs' = IF r \in found THEN runs \cup {r} ELSE runs
    BY <1>6 DEF PhaseApply, Goto, reqVars
  <2>2. r \notin runs /\ plan[r] \in Plans
    BY <2>1
  <2>3. ASSUME r \in found PROVE Holds(r, plan[r])'
    BY <2>1, <2>3 DEF Holds, LateMiss, Streaming
  <2> QED
    BY <2>1, <2>2, <2>3, CopiesRefreshed
<1>7. ASSUME NEW r \in Requests,
             Yield(r) \/ Lookup(r) \/ Reserve(r) \/ Upsert(r) \/ Record(r) \/ Finish(r)
      PROVE  Copies'
  <2>1. /\ UNCHANGED <<local, op, plan, late, runs, spent, gone>>
        /\ pc[r] \in Streaming \ {"fetch", "fetched"}
        /\ pc' = [pc EXCEPT ![r] = pc'[r]] /\ pc'[r] # "delete"
        /\ r \in runs => pc'[r] \in Streaming \cup {"pop"}
    BY <1>7 DEF Yield, Lookup, Reserve, Upsert, Record, Finish, Goto, planVars, reqVars,
       runVars, Streaming, Persisting
  <2>2. \A q : Leaving(q)' => Leaving(q)
    BY <2>1 DEF Leaving
  <2>3. \A q : \A s \in Requests : Holds(s, q) => Holds(s, q)'
    BY <2>1 DEF Holds
  <2> QED
    BY <2>1, <2>2, <2>3, <1>c, CopiesKept
<1>8. ASSUME NEW r \in Requests, Pop(r) PROVE Copies'
  <2>1. /\ pc[r] = "pop" /\ pc' = [pc EXCEPT ![r] = "delete"]
        /\ local' = local \ {plan[r]}
        /\ UNCHANGED <<op, plan, late, runs, spent, gone>>
    BY <1>8 DEF Pop, Goto, reqVars, runVars
  <2>2. \A q \in local' : Leaving(q)' => Leaving(q)
    BY <2>1 DEF Leaving
  <2>3. \A q \in local', s \in Requests : Holds(s, q) => Holds(s, q)'
    BY <2>1 DEF Holds
  <2> QED
    BY <2>1, <2>2, <2>3, <1>c, CopiesKept
<1>9. ASSUME NEW r \in Requests, Delete(r) \/ DeleteCancelled(r) PROVE Copies'
  <2>1. /\ pc[r] = "delete" /\ pc' = [pc EXCEPT ![r] = "end"]
        /\ spent' \subseteq spent \cup {plan[r]} /\ gone \subseteq gone'
        /\ UNCHANGED <<local, op, plan, late, runs>>
    BY <1>9 DEF Delete, DeleteCancelled, Goto, planVars, reqVars, runVars
  <2>2. \A q : Leaving(q)' => Leaving(q)
    BY <2>1 DEF Leaving
  <2>3. \A q : \A s \in Requests : Holds(s, q) => Holds(s, q)'
    BY <2>1 DEF Holds, Streaming, Persisting
  <2> QED
    BY <2>1, <2>2, <2>3, <1>c, CopiesKept
<1>10. ASSUME NEW r \in Requests, Abandon(r) PROVE Copies'
  <2>1. /\ pc' = [pc EXCEPT ![r] = IF r \in runs THEN "pop" ELSE "end"]
        /\ gone' = gone \cup {r}
        /\ UNCHANGED <<local, op, plan, late, runs, spent>>
    BY <1>10 DEF Abandon, Goto, planVars, reqVars, runVars
  <2>2. \A q : Leaving(q)' => Leaving(q)
    BY <2>1 DEF Leaving
  <2>3. \A q : \A s \in Requests : Holds(s, q) => Holds(s, q)'
    BY <2>1 DEF Holds
  <2> QED
    BY <2>1, <2>2, <2>3, <1>c, CopiesKept
<1>11. ASSUME Crash PROVE Copies'
  BY <1>11 DEF Crash, Copies
<1>12. ASSUME UNCHANGED vars PROVE Copies'
  BY <1>12, <1>c DEF vars, planVars, reqVars, runVars, Copies, Holds
<1> QED
  BY <1>1, <1>2, <1>3, <1>4, <1>5, <1>6, <1>7, <1>8, <1>9, <1>10, <1>11, <1>12
     DEF Next, Serve

\* IInv holds in every reachable state.
THEOREM Inductive == Spec => []IInv
<1>1. IInv /\ [Next]_vars => IInv'
  BY TypeStep, RequestedStep, DeletedStep, CopiesStep DEF IInv
<1> QED
  BY <1>1, InitIInv, PTL DEF Spec

\* Type correctness of Execution.
THEOREM ExecutionTyping == Spec => []TypeOK
<1>1. IInv => TypeOK
  BY DEF IInv
<1> QED
  BY <1>1, Inductive, PTL

\* A plan deleted by an execution is never executed for a later request.
THEOREM NoPlanReplay == Spec => []NoReplay
<1>1. IInv => NoReplay
  BY DEF IInv
<1> QED
  BY <1>1, Inductive, PTL

\* A copy of a deleted plan belongs to a lookup that raced the deletion.
THEOREM CopiesExplained == Spec => []StaleCopyExplained
<1>1. IInv => StaleCopyExplained
  BY DEF IInv, Copies, Holds, StaleCopyExplained, TypeOK
<1> QED
  BY <1>1, Inductive, PTL

-----------------------------------------------------------------------------
(* Persistence.                                                            *)

\* CountFollowsTasks, with the reservation that comes before the task.
Counts == /\ CountFollowsTasks
          /\ \A r \in Requests : pc[r] = "upsert" => r \in counted
          /\ \A r \in counted : task[r] \in Tasks

\* A task's status was written by a request for it, the last one to write.
LastWriter ==
    /\ \A t \in Tasks : status[t] # "none" =>
          \E r \in Requests : task[r] = t /\ status[t] = verdict[r]
    /\ \A r \in Requests : verdict[r] # "none" =>
          task[r] \in Tasks /\ status[task[r]] # "none"
    /\ \A r \in Requests : pc[r] = "record" => status[task[r]] # "none"

Final    == {"completed", "error"}
Outcomes == {"blocked", "reported", "closing", "over"}

\* Where a request that is not cut off stands with its task.
OnItsWay(r) ==
    /\ pc[r] \in {"idle", "gate", "gated", "fetch", "fetched"} => verdict[r] = "none"
    /\ pc[r] = "emit" =>
          \/ phase[r] \in {"missing", "running"}
          \/ phase[r] \in Outcomes /\ (task[r] = NoTask \/ verdict[r] \in Final)
    /\ pc[r] \in Persisting =>
          \/ phase[r] = "running" /\ event[r] = "info"
          \/ phase[r] \in Outcomes /\ event[r] \in {"success", "failure", "error"}
          \/ /\ phase[r] = "over" /\ event[r] = "done"
             /\ verdict[r] \in Final /\ pc[r] \notin {"reserve", "upsert"}
    /\ pc[r] \in {"pop", "delete", "end"} /\ r \notin gone => verdict[r] # "running"
    /\ r \in gone => pc[r] \in {"pop", "delete", "end"}

TInv == IInv /\ Counts /\ LastWriter /\ \A r \in Requests : OnItsWay(r)

LEMMA InitTInv == Init => TInv
<1> SUFFICES ASSUME Init PROVE TInv
  OBVIOUS
<1>1. IInv
  BY InitIInv
<1> QED
  BY <1>1 DEF Init, TInv, Counts, CountFollowsTasks, LastWriter, OnItsWay, Persisting

\* The requests' own kinds of step, as the task and the request see them.
LEMMA TaskFrame ==
    ASSUME TInv, UNCHANGED <<taskVars, task>>,
           \A r \in Requests : pc'[r] = "upsert" => r \in counted,
           \A r \in Requests : pc[r] = "upsert" => pc'[r] = "upsert" \/ r \in gone',
           \A r \in Requests : pc'[r] = "record" => status[task[r]] # "none",
           gone \subseteq gone'
    PROVE  Counts' /\ LastWriter'
<1>1. /\ status' = status /\ owner' = owner /\ counted' = counted
      /\ verdict' = verdict /\ task' = task /\ counted \subseteq Requests
  BY DEF taskVars, TInv, IInv, TypeOK
<1>2. LastWriter'
  BY <1>1 DEF TInv, LastWriter
<1>3. \A r \in counted : \/ owner[task[r]] = r
                         \/ pc'[r] = "upsert" \/ r \in gone'
                         \/ \E s \in counted \ {r} : owner[task[r]] = s
  BY <1>1 DEF TInv, Counts, CountFollowsTasks
<1>4. Counts'
  BY <1>1, <1>3 DEF TInv, Counts, CountFollowsTasks
<1> QED
  BY <1>2, <1>4

LEMMA OnItsWayStep ==
    ASSUME TInv, [Next]_vars, NEW r \in Requests
    PROVE  OnItsWay(r)'
<1> USE DEF TInv, IInv, TypeOK, Requested
<1>0. OnItsWay(r)
  OBVIOUS
<1>s. ASSUME NEW q \in Requests, q # r, Serve(q) \/ Abandon(q) \/ DeleteCancelled(q)
      PROVE  OnItsWay(r)'
  <2>1. /\ pc'[r] = pc[r] /\ phase'[r] = phase[r] /\ event'[r] = event[r]
        /\ verdict'[r] = verdict[r] /\ task'[r] = task[r]
        /\ r \in gone' <=> r \in gone
    BY <1>s DEF Serve, GateRead, GateApply, PhaseRead, PhaseApply, ReadRow, Yield, Lookup,
       Reserve, Upsert, Record, Finish, Pop, Delete, Abandon, DeleteCancelled, Goto,
       reqVars, runVars, taskVars
  <2> QED
    BY <2>1, <1>0 DEF OnItsWay
<1>1. ASSUME NEW p \in Plans, SaveLocal(p) \/ SaveRow(p) \/ Expire(p)
      PROVE  OnItsWay(r)'
  BY <1>1, <1>0 DEF OnItsWay, SaveLocal, SaveRow, Expire, reqVars, runVars, taskVars
<1>2. ASSUME NEW q \in Requests, NEW p \in Plans, NEW o \in {"execute", "get"},
             NEW t \in Tasks \cup {NoTask}, Post(q, p, o, t)
      PROVE  OnItsWay(r)'
  <2>1. CASE q = r
    BY <1>2, <2>1, <1>0 DEF OnItsWay, Post, Goto, runVars, taskVars, Persisting
  <2>2. CASE q # r
    BY <1>2, <2>2, <1>0 DEF OnItsWay, Post, Goto, runVars, taskVars
  <2> QED
    BY <2>1, <2>2
<1>3. ASSUME GateRead(r) \/ GateApply(r) \/ PhaseRead(r) \/ PhaseApply(r)
      PROVE  OnItsWay(r)'
  BY <1>3, <1>0 DEF OnItsWay, GateRead, GateApply, PhaseRead, PhaseApply, ReadRow, Goto,
     reqVars, runVars, taskVars, Persisting
<1>4. ASSUME Yield(r) PROVE OnItsWay(r)'
  <2>1. PICK y \in Yields(r) : event'[r] = y[1] /\ phase'[r] = y[2]
    BY <1>4 DEF Yield
  <2>2. /\ pc[r] = "emit" /\ r \notin gone /\ r \notin gone'
        /\ pc'[r] = IF task[r] = NoTask THEN "emit" ELSE "lookup"
        /\ verdict'[r] = verdict[r] /\ task'[r] = task[r]
    BY <1>4, <1>0 DEF Yield, Goto, reqVars, taskVars, OnItsWay
  <2>3. \/ phase'[r] = "running" /\ event'[r] = "info"
        \/ phase'[r] \in Outcomes /\ event'[r] \in {"success", "failure", "error"}
           /\ (task[r] = NoTask \/ verdict[r] \in Final \/ task[r] # NoTask)
        \/ /\ phase'[r] = "over" /\ event'[r] = "done"
           /\ task[r] = NoTask \/ verdict[r] \in Final
    BY <2>1, <2>2, <1>0 DEF Yields, OnItsWay, Outcomes
  <2> QED
    BY <2>2, <2>3, ExecutionAssumption DEF OnItsWay, Outcomes, Persisting
<1>5. ASSUME Lookup(r) \/ Reserve(r) \/ Upsert(r) PROVE OnItsWay(r)'
  <2>1. /\ pc[r] \in Persisting /\ pc'[r] \in Persisting
        /\ phase'[r] = phase[r] /\ event'[r] = event[r] /\ gone' = gone
        /\ task'[r] = task[r]
        /\ pc'[r] \in {"reserve", "upsert"} =>
              pc[r] = "reserve" \/ verdict[r] = "none"
        /\ verdict'[r] = verdict[r] \/ pc[r] = "upsert"
    BY <1>5 DEF Lookup, Reserve, Upsert, Goto, reqVars, runVars, taskVars, Persisting,
       LastWriter
  <2> QED
    BY <2>1, <1>0 DEF OnItsWay, Persisting, Final
<1>6. ASSUME Record(r) PROVE OnItsWay(r)'
  <2>1. /\ pc[r] = "record" /\ pc'[r] = "emit" /\ r \notin gone'
        /\ phase'[r] = phase[r] /\ task'[r] = task[r]
        /\ event[r] \in {"success", "failure", "error"} => verdict'[r] \in Final
        /\ event[r] \notin {"success", "failure", "error"} => verdict'[r] = verdict[r]
    BY <1>6, <1>0 DEF Record, Goto, NewStatus, reqVars, runVars, OnItsWay, Final
  <2> QED
    BY <2>1, <1>0 DEF OnItsWay, Persisting, Outcomes
<1>7. ASSUME Finish(r) \/ Pop(r) \/ Delete(r) \/ Abandon(r) \/ DeleteCancelled(r)
      PROVE  OnItsWay(r)'
  <2>1. /\ pc'[r] \in {"pop", "delete", "end"} /\ verdict'[r] = verdict[r]
        /\ \/ r \in gone' \/ pc[r] \in {"pop", "delete"}
           \/ pc[r] = "emit" /\ phase[r] = "over"
        /\ r \in gone => r \in gone'
    BY <1>7 DEF Finish, Pop, Delete, Abandon, DeleteCancelled, Goto, taskVars
  <2>2. verdict[r] # "none" => task[r] # NoTask
    BY ExecutionAssumption DEF LastWriter
  <2> QED
    BY <2>1, <2>2, <1>0 DEF OnItsWay, Persisting, Outcomes, Final
<1>8. ASSUME Crash PROVE OnItsWay(r)'
  BY <1>8, <1>0 DEF OnItsWay, Crash, Busy, Streaming, Persisting, reqVars, runVars, taskVars
<1>9. ASSUME UNCHANGED vars PROVE OnItsWay(r)'
  BY <1>9, <1>0 DEF OnItsWay, vars, reqVars, runVars, taskVars
<1> QED
  BY <1>s, <1>1, <1>2, <1>3, <1>4, <1>5, <1>6, <1>7, <1>8, <1>9 DEF Next, Serve

LEMMA TaskStep ==
    ASSUME TInv, [Next]_vars
    PROVE  Counts' /\ LastWriter'
<1> USE DEF TInv, IInv, TypeOK, Requested
<1>1. ASSUME NEW p \in Plans, SaveLocal(p) \/ SaveRow(p) \/ Expire(p)
      PROVE  Counts' /\ LastWriter'
  <2>1. UNCHANGED <<taskVars, task, pc, gone>>
    BY <1>1 DEF SaveLocal, SaveRow, Expire, reqVars
  <2> QED
    BY <2>1, TaskFrame DEF Counts, LastWriter
<1>2. ASSUME NEW r \in Requests, NEW p \in Plans, NEW o \in {"execute", "get"},
             NEW t \in Tasks \cup {NoTask}, Post(r, p, o, t)
      PROVE  Counts' /\ LastWriter'
  <2>1. /\ r \notin counted /\ verdict[r] = "none" /\ pc[r] = "idle"
        /\ task' = [task EXCEPT ![r] = t] /\ pc' = [pc EXCEPT ![r] = "gate"]
        /\ status' = status /\ owner' = owner /\ counted' = counted
        /\ verdict' = verdict /\ gone' = gone
    BY <1>2 DEF Post, Goto, taskVars
  <2>2. \A s \in Requests : s # r => task'[s] = task[s] /\ pc'[s] = pc[s]
    BY <2>1
  <2>3. LastWriter'
    BY <2>1, <2>2 DEF LastWriter
  <2>4. Counts'
    BY <2>1, <2>2 DEF Counts, CountFollowsTasks
  <2> QED
    BY <2>3, <2>4
<1>3. ASSUME NEW r \in Requests,
             \/ GateRead(r) \/ GateApply(r) \/ PhaseRead(r) \/ PhaseApply(r) \/ Yield(r)
             \/ Lookup(r) \/ Finish(r) \/ Pop(r) \/ Delete(r) \/ Abandon(r)
             \/ DeleteCancelled(r)
      PROVE  Counts' /\ LastWriter'
  <2>1. /\ UNCHANGED <<taskVars, task>>
        /\ pc' = [pc EXCEPT ![r] = pc'[r]] /\ pc'[r] # "upsert"
        /\ pc[r] = "upsert" => r \in gone'
        /\ pc'[r] = "record" => status[task[r]] # "none"
        /\ gone \subseteq gone'
    BY <1>3 DEF GateRead, GateApply, PhaseRead, PhaseApply, ReadRow, Yield, Lookup, Finish,
       Pop, Delete, Abandon, DeleteCancelled, Goto, reqVars
  <2>2. \A s \in Requests : s # r => pc'[s] = pc[s]
    BY <2>1
  <2>3. /\ \A s \in Requests : pc'[s] = "upsert" => s \in counted
        /\ \A s \in Requests : pc[s] = "upsert" => pc'[s] = "upsert" \/ s \in gone'
        /\ \A s \in Requests : pc'[s] = "record" => status[task[s]] # "none"
    BY <2>1, <2>2 DEF Counts, LastWriter
  <2> QED
    BY <2>1, <2>3, TaskFrame
<1>4. ASSUME NEW r \in Requests, Reserve(r) PROVE Counts' /\ LastWriter'
  <2>1. /\ pc[r] = "reserve" /\ pc' = [pc EXCEPT ![r] = "upsert"]
        /\ counted' = counted \cup {r} /\ task[r] \in Tasks
        /\ task' = task /\ status' = status /\ owner' = owner
        /\ verdict' = verdict /\ gone' = gone
    BY <1>4 DEF Reserve, Goto, reqVars, Persisting
  <2>2. LastWriter'
    BY <2>1 DEF LastWriter
  <2>3. Counts'
    BY <2>1 DEF Counts, CountFollowsTasks
  <2> QED
    BY <2>2, <2>3
<1>5. ASSUME NEW r \in Requests, Upsert(r) PROVE Counts' /\ LastWriter'
  <2>1. /\ pc[r] = "upsert" /\ pc' = [pc EXCEPT ![r] = "record"]
        /\ counted' = counted /\ task[r] \in Tasks /\ r \in counted
        /\ task' = task /\ status' = [status EXCEPT ![task[r]] = "running"]
        /\ owner' = [owner EXCEPT ![task[r]] = r]
        /\ verdict' = [verdict EXCEPT ![r] = "running"] /\ gone' = gone
    BY <1>5 DEF Upsert, Goto, reqVars, Persisting, Counts
  <2>2. LastWriter'
    <3>1. ASSUME NEW t \in Tasks, status'[t] # "none"
          PROVE  \E s \in Requests : task'[s] = t /\ status'[t] = verdict'[s]
      BY <2>1, <3>1 DEF LastWriter
    <3> QED
      BY <2>1, <3>1 DEF LastWriter
  <2>3. Counts'
    <3>1. ASSUME NEW s \in counted
          PROVE  \/ owner'[task[s]] = s \/ pc'[s] = "upsert" \/ s \in gone'
                 \/ \E q \in counted \ {s} : owner'[task[s]] = q
      BY <2>1 DEF Counts, CountFollowsTasks
    <3>2. \A t \in Tasks : status'[t] # "none" => owner'[t] \in counted
      BY <2>1 DEF Counts, CountFollowsTasks
    <3> QED
      BY <2>1, <3>1, <3>2 DEF Counts, CountFollowsTasks
  <2> QED
    BY <2>2, <2>3
<1>6. ASSUME NEW r \in Requests, Record(r) PROVE Counts' /\ LastWriter'
  <2>1. PICK v \in Statuses \cup {"none"} :
           /\ pc[r] = "record" /\ pc' = [pc EXCEPT ![r] = "emit"]
           /\ \/ verdict' = verdict /\ status' = status
              \/ /\ verdict' = [verdict EXCEPT ![r] = v] /\ v # "none"
                 /\ status' = [status EXCEPT ![task[r]] = v]
    BY <1>6 DEF Record, Goto, NewStatus, Statuses
  <2>2. /\ task[r] \in Tasks /\ task' = task /\ owner' = owner /\ counted' = counted
        /\ gone' = gone /\ r \notin gone
    BY <1>6, <2>1 DEF Record, reqVars, Persisting, OnItsWay
  <2>3. status[task[r]] # "none"
    BY <2>1 DEF LastWriter
  <2>4. LastWriter'
    <3>1. ASSUME NEW t \in Tasks, status'[t] # "none"
          PROVE  \E s \in Requests : task'[s] = t /\ status'[t] = verdict'[s]
      <4>1. CASE t = task[r]
        BY <2>1, <2>2, <3>1, <4>1 DEF LastWriter
      <4>2. CASE t # task[r]
        <5>1. PICK s \in Requests : task[s] = t /\ status[t] = verdict[s]
          BY <2>1, <2>2, <3>1, <4>2 DEF LastWriter
        <5> QED
          BY <2>1, <2>2, <4>2, <5>1
      <4> QED
        BY <4>1, <4>2
    <3>2. \A t \in Tasks : status[t] # "none" => status'[t] # "none"
      BY <2>1, <2>2
    <3>3. \A s \in Requests : verdict'[s] # "none" =>
             task'[s] \in Tasks /\ status'[task'[s]] # "none"
      BY <2>1, <2>2, <2>3, <3>2 DEF LastWriter
    <3>4. \A s \in Requests : pc'[s] = "record" => status'[task'[s]] # "none"
      BY <2>1, <2>2, <3>2 DEF LastWriter, Persisting
    <3> QED
      BY <3>1, <3>3, <3>4 DEF LastWriter
  <2>5. Counts'
    BY <2>1, <2>2, <2>3 DEF Counts, CountFollowsTasks
  <2> QED
    BY <2>4, <2>5
<1>7. ASSUME Crash PROVE Counts' /\ LastWriter'
  <2>1. /\ UNCHANGED <<taskVars, task>> /\ gone \subseteq gone'
        /\ \A s \in Requests : pc'[s] = "upsert" => s \in counted
        /\ \A s \in Requests : pc[s] = "upsert" => s \in gone'
        /\ \A s \in Requests : pc'[s] = "record" => status[task[s]] # "none"
    BY <1>7 DEF Crash, reqVars, Busy, Streaming, Persisting
  <2> QED
    BY <2>1, TaskFrame
<1>8. ASSUME UNCHANGED vars PROVE Counts' /\ LastWriter'
  <2>1. UNCHANGED <<taskVars, task, pc, gone>>
    BY <1>8 DEF vars, reqVars
  <2> QED
    BY <2>1, TaskFrame DEF Counts, LastWriter
<1> QED
  BY <1>1, <1>2, <1>3, <1>4, <1>5, <1>6, <1>7, <1>8 DEF Next, Serve

LEMMA TaskInductive == Spec => []TInv
<1>1. TInv /\ [Next]_vars => TInv'
  BY TypeStep, RequestedStep, DeletedStep, CopiesStep, TaskStep, OnItsWayStep DEF TInv, IInv
<1> QED
  BY <1>1, InitTInv, PTL DEF Spec

\* A task whose requests all ended on their own has the outcome of one of them.
THEOREM TasksSettle == Spec => []TaskSettles
<1>1. ASSUME TInv PROVE TaskSettles
  <2> USE <1>1 DEF TInv, IInv, TypeOK, Requested
  <2>1. SUFFICES ASSUME NEW t \in Tasks, status[t] # "none",
                        \A r \in Requests : task[r] = t => pc[r] \in {"idle", "end"} /\ r \notin gone
                 PROVE  \E r \in Requests : /\ task[r] = t /\ status[t] = verdict[r]
                                            /\ verdict[r] # "running"
    BY DEF TaskSettles
  <2>2. PICK r \in Requests : task[r] = t /\ status[t] = verdict[r]
    BY <2>1 DEF LastWriter
  <2>3. verdict[r] # "running"
    BY <2>1, <2>2 DEF OnItsWay
  <2> QED
    BY <2>2, <2>3
<1> QED
  BY <1>1, TaskInductive, PTL

\* The task count of a session goes with its task, up to cut-off requests and
\* races for one taskId.
THEOREM CountsFollow == Spec => []CountFollowsTasks
<1>1. TInv => CountFollowsTasks
  BY DEF TInv, Counts
<1> QED
  BY <1>1, TaskInductive, PTL

-----------------------------------------------------------------------------
(* SessionFile.                                                            *)

Done == {"unlock", "end", "dead"}

\* What the places of a call say about it, and what a lock file's age says.
Phases ==
    /\ old => aged
    /\ \A w \in Writers :
          /\ callPc[w] = "idle" => callOp[w] = "none" /\ w \notin unread \cup migrating
          /\ callOp[w] = "none" => callPc[w] = "idle"
          /\ callPc[w] = "peek" => callOp[w] = "rename"
          /\ callPc[w] = "break" => aged
          /\ callPc[w] \in Removes => callOp[w] = "delete"
          /\ callPc[w] = "replace" => strict /\ callOp[w] \in {"save", "rename"} /\ w \notin migrating
          /\ callPc[w] \in {"thread"} \cup Acquires \cup Inside
                => callOp[w] \in {"append", "save", "rename", "update"}
          /\ w \in migrating => ~strict /\ callOp[w] = "rename"
          /\ callOp[w] = "update" /\ w \in unread => callPc[w] \in Done
          /\ \A v \in after[w] : callPc[v] \in Done /\ v \notin migrating

\* Whoever is inside holds the lock file.
Held == Calm => \A w \in Writers : callPc[w] \in Inside => lock = w

MInv == SessionTypeOK /\ Phases /\ Held

-----------------------------------------------------------------------------
LEMMA InitMInv == SessionInit => MInv
<1> SUFFICES ASSUME SessionInit PROVE MInv
  OBVIOUS
<1>1. SessionTypeOK
  BY SessionAssumption DEF SessionInit, SessionTypeOK
<1>2. Phases /\ Held
  BY DEF SessionInit, Phases, Held, Acquires, Inside, Removes
<1> QED
  BY <1>1, <1>2 DEF MInv

\* Every step keeps the types.
LEMMA SessionTypeStep ==
    ASSUME SessionTypeOK, [SessionNext]_sessionVars
    PROVE  SessionTypeOK'
<1> USE SessionAssumption DEF SessionTypeOK, Ops, InCall, Acquires, Inside, Removes, Messages, CallGoes,
        fileVars, lockVars, tombVars
<1>1. ASSUME NEW w \in Writers, NEW o \in Ops, Start(w, o) PROVE SessionTypeOK'
  BY <1>1 DEF Start, Deleting
<1>2. ASSUME NEW w \in Writers, Peek(w) PROVE SessionTypeOK'
  BY <1>2 DEF Peek
<1>3. ASSUME NEW w \in Writers, GetThread(w) \/ NoDirectory(w) \/ Exists(w) \/ Look(w)
      PROVE SessionTypeOK'
  BY <1>3 DEF GetThread, NoDirectory, Exists, Look
<1>4. ASSUME NEW w \in Writers, Create(w) \/ CreateFails(w) \/ Break(w) \/ Unlock(w)
      PROVE SessionTypeOK'
  BY <1>4 DEF Create, CreateFails, Break, Unlock
<1>5. ASSUME NEW w \in Writers, Load(w) PROVE SessionTypeOK'
  <2>0. \/ UNCHANGED <<present, messages>>
        \/ (present' = TRUE /\ messages' = {Old})
    BY <1>5 DEF Load, LoadToMigrate, LoadFile, Migrates
  <2>b. \/ base' = base \/ base' = [base EXCEPT ![w] = messages]
        \/ base' = [base EXCEPT ![w] = {Old}]
    BY <1>5 DEF Load, LoadToMigrate, LoadFile, Migrates
  <2>u. unread' = unread \/ unread' = unread \cup {w}
    BY <1>5 DEF Load, LoadToMigrate, LoadFile, Migrates
  <2>c. base' \in [Writers -> SUBSET Messages]
    <3>1. messages \in SUBSET Messages /\ {Old} \in SUBSET Messages
      OBVIOUS
    <3>2. base \in [Writers -> SUBSET Messages]
      OBVIOUS
    <3> HIDE DEF SessionTypeOK, Messages
    <3> QED
      BY <2>b, <3>1, <3>2
  <2>1. /\ messages' \subseteq Messages /\ present' \in BOOLEAN
        /\ (present' \/ messages' = {}) /\ unread' \subseteq Writers
    BY <2>0, <2>u
  <2>2. callPc' \in [Writers -> {"idle", "end", "dead"} \cup InCall]
    BY <1>5 DEF Load, LoadToMigrate, LoadFile, Migrates
  <2> QED
    BY <1>5, <2>1, <2>2, <2>c DEF Load
<1>6. ASSUME NEW w \in Writers, Write(w) \/ Replace(w) PROVE SessionTypeOK'
  <2>1. messages' \subseteq Messages /\ present' /\ after' \in [Writers -> SUBSET Writers]
    BY <1>6 DEF Write, Replace, Store, Payload
  <2> QED
    BY <1>6, <2>1 DEF Write, Replace
<1>7. ASSUME NEW w \in Writers, WriteFails(w) PROVE SessionTypeOK'
  BY <1>7 DEF WriteFails
<1>8. ASSUME NEW w \in Writers, Scan(w) PROVE SessionTypeOK'
  BY <1>8 DEF Scan
<1>9. ASSUME NEW w \in Writers, RemoveFile(w) \/ RemoveLock(w) PROVE SessionTypeOK'
  <2>1. todo' \in [Writers -> SUBSET {"file", "lock"}]
    BY <1>9 DEF RemoveFile, RemoveLock
  <2> QED
    BY <1>9, <2>1 DEF RemoveFile, RemoveLock
<1>r. ASSUME NEW w \in Writers, Removed(w) \/ Unlegacy(w) PROVE SessionTypeOK'
  BY <1>r DEF Removed, Unlegacy
<1>10. ASSUME NEW w \in Writers, Patience(w) PROVE SessionTypeOK'
  BY <1>10 DEF Patience
<1>11. ASSUME Age PROVE SessionTypeOK'
  BY <1>11 DEF Age
<1>12. ASSUME NEW p \in Processes, ProcessDies(p) PROVE SessionTypeOK'
  BY <1>12 DEF ProcessDies
<1>13. ASSUME UNCHANGED sessionVars PROVE SessionTypeOK'
  BY <1>13 DEF sessionVars
<1> QED
  BY <1>1, <1>2, <1>3, <1>4, <1>5, <1>6, <1>7, <1>8, <1>9, <1>r, <1>10, <1>11, <1>12, <1>13
     DEF SessionNext, Step

LEMMA PhasesStep ==
    ASSUME SessionTypeOK, Phases, [SessionNext]_sessionVars
    PROVE  Phases'
<1> USE DEF SessionTypeOK, Phases, Ops, Acquires, Inside, Removes, CallGoes, Done,
        fileVars, lockVars, tombVars
<1>1. ASSUME NEW w \in Writers, NEW o \in Ops, Start(w, o) PROVE Phases'
  BY <1>1 DEF Start
<1>2. ASSUME NEW w \in Writers, Peek(w) PROVE Phases'
  BY <1>2 DEF Peek
<1>3. ASSUME NEW w \in Writers, GetThread(w) \/ NoDirectory(w) \/ Exists(w) \/ Look(w)
      PROVE Phases'
  BY <1>3 DEF GetThread, NoDirectory, Exists, Look
<1>4. ASSUME NEW w \in Writers, Create(w) \/ CreateFails(w) \/ Break(w) PROVE Phases'
  BY <1>4 DEF Create, CreateFails, Break
<1>u. ASSUME NEW w \in Writers, Unlock(w) PROVE Phases'
  BY <1>u DEF Unlock
<1>5. ASSUME NEW w \in Writers, Load(w) PROVE Phases'
  BY <1>5 DEF Load, LoadToMigrate, LoadFile, Migrates, Skips
<1>6. ASSUME NEW w \in Writers, Write(w) \/ Replace(w) PROVE Phases'
  <2>1. \A v, u \in Writers : u \in after'[v] => u \in after[v] \/ (u = w /\ w \notin migrating)
    BY <1>6 DEF Write, Replace, Store
  <2>2. /\ callPc[w] \in {"write", "replace"}
        /\ callPc' = [callPc EXCEPT ![w] = "unlock"] \/ callPc' = [callPc EXCEPT ![w] = "end"]
        /\ after' \in [Writers -> SUBSET Writers]
        /\ UNCHANGED <<strict, lock, old, aged, callOp, migrating, unread>>
    BY <1>6 DEF Write, Replace, Store
  <2> QED
    BY <2>1, <2>2
<1>7. ASSUME NEW w \in Writers, WriteFails(w) PROVE Phases'
  BY <1>7 DEF WriteFails
<1>8. ASSUME NEW w \in Writers, Scan(w) PROVE Phases'
  BY <1>8 DEF Scan
<1>9. ASSUME NEW w \in Writers, RemoveFile(w) \/ RemoveLock(w) \/ Removed(w) \/ Unlegacy(w)
      PROVE Phases'
  BY <1>9 DEF RemoveFile, RemoveLock, Removed, Unlegacy
<1>10. ASSUME NEW w \in Writers, Patience(w) PROVE Phases'
  BY <1>10 DEF Patience
<1>11. ASSUME Age PROVE Phases'
  BY <1>11 DEF Age
<1>12. ASSUME NEW p \in Processes, ProcessDies(p) PROVE Phases'
  BY <1>12 DEF ProcessDies, InCall
<1>13. ASSUME UNCHANGED sessionVars PROVE Phases'
  BY <1>13 DEF sessionVars
<1> QED
  BY <1>1, <1>2, <1>3, <1>4, <1>u, <1>5, <1>6, <1>7, <1>8, <1>9, <1>10, <1>11, <1>12, <1>13
     DEF SessionNext, Step

\* What no step undoes.
LEMMA Frame ==
    ASSUME SessionTypeOK, Phases, [SessionNext]_sessionVars
    PROVE  /\ strict' = strict /\ unread \subseteq unread'
           /\ aged => aged'
           /\ \A w \in Writers : after[w] \subseteq after'[w]
           /\ \A w \in Writers : callOp[w] # "none" => callOp'[w] = callOp[w]
           /\ \A w \in Writers : callPc[w] \in Done => base'[w] = base[w]
<1> DEFINE Goal == /\ strict' = strict /\ unread \subseteq unread'
                   /\ aged => aged'
                   /\ \A w \in Writers : after[w] \subseteq after'[w]
                   /\ \A w \in Writers : callOp[w] # "none" => callOp'[w] = callOp[w]
                   /\ \A w \in Writers : callPc[w] \in Done => base'[w] = base[w]
<1> USE DEF SessionTypeOK, Done, fileVars, lockVars, tombVars
<1>1. ASSUME NEW w \in Writers, NEW o \in Ops, Start(w, o) PROVE Goal
  BY <1>1 DEF Start, Phases
<1>2. ASSUME NEW w \in Writers, Peek(w) PROVE Goal
  BY <1>2 DEF Peek
<1>3. ASSUME NEW w \in Writers, GetThread(w) \/ NoDirectory(w) \/ Exists(w) \/ Look(w)
      PROVE Goal
  BY <1>3 DEF GetThread, NoDirectory, Exists, Look
<1>4. ASSUME NEW w \in Writers, Create(w) \/ CreateFails(w) \/ Break(w) \/ Unlock(w)
      PROVE Goal
  BY <1>4 DEF Create, CreateFails, Break, Unlock
<1>5. ASSUME NEW w \in Writers, Load(w) PROVE Goal
  BY <1>5 DEF Load, LoadToMigrate, LoadFile, Migrates
<1>6. ASSUME NEW w \in Writers, Write(w) \/ Replace(w) PROVE Goal
  BY <1>6 DEF Write, Replace, Store
<1>7. ASSUME NEW w \in Writers, WriteFails(w) \/ Scan(w) \/ Patience(w) PROVE Goal
  BY <1>7 DEF WriteFails, Scan, Patience
<1>8. ASSUME NEW w \in Writers, RemoveFile(w) \/ RemoveLock(w) \/ Removed(w) \/ Unlegacy(w)
      PROVE Goal
  BY <1>8 DEF RemoveFile, RemoveLock, Removed, Unlegacy
<1>9. ASSUME Age \/ (\E p \in Processes : ProcessDies(p)) \/ UNCHANGED sessionVars PROVE Goal
  BY <1>9 DEF Age, ProcessDies, sessionVars
<1> QED
  BY <1>1, <1>2, <1>3, <1>4, <1>5, <1>6, <1>7, <1>8, <1>9 DEF SessionNext, Step

\* Calm can only end.
LEMMA CalmBefore ==
    ASSUME SessionTypeOK, Phases, [SessionNext]_sessionVars, Calm'
    PROVE  Calm
<1>1. ~aged /\ \A w \in Writers : callOp[w] # "none" => callOp'[w] = callOp[w]
  BY Frame DEF Calm
<1> QED
  BY <1>1 DEF Calm

LEMMA HeldStep ==
    ASSUME MInv, [SessionNext]_sessionVars
    PROVE  Held'
<1> SUFFICES ASSUME Calm' PROVE \A w \in Writers : callPc'[w] \in Inside => lock' = w
  BY DEF Held
<1>c. Calm /\ ~aged' /\ \A w \in Writers : callOp'[w] # "delete"
  BY CalmBefore DEF MInv, Calm
<1>h. \A w \in Writers : callPc[w] \in Inside => lock = w
  BY <1>c DEF MInv, Held
<1> USE DEF MInv, SessionTypeOK, Inside, CallGoes, fileVars, lockVars, tombVars
<1> DEFINE Goal == \A w \in Writers : callPc'[w] \in Inside => lock' = w
<1>1. ASSUME NEW w \in Writers, NEW o \in Ops, Start(w, o) PROVE Goal
  BY <1>1, <1>h DEF Start
<1>2. ASSUME NEW w \in Writers, Peek(w) \/ GetThread(w) \/ NoDirectory(w) \/ Exists(w) \/ Look(w)
      PROVE Goal
  BY <1>2, <1>h DEF Peek, GetThread, NoDirectory, Exists, Look
<1>3. ASSUME NEW w \in Writers, Create(w) \/ CreateFails(w) \/ Unlock(w) PROVE Goal
  BY <1>3, <1>h, SessionAssumption DEF Create, CreateFails, Unlock
<1>4. ASSUME NEW w \in Writers, Break(w) PROVE Goal
  BY <1>4, <1>c DEF Break, Phases, Calm
<1>5. ASSUME NEW w \in Writers, Load(w) PROVE Goal
  BY <1>5, <1>h DEF Load, LoadToMigrate, LoadFile, Migrates
<1>6. ASSUME NEW w \in Writers, Write(w) \/ Replace(w) \/ WriteFails(w) \/ Patience(w) PROVE Goal
  BY <1>6, <1>h DEF Write, Replace, WriteFails, Patience
<1>7. ASSUME NEW w \in Writers,
             Scan(w) \/ RemoveFile(w) \/ RemoveLock(w) \/ Removed(w) \/ Unlegacy(w)
      PROVE Goal
  BY <1>7, <1>c DEF Scan, RemoveFile, RemoveLock, Removed, Unlegacy, Phases, Removes, Calm
<1>8. ASSUME Age \/ (\E p \in Processes : ProcessDies(p)) \/ UNCHANGED sessionVars PROVE Goal
  BY <1>8, <1>h DEF Age, ProcessDies, sessionVars
<1> QED
  BY <1>1, <1>2, <1>3, <1>4, <1>5, <1>6, <1>7, <1>8 DEF SessionNext, Step

\* The invariant of the lock.
THEOREM LockInductive == SessionSpec => []MInv
<1>1. MInv /\ [SessionNext]_sessionVars => MInv'
  BY SessionTypeStep, PhasesStep, HeldStep DEF MInv
<1> QED
  BY <1>1, InitMInv, PTL DEF SessionSpec

\* Type correctness of the transcript, its lock file and the calls on them.
THEOREM SessionTyping == SessionSpec => []SessionTypeOK
<1>1. MInv => SessionTypeOK
  BY DEF MInv
<1> QED
  BY <1>1, LockInductive, PTL

\* Mutual exclusion in _session_write_lock (session.py:160-201) as long as no
\* lock file becomes old and the session is not deleted.
THEOREM MutualExclusion == SessionSpec => []Exclusive
<1>1. MInv => Exclusive
  BY DEF MInv, Held, Exclusive
<1> QED
  BY <1>1, LockInductive, PTL

-----------------------------------------------------------------------------
(* What was written stays.                                                 *)

\* Somebody has undone w's write since, in one of the ways the properties name.
Undoes(v, w) == \/ callOp[v] = "save"
                \/ callOp[v] = "rename" /\ w \notin base[v]
                \/ callOp[v] = "append" /\ v \in unread
                \/ callOp[w] = "save" /\ callOp[v] \in {"append", "update"} /\ strict

Excused(w) == \E v \in after[w] \ {w} : Undoes(v, w)

Kept(w) == Wrote(w) /\ callOp[w] \in {"append", "save"} => w \in messages \/ Excused(w)

\* What v loaded in the lock for an append or an update holds all that was
\* written in the lock and not undone.
Loaded(v) == /\ callPc[v] = "write" /\ v \notin migrating
             /\ callOp[v] = "update" \/ (callOp[v] = "append" /\ v \notin unread)

Locked(w) == callOp[w] = "append" \/ (callOp[w] = "save" /\ ~strict)

Based(v) == Loaded(v) => \A w \in Writers :
                            Wrote(w) /\ Locked(w) => w \in base[v] \/ Excused(w)

\* A migration writes only where there is no transcript.
Fresh(v) == v \in migrating /\ callPc[v] = "write" => ~present

KInv == Calm => \A w \in Writers : /\ Wrote(w) => present
                                   /\ Kept(w) /\ Based(w) /\ Fresh(w)

LEMMA InitKInv == SessionInit => KInv
  BY DEF SessionInit, KInv, Kept, Based, Fresh, Loaded, Wrote

LEMMA ExcusedStays ==
    ASSUME MInv, [SessionNext]_sessionVars, NEW w \in Writers, Excused(w)
    PROVE  Excused(w)'
<1>1. PICK v \in after[w] \ {w} : Undoes(v, w)
  BY DEF Excused
<1>2. v \in Writers /\ callPc[v] \in Done
  BY <1>1 DEF MInv, SessionTypeOK, Phases
<1>3. /\ strict' = strict /\ unread \subseteq unread' /\ v \in after'[w]
      /\ callOp[v] # "none" => callOp'[v] = callOp[v]
      /\ callOp[w] # "none" => callOp'[w] = callOp[w]
      /\ base'[v] = base[v]
  BY <1>1, <1>2, Frame DEF MInv
<1>4. Undoes(v, w)'
  BY <1>1, <1>3 DEF Undoes
<1> QED
  BY <1>1, <1>3, <1>4 DEF Excused

\* A step that neither writes nor brings a writer to its write.
LEMMA QuietStep ==
    ASSUME MInv, KInv, [SessionNext]_sessionVars,
           UNCHANGED <<present, messages, after>>,
           \A v \in Writers : callPc'[v] = "write" =>
              /\ callPc[v] = "write" /\ base'[v] = base[v] /\ callOp'[v] = callOp[v]
              /\ v \in migrating' <=> v \in migrating
    PROVE  KInv'
<1> SUFFICES ASSUME Calm', NEW w \in Writers
             PROVE  (Wrote(w) => present)' /\ Kept(w)' /\ Based(w)' /\ Fresh(w)'
  BY DEF KInv
<1>1. Calm
  BY CalmBefore DEF MInv
<1>2. strict' = strict /\ \A v \in Writers : callOp[v] # "none" => callOp'[v] = callOp[v]
  BY Frame DEF MInv
<1>3. \A v \in Writers : Wrote(v) => callOp'[v] = callOp[v]
  BY <1>2 DEF MInv, Phases, Wrote, Done
<1>4. (Wrote(w) => present)' /\ Fresh(w)'
  BY <1>1 DEF KInv, Wrote, Fresh
<1>5. Kept(w)'
  BY <1>1, <1>3, ExcusedStays DEF KInv, Kept, Wrote
<1>6. Based(w)'
  <2> SUFFICES ASSUME Loaded(w)', NEW u \in Writers, Wrote(u)', Locked(u)'
               PROVE  u \in base'[w] \/ Excused(u)'
    BY DEF Based
  <2>1. Loaded(w) /\ base'[w] = base[w]
    BY Frame DEF Loaded, MInv
  <2>2. Wrote(u) /\ Locked(u)
    BY <1>2, <1>3 DEF Wrote, Locked
  <2> QED
    BY <1>1, <2>1, <2>2, ExcusedStays DEF KInv, Based
<1> QED
  BY <1>4, <1>5, <1>6

\* A read in the lock.
LEMMA LoadStep ==
    ASSUME MInv, KInv, NEW v \in Writers, Load(v)
    PROVE  KInv'
<1> USE DEF MInv, SessionTypeOK, CallGoes
<1>n. [SessionNext]_sessionVars
  BY DEF SessionNext, Step
<1> SUFFICES ASSUME Calm', NEW w \in Writers
             PROVE  (Wrote(w) => present)' /\ Kept(w)' /\ Based(w)' /\ Fresh(w)'
  BY DEF KInv
<1>1. Calm
  BY <1>n, CalmBefore
<1>2. /\ callPc[v] = "load"
      /\ UNCHANGED <<strict, after, callOp, migrating>>
      /\ present => UNCHANGED <<present, messages>>
      /\ unread' = unread \/ (unread' = unread \cup {v} /\ v \notin migrating)
      /\ \A u \in Writers \ {v} : callPc'[u] = callPc[u] /\ base'[u] = base[u]
  BY DEF Load, LoadToMigrate, LoadFile, Migrates, fileVars
<1>3. \A u \in Writers : Wrote(u) => present
  BY <1>1 DEF KInv
<1>4. (Wrote(w) => present)' /\ Kept(w)'
  BY <1>1, <1>2, <1>3, <1>n, ExcusedStays DEF KInv, Kept, Wrote
<1>5. Fresh(w)'
  <2>1. CASE w = v
    BY <2>1, <1>2 DEF Load, LoadToMigrate, LoadFile, Migrates, Fresh, fileVars
  <2>2. CASE w # v /\ callPc[w] # "write"
    BY <2>2, <1>2 DEF Fresh
  <2>3. CASE w # v /\ callPc[w] = "write"
    BY <2>3, <1>1, <1>2 DEF Held, Inside
  <2> QED
    BY <2>1, <2>2, <2>3
<1>6. Based(w)'
  <2> SUFFICES ASSUME Loaded(w)', NEW u \in Writers, Wrote(u), Locked(u)
               PROVE  u \in base'[w] \/ Excused(u)'
    BY <1>2 DEF Based, Wrote, Locked
  <2>1. w = v
    BY <1>1, <1>2 DEF Loaded, Held, Inside
  <2>2. present /\ (u \in messages \/ Excused(u))
    BY <1>1, <1>3 DEF KInv, Kept, Locked
  <2>3. base'[w] = messages
    BY <2>1, <2>2, <1>2 DEF Load, LoadToMigrate, LoadFile, Migrates, Loaded, Skips
  <2> QED
    BY <2>2, <2>3, <1>n, ExcusedStays
<1> QED
  BY <1>4, <1>5, <1>6

\* A write, in the lock or without it.
LEMMA WriteStep ==
    ASSUME MInv, KInv, NEW v \in Writers, Write(v) \/ Replace(v)
    PROVE  KInv'
<1> USE DEF MInv, SessionTypeOK, CallGoes
<1>n. [SessionNext]_sessionVars
  BY DEF SessionNext, Step
<1> SUFFICES ASSUME Calm', NEW w \in Writers
             PROVE  (Wrote(w) => present)' /\ Kept(w)' /\ Based(w)' /\ Fresh(w)'
  BY DEF KInv
<1>1. Calm
  BY <1>n, CalmBefore
<1>2. /\ UNCHANGED <<strict, callOp, migrating, base, unread>>
      /\ present' = TRUE /\ messages' = Payload(v)
      /\ callPc[v] \in {"write", "replace"}
      /\ callPc[v] = "write" => callPc' = [callPc EXCEPT ![v] = "unlock"]
      /\ callPc[v] = "replace" => callPc' = [callPc EXCEPT ![v] = "end"]
  BY DEF Write, Replace, Store
<1>3. callOp[v] \in {"append", "save", "rename", "update"}
  BY <1>2 DEF Phases, Inside
<1>4. CASE v \in migrating
  <2>1. callPc[v] = "write" /\ ~strict /\ after' = after
    BY <1>4, <1>2 DEF Phases, Write, Replace, Store
  <2>2. \A u \in Writers : ~Wrote(u)
    BY <1>4, <2>1, <1>1 DEF KInv, Fresh
  <2>3. \A u \in Writers : ~Wrote(u)'
    BY <2>1, <2>2 DEF Wrote
  <2>4. callPc'[w] # "write"
    BY <2>1, <1>1, <1>2 DEF Held, Inside
  <2> QED
    BY <2>3, <2>4, <1>2 DEF Kept, Based, Fresh, Loaded
<1>5. CASE v \notin migrating
  <2>1. \A u \in Writers : Wrote(u) => after'[u] = after[u] \cup {v}
    BY <1>5 DEF Write, Replace, Store
  <2>2. \A u \in Writers : Wrote(u)' => Wrote(u) \/ u = v
    BY <1>5 DEF Write, Replace, Store, Wrote
  <2>3. \A u \in Writers : Wrote(u) => u # v
    BY <1>2 DEF Wrote, Phases, Done
  <2>4. \A u \in Writers : Wrote(u) /\ Undoes(v, u) => Excused(u)'
    <3>1. \A u \in Writers : Undoes(v, u) => Undoes(v, u)'
      BY <1>2 DEF Undoes
    <3> QED
      BY <2>1, <2>3, <3>1 DEF Excused
  <2>5. Fresh(w)'
    <3>1. CASE w \in migrating /\ callPc'[w] = "write"
      <4>1. w # v /\ callPc[w] = "write" /\ ~strict
        BY <3>1, <1>2, <1>5 DEF Phases
      <4>2. callPc[v] = "write"
        BY <4>1, <1>2 DEF Phases
      <4> QED
        BY <4>1, <4>2, <1>1 DEF Held, Inside
    <3> QED
      BY <3>1, <1>2 DEF Fresh
  <2>6. Kept(w)'
    <3> SUFFICES ASSUME Wrote(w)', callOp[w] \in {"append", "save"}
                 PROVE  w \in messages' \/ Excused(w)'
      BY <1>2 DEF Kept
    <3>1. CASE w = v
      BY <3>1, <1>2, <1>5 DEF Payload
    <3>2. CASE w # v /\ Wrote(w)
      <4>1. CASE Undoes(v, w)
        BY <4>1, <3>2, <2>4
      <4>2. CASE ~Undoes(v, w)
        <5>1. callOp[v] # "save" /\ (callOp[v] = "rename" => w \in base[v])
          BY <4>2 DEF Undoes
        <5>2. CASE callOp[v] = "rename"
          BY <5>1, <5>2, <1>2, <1>5 DEF Payload
        <5>3. CASE callOp[v] \in {"append", "update"}
          <6>1. callPc[v] = "write" /\ Loaded(v)
            BY <5>3, <4>2, <1>2, <1>5 DEF Phases, Loaded, Undoes
          <6>2. Locked(w)
            BY <5>3, <4>2 DEF Locked, Undoes
          <6>3. w \in base[v] \/ Excused(w)
            BY <6>1, <6>2, <3>2, <1>1 DEF KInv, Based
          <6>4. w \in base[v] => w \in messages'
            BY <5>3, <1>2, <1>5 DEF Payload
          <6> QED
            BY <6>3, <6>4, <1>n, ExcusedStays
        <5> QED
          BY <5>1, <5>2, <5>3, <1>3
      <4> QED
        BY <4>1, <4>2
    <3> QED
      BY <3>1, <3>2, <2>2
  <2>7. Based(w)'
    <3> SUFFICES ASSUME Loaded(w)', NEW u \in Writers, Wrote(u)', Locked(u)
                 PROVE  u \in base[w] \/ Excused(u)'
      BY <1>2 DEF Based, Locked
    <3>1. Loaded(w) /\ w # v
      BY <1>2 DEF Loaded
    <3>2. callPc[v] = "replace"
      BY <3>1, <1>1, <1>2 DEF Held, Inside, Loaded
    <3>3. u # v
      BY <3>2 DEF Phases, Locked
    <3>4. u \in base[w] \/ Excused(u)
      BY <3>1, <3>3, <2>2, <1>1 DEF KInv, Based
    <3> QED
      BY <3>4, <1>n, ExcusedStays
  <2> QED
    BY <2>5, <2>6, <2>7, <1>2
<1> QED
  BY <1>4, <1>5

LEMMA KeptStep ==
    ASSUME MInv, KInv, [SessionNext]_sessionVars
    PROVE  KInv'
<1> DEFINE Quiet == /\ UNCHANGED <<present, messages, after>>
                    /\ \A v \in Writers : callPc'[v] = "write" =>
                          /\ callPc[v] = "write" /\ base'[v] = base[v] /\ callOp'[v] = callOp[v]
                          /\ v \in migrating' <=> v \in migrating
<1> USE DEF MInv, SessionTypeOK, CallGoes, fileVars, lockVars, tombVars
<1>1. ASSUME NEW w \in Writers, NEW o \in Ops, Start(w, o) PROVE Quiet
  BY <1>1 DEF Start
<1>2. ASSUME NEW w \in Writers, Peek(w) PROVE Quiet
  BY <1>2 DEF Peek
<1>3. ASSUME NEW w \in Writers, GetThread(w) \/ NoDirectory(w) \/ Exists(w) \/ Look(w)
      PROVE Quiet
  BY <1>3 DEF GetThread, NoDirectory, Exists, Look
<1>4. ASSUME NEW w \in Writers, Create(w) \/ CreateFails(w) \/ Break(w) \/ Unlock(w)
      PROVE Quiet
  BY <1>4 DEF Create, CreateFails, Break, Unlock
<1>5. ASSUME NEW w \in Writers, WriteFails(w) PROVE Quiet
  BY <1>5 DEF WriteFails
<1>6. ASSUME NEW w \in Writers, RemoveFile(w) PROVE KInv'
  BY <1>6, CalmBefore DEF RemoveFile, Phases, Removes, Calm, KInv
<1>7. ASSUME NEW w \in Writers,
             Scan(w) \/ RemoveLock(w) \/ Removed(w) \/ Unlegacy(w) \/ Patience(w)
      PROVE Quiet
  BY <1>7 DEF Scan, RemoveLock, Removed, Unlegacy, Patience
<1>8. ASSUME Age \/ (\E p \in Processes : ProcessDies(p)) \/ UNCHANGED sessionVars PROVE Quiet
  BY <1>8 DEF Age, ProcessDies, sessionVars
<1>9. Quiet => KInv'
  BY QuietStep
<1> HIDE DEF Quiet
<1> QED
  BY <1>1, <1>2, <1>3, <1>4, <1>5, <1>6, <1>7, <1>8, <1>9, LoadStep, WriteStep DEF SessionNext, Step

LEMMA KeptInductive == SessionSpec => []KInv
<1>1. MInv /\ KInv /\ [SessionNext]_sessionVars => KInv'
  BY KeptStep
<1> QED
  BY <1>1, LockInductive, InitKInv, PTL DEF SessionSpec

\* No append is lost but in the ways that AppendsKept names.
THEOREM NoAppendLost == SessionSpec => []AppendsKept
<1>1. KInv => AppendsKept
  BY DEF KInv, Kept, Excused, Undoes, AppendsKept
<1> QED
  BY <1>1, KeptInductive, PTL

\* No save is lost but in the ways that SavesKept names.
THEOREM NoSaveLost == SessionSpec => []SavesKept
<1>1. KInv => SavesKept
  BY DEF KInv, Kept, Excused, Undoes, SavesKept
<1> QED
  BY <1>1, KeptInductive, PTL

-----------------------------------------------------------------------------
(* Nothing deleted comes back by itself.                                   *)

\* A message is in the file, or was read from it, after its writer wrote it.
Known(v) == v \in messages \/ \E w \in Writers : v \in base[w] \cup buried[w]

Tokens == \A v \in Writers :
             /\ Known(v) => callPc[v] \in Done /\ callOp[v] \in {"append", "save"}
             /\ callPc[v] = "idle" => base[v] = {}

\* A deletion beside which only deletions ran, from its scan on.
Alone(d) == callOp[d] = "delete" /\ callPc[d] \in {"remove", "unlegacy", "end"} /\ d \notin beside

Mover(v) == callPc[v] \in InCall /\ callOp[v] # "delete"

Buried(d) ==
    Alone(d) =>
       /\ callPc[d] # "end" => \A v \in Writers : ~Mover(v)
       /\ messages \cap buried[d] # {} => callPc[d] = "remove" /\ "file" \in todo[d]
       /\ callPc[d] = "end" => /\ Old \in buried[d] => ~legacy
                           /\ \A v \in Writers : Mover(v) =>
                                /\ base[v] \cap buried[d] = {}
                                /\ v \in migrating => Old \notin buried[d]

GInv == Tokens /\ \A d \in Writers : Buried(d)

LEMMA InitGInv == SessionInit => GInv
  BY DEF SessionInit, GInv, Tokens, Known, Buried, Alone

LEMMA TokensStep ==
    ASSUME MInv, Tokens, [SessionNext]_sessionVars
    PROVE  Tokens'
<1> USE DEF MInv, SessionTypeOK, CallGoes, Done, Tokens, Known, fileVars, lockVars, tombVars
<1>s. /\ Old \notin Writers
      /\ \A v \in Writers : callOp[v] \in {"append", "save"} => v \notin migrating
  BY SessionAssumption DEF Phases
<1>1. ASSUME NEW w \in Writers, NEW o \in Ops, Start(w, o) PROVE Tokens'
  BY <1>1 DEF Start
<1>2. ASSUME NEW w \in Writers, Peek(w) PROVE Tokens'
  <2>1. \/ base' = base \/ base' = [base EXCEPT ![w] = messages]
        \/ base' = [base EXCEPT ![w] = {Old}]
    BY <1>2 DEF Peek
  <2>2. \A v \in Writers : Known(v)' => Known(v)
    BY <1>2, <1>s, <2>1 DEF Peek
  <2>3. /\ callOp' = callOp /\ callPc[w] = "peek" /\ callPc'[w] # "idle"
        /\ \A v \in Writers \ {w} : callPc'[v] = callPc[v] /\ base'[v] = base[v]
    BY <1>2, <2>1 DEF Peek
  <2> QED
    BY <2>2, <2>3
<1>3. ASSUME NEW w \in Writers, GetThread(w) \/ NoDirectory(w) \/ Exists(w) \/ Look(w)
      PROVE Tokens'
  BY <1>3 DEF GetThread, NoDirectory, Exists, Look
<1>4. ASSUME NEW w \in Writers, Create(w) \/ CreateFails(w) \/ Break(w) PROVE Tokens'
  BY <1>4 DEF Create, CreateFails, Break
<1>u. ASSUME NEW w \in Writers, Unlock(w) PROVE Tokens'
  BY <1>u, <1>s DEF Unlock
<1>5. ASSUME NEW w \in Writers, Load(w) PROVE Tokens'
  <2>1. \/ base' = base \/ base' = [base EXCEPT ![w] = messages]
        \/ base' = [base EXCEPT ![w] = {Old}]
    BY <1>5 DEF Load, LoadToMigrate, LoadFile, Migrates
  <2>2. messages' = messages \/ messages' = {Old}
    BY <1>5 DEF Load, LoadToMigrate, LoadFile, Migrates
  <2>3. \A v \in Writers : Known(v)' => Known(v)
    BY <1>5, <1>s, <2>1, <2>2 DEF Load
  <2>4. /\ callOp' = callOp /\ callPc[w] = "load" /\ callPc'[w] # "idle"
        /\ \A v \in Writers \ {w} : callPc'[v] = callPc[v] /\ base'[v] = base[v]
    BY <1>5, <2>1 DEF Load, LoadToMigrate, LoadFile, Migrates
  <2> QED
    BY <2>3, <2>4
<1>6. ASSUME NEW w \in Writers, Write(w) \/ Replace(w) PROVE Tokens'
  <2>1. /\ UNCHANGED <<callOp, base, buried>>
        /\ callPc' = [callPc EXCEPT ![w] = "unlock"] \/ callPc' = [callPc EXCEPT ![w] = "end"]
        /\ messages' = Payload(w)
    BY <1>6 DEF Write, Replace, Store
  <2>2. \A v \in Writers : Known(v)' =>
           Known(v) \/ (v = w /\ callOp[w] \in {"append", "save"})
    BY <2>1, <1>s DEF Payload
  <2> QED
    BY <2>1, <2>2
<1>7. ASSUME NEW w \in Writers, WriteFails(w) PROVE Tokens'
  BY <1>7 DEF WriteFails
<1>8. ASSUME NEW w \in Writers, Scan(w) PROVE Tokens'
  <2>1. \A v \in Writers : Known(v)' => Known(v)
    BY <1>8, <1>s DEF Scan
  <2> QED
    BY <1>8, <2>1 DEF Scan
<1>9. ASSUME NEW w \in Writers, RemoveFile(w) \/ RemoveLock(w) \/ Removed(w) \/ Unlegacy(w)
      PROVE Tokens'
  BY <1>9 DEF RemoveFile, RemoveLock, Removed, Unlegacy
<1>10. ASSUME NEW w \in Writers, Patience(w) PROVE Tokens'
  BY <1>10 DEF Patience
<1>11. ASSUME Age \/ (\E p \in Processes : ProcessDies(p)) \/ UNCHANGED sessionVars PROVE Tokens'
  BY <1>11 DEF Age, ProcessDies, sessionVars, InCall
<1> QED
  BY <1>1, <1>2, <1>3, <1>4, <1>u, <1>5, <1>6, <1>7, <1>8, <1>9, <1>10, <1>11 DEF SessionNext, Step

\* A step that leaves the file, and what the calls have read of it, alone.
LEMMA BuriedQuiet ==
    ASSUME MInv, GInv, NEW d \in Writers, Alone(d)', Alone(d), callPc'[d] = callPc[d],
           UNCHANGED <<legacy, messages, base, buried, todo, callOp>>,
           migrating' \subseteq migrating,
           \A v \in Writers : Mover(v)' => Mover(v)
    PROVE  Buried(d)'
<1>1. Buried(d)
  BY DEF GInv
<1> QED
  BY <1>1 DEF Buried

LEMMA BuriedStep ==
    ASSUME MInv, GInv, [SessionNext]_sessionVars, NEW d \in Writers
    PROVE  Buried(d)'
<1> SUFFICES ASSUME Alone(d)' PROVE Buried(d)'
  BY DEF Buried
<1> USE DEF MInv, SessionTypeOK, CallGoes, fileVars, lockVars, tombVars
<1>b. Buried(d)
  BY DEF GInv
<1>m. \A v \in Writers : callPc[v] \in {"peek", "thread", "replace"} \cup Acquires \cup Inside => Mover(v)
  BY DEF Phases, Mover, InCall
<1> DEFINE Still == /\ Alone(d) /\ callPc'[d] = callPc[d]
                    /\ UNCHANGED <<legacy, messages, base, buried, todo, callOp>>
                    /\ migrating' \subseteq migrating
                    /\ \A v \in Writers : Mover(v)' => Mover(v)
<1>1. ASSUME NEW w \in Writers, NEW o \in Ops, Start(w, o) PROVE Buried(d)'
  <2>1. d # w /\ Alone(d) /\ callPc'[d] = callPc[d] /\ buried' = buried
    BY <1>1 DEF Start, Alone
  <2>2. callPc[d] # "end" => o = "delete"
    BY <1>1, <2>1 DEF Start, Alone, Deleting, Removes
  <2>3. /\ base' = base /\ base[w] = {} /\ w \notin migrating /\ migrating' = migrating
        /\ messages' = messages /\ legacy' = legacy /\ todo' = todo
        /\ callOp'[w] = o /\ \A v \in Writers \ {w} : Mover(v)' => Mover(v)
    BY <1>1 DEF Start, Mover, GInv, Tokens, Phases
  <2> QED
    BY <2>1, <2>2, <2>3, <1>b DEF Buried, Mover
<1>2. ASSUME NEW w \in Writers, Peek(w) PROVE Buried(d)'
  <2>1. callPc[w] = "peek" /\ Mover(w) /\ d # w
    BY <1>2, <1>m DEF Peek, Alone, Mover
  <2>2. /\ Alone(d) /\ callPc'[d] = callPc[d]
        /\ UNCHANGED <<legacy, messages, buried, callOp>>
        /\ \A v \in Writers : Mover(v)' => Mover(v)
    BY <1>2, <2>1 DEF Peek, Alone, Mover
  <2>3. callPc[d] = "end" /\ messages \cap buried[d] = {} /\ (Old \in buried[d] => ~legacy)
    BY <2>1, <2>2, <1>b DEF Buried
  <2>4. /\ base'[w] \in {base[w], messages} \/ (legacy /\ base'[w] = {Old})
        /\ w \in migrating' => w \in migrating \/ legacy
        /\ \A v \in Writers \ {w} : base'[v] = base[v] /\ (v \in migrating' => v \in migrating)
    BY <1>2 DEF Peek
  <2> QED
    BY <2>1, <2>2, <2>3, <2>4, <1>b DEF Buried
<1>3. ASSUME NEW w \in Writers, GetThread(w) \/ NoDirectory(w) \/ Exists(w) \/ Look(w)
      PROVE Still
  <2>1. Mover(w) /\ d # w
    BY <1>3, <1>m DEF GetThread, NoDirectory, Exists, Look, Acquires, Alone, Mover
  <2> QED
    BY <1>3, <2>1 DEF GetThread, NoDirectory, Exists, Look, Alone, Mover
<1>4. ASSUME NEW w \in Writers, Create(w) \/ CreateFails(w) \/ Break(w) \/ Unlock(w)
      PROVE Still
  <2>1. Mover(w) /\ d # w
    BY <1>4, <1>m DEF Create, CreateFails, Break, Unlock, Acquires, Inside, Alone, Mover
  <2> QED
    BY <1>4, <2>1 DEF Create, CreateFails, Break, Unlock, Alone, Mover
<1>5. ASSUME NEW w \in Writers, Load(w) PROVE Buried(d)'
  <2>1. callPc[w] = "load" /\ Mover(w) /\ d # w
    BY <1>5, <1>m DEF Load, Inside, Alone, Mover
  <2>2. /\ Alone(d) /\ callPc'[d] = callPc[d]
        /\ UNCHANGED <<legacy, buried, callOp, migrating>>
        /\ \A v \in Writers : Mover(v)' => Mover(v)
    BY <1>5, <2>1 DEF Load, LoadToMigrate, LoadFile, Migrates, Alone, Mover
  <2>3. callPc[d] = "end" /\ messages \cap buried[d] = {} /\ (Old \in buried[d] => ~legacy)
    BY <2>1, <2>2, <1>b DEF Buried
  <2>4. /\ base'[w] \in {base[w], messages} \/ (legacy /\ base'[w] = {Old})
        /\ messages' = messages \/ (legacy /\ messages' = {Old})
        /\ \A v \in Writers \ {w} : base'[v] = base[v]
    BY <1>5 DEF Load, LoadToMigrate, LoadFile, Migrates
  <2> QED
    BY <2>1, <2>2, <2>3, <2>4, <1>b DEF Buried
<1>6. ASSUME NEW w \in Writers, Write(w) \/ Replace(w) PROVE Buried(d)'
  <2>1. callPc[w] \in {"write", "replace"} /\ Mover(w) /\ d # w
    BY <1>6, <1>m DEF Write, Replace, Inside, Alone, Mover
  <2>2. /\ Alone(d) /\ callPc'[d] = callPc[d] /\ messages' = Payload(w)
        /\ UNCHANGED <<legacy, base, buried, callOp, migrating>>
        /\ \A v \in Writers : Mover(v)' => Mover(v)
    BY <1>6, <2>1 DEF Write, Replace, Store, Alone, Mover
  <2>3. /\ callPc[d] = "end" /\ (Old \in buried[d] => ~legacy)
        /\ base[w] \cap buried[d] = {} /\ (w \in migrating => Old \notin buried[d])
    BY <2>1, <2>2, <1>b DEF Buried
  <2>4. w \notin buried[d]
    BY <2>1 DEF GInv, Tokens, Known, Done
  <2>5. messages' \cap buried[d] = {}
    BY <2>2, <2>3, <2>4 DEF Payload
  <2> QED
    BY <2>2, <2>3, <2>5, <1>b DEF Buried
<1>7. ASSUME NEW w \in Writers, WriteFails(w) PROVE Still
  <2>1. Mover(w) /\ d # w
    BY <1>7, <1>m DEF WriteFails, Inside, Alone, Mover
  <2> QED
    BY <1>7, <2>1 DEF WriteFails, Alone, Mover
<1>8. ASSUME NEW w \in Writers, Scan(w) PROVE Buried(d)'
  <2>1. /\ callOp[w] = "delete" /\ UNCHANGED <<legacy, messages, present, base, callOp, migrating>>
        /\ \A v \in Writers : Mover(v)' => Mover(v)
    BY <1>8 DEF Scan, Phases, Removes, Mover
  <2>2. CASE w = d
    BY <1>8, <2>1, <2>2 DEF Scan, Buried, Alone, Mover
  <2>3. CASE w # d
    <3>1. Alone(d) /\ callPc'[d] = callPc[d] /\ buried'[d] = buried[d] /\ todo'[d] = todo[d]
      BY <1>8, <2>3 DEF Scan, Alone
    <3> QED
      BY <2>1, <3>1, <1>b DEF Buried
  <2> QED
    BY <2>2, <2>3
<1>9. ASSUME NEW w \in Writers, RemoveFile(w) \/ RemoveLock(w) PROVE Buried(d)'
  <2>1. /\ UNCHANGED <<legacy, base, buried, callOp, migrating, callPc, beside>>
        /\ messages' = {} \/ (messages' = messages /\ ("file" \in todo[d] => "file" \in todo'[d]))
    BY <1>9 DEF RemoveFile, RemoveLock
  <2>2. Alone(d) /\ \A v \in Writers : Mover(v)' => Mover(v)
    BY <2>1 DEF Alone, Mover
  <2> QED
    BY <2>1, <2>2, <1>b DEF Buried
<1>10. ASSUME NEW w \in Writers, Removed(w) \/ Unlegacy(w) PROVE Buried(d)'
  <2>1. /\ UNCHANGED <<messages, base, buried, callOp, migrating, todo, beside>>
        /\ legacy' => legacy
        /\ \A v \in Writers : Mover(v)' => Mover(v)
    BY <1>10 DEF Removed, Unlegacy, Mover, Phases, Removes
  <2>2. Alone(d)
    BY <1>10 DEF Removed, Unlegacy, Alone
  <2>3. CASE callPc'[d] = callPc[d]
    BY <2>1, <2>2, <2>3, <1>b DEF Buried
  <2>4. CASE callPc'[d] # callPc[d]
    BY <1>10, <2>1, <2>2, <2>4, <1>b DEF Removed, Unlegacy, Buried, Alone
  <2> QED
    BY <2>3, <2>4
<1>11. ASSUME (\E w \in Writers : Patience(w)) \/ Age \/ (\E p \in Processes : ProcessDies(p))
              \/ UNCHANGED sessionVars
       PROVE Still
  BY <1>11 DEF Patience, Age, ProcessDies, sessionVars, Alone, Mover, InCall
<1>12. Still => Buried(d)'
  BY BuriedQuiet
<1> HIDE DEF Still
<1> QED
  BY <1>1, <1>2, <1>3, <1>4, <1>5, <1>6, <1>7, <1>8, <1>9, <1>10, <1>11, <1>12 DEF SessionNext, Step

\* Nothing that a deletion set out to delete is there after it, unless another
\* call ran beside it.
THEOREM NothingComesBack == SessionSpec => []NoGhost
<1>1. MInv /\ GInv /\ [SessionNext]_sessionVars => GInv'
  BY TokensStep, BuriedStep DEF GInv
<1>2. GInv => NoGhost
  BY DEF GInv, Buried, Alone, NoGhost
<1> QED
  BY <1>1, <1>2, InitGInv, LockInductive, PTL DEF SessionSpec
=============================================================================
