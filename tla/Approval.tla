------------------------------ MODULE Approval ------------------------------
(***************************************************************************)
(* What the approval of tool calls promises, with the store, the polling,  *)
(* the timers and the HTTP requests left out: calls are settled in their   *)
(* order, once each; a call that needs permission is executed only when an *)
(* approval of it has been recorded; only such a call is ever refused.     *)
(***************************************************************************)
EXTENDS Naturals

CONSTANT NumCalls   \* a natural number: see PermissionAssumption

Calls == 1 .. NumCalls

VARIABLES
    needs,     \* [Calls -> BOOLEAN]: the call needs permission
    votes,     \* [Calls -> SUBSET {"approved", "denied"}]: recorded answers
    outcome    \* [Calls -> {"none", "executed", "refused"}]

avars == <<needs, votes, outcome>>

Init == /\ needs \in [Calls -> BOOLEAN]
        /\ votes = [c \in Calls |-> {}]
        /\ outcome = [c \in Calls |-> "none"]

\* The calls before c are settled.
Reached(c) == \A d \in Calls : d < c => outcome[d] # "none"

\* An answer is recorded; it may come late and may contradict another one.
Vote(c, v) == /\ needs[c] /\ Reached(c)
              /\ votes' = [votes EXCEPT ![c] = @ \cup {v}]
              /\ UNCHANGED <<needs, outcome>>

Execute(c) == /\ Reached(c) /\ outcome[c] = "none"
              /\ needs[c] => "approved" \in votes[c]
              /\ outcome' = [outcome EXCEPT ![c] = "executed"]
              /\ UNCHANGED <<needs, votes>>

Refuse(c) == /\ Reached(c) /\ outcome[c] = "none" /\ needs[c]
             /\ outcome' = [outcome EXCEPT ![c] = "refused"]
             /\ UNCHANGED <<needs, votes>>

Next == \E c \in Calls : \/ \E v \in {"approved", "denied"} : Vote(c, v)
                         \/ Execute(c) \/ Refuse(c)

Spec == Init /\ [][Next]_avars
=============================================================================
