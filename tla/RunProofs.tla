------------------------------ MODULE RunProofs ------------------------------
(***************************************************************************)
(* Proofs about the two ends of a run: the engine that waits for an answer *)
(* about its tool calls (Permission), for every number of calls and        *)
(* responders and for both stores, and the shell's hook that follows it    *)
(* (ShellAgent), for every set of tasks and any numbers of requests,       *)
(* openings and mounted pages.                                             *)
(***************************************************************************)
EXTENDS Permission, ShellAgent, TLAPS

-----------------------------------------------------------------------------
(* Permission.                                                             *)

LEMMA CallsRange ==
    /\ 1 \in 1 .. NumCalls + 1
    /\ \A c \in Calls : c + 1 \in 1 .. NumCalls + 1 /\ c \in 1 .. NumCalls + 1 /\ c \in Nat
    /\ \A c \in 1 .. NumCalls + 1 : c <= NumCalls => c \in Calls
    /\ \A c \in 1 .. NumCalls + 1 : c \in Nat /\ c \in 0 .. NumCalls + 1
    /\ 0 \in 0 .. NumCalls + 1
  BY PermissionAssumption DEF Calls

\* Inside the body of its loop the engine is at a call.
InCalls == pc \in {"register", "announce", "tool", "report"} \cup Awaiting => cur \in Calls

\* A request that got past its first step answers a call, with a verdict.
TargetsCalls == \A r \in Responders :
    rpc[r] # "idle" => target[r] \in Calls /\ says[r] \in {"approved", "denied"}

Typed == PermissionTypeOK /\ InCalls /\ TargetsCalls

LEMMA SettleTyped ==
    ASSUME Typed, cur \in Calls, NEW o \in {"executed", "refused"}, Settle(o)
    PROVE  /\ outcome' \in [Calls -> {"none", "executed", "refused"}]
           /\ pc' \in {"pick", "report"}
           /\ cur' \in 1 .. NumCalls + 1
           /\ pc' = "report" => cur' \in Calls
  BY CallsRange DEF Typed, PermissionTypeOK, Settle

StoreTyped == /\ row \in [Calls -> Statuses \cup {"none"}]
              /\ forever \subseteq Calls
              /\ stage \in [Setters -> {"load", "ttl", "store"}]
              /\ keep \in [Setters -> BOOLEAN]

LEMMA SetReturnsTyped ==
    ASSUME StoreTyped, NEW s \in Setters, NEW c \in Calls, NEW st \in Statuses,
           NEW ok \in BOOLEAN, SetReturns(s, c, st, ok)
    PROVE  StoreTyped'
  BY DEF StoreTyped, SetReturns, rowVars, setVars, Statuses

LEMMA SetProgressesTyped ==
    ASSUME StoreTyped, NEW s \in Setters, NEW c \in Calls, SetProgresses(s, c)
    PROVE  StoreTyped'
  BY DEF StoreTyped, SetProgresses, rowVars, Statuses

LEMMA TypedInit == PermissionInit => Typed
<1> SUFFICES ASSUME PermissionInit PROVE Typed
  OBVIOUS
<1>1. PermissionTypeOK
  BY CallsRange DEF PermissionInit, PermissionTypeOK, Statuses, Awaiting, TurnsOver
<1>2. InCalls
  BY DEF PermissionInit, InCalls, Awaiting
<1>3. TargetsCalls
  BY DEF PermissionInit, TargetsCalls
<1> QED
  BY <1>1, <1>2, <1>3 DEF Typed

LEMMA TargetsStep == Typed /\ [PermissionNext]_permissionVars => TargetsCalls'
<1> SUFFICES ASSUME Typed, [PermissionNext]_permissionVars PROVE TargetsCalls'
  OBVIOUS
<1>1. CASE UNCHANGED respVars
  BY <1>1 DEF Typed, TargetsCalls, respVars
<1>2. ASSUME NEW r \in Responders, Respond(r) PROVE TargetsCalls'
  BY <1>2 DEF Typed, PermissionTypeOK, TargetsCalls, Respond
<1>3. ASSUME NEW r \in Responders, RespondSets(r) PROVE TargetsCalls'
  BY <1>3 DEF Typed, PermissionTypeOK, TargetsCalls, RespondSets
<1>4. UNCHANGED respVars \/ \E r \in Responders : Respond(r) \/ RespondSets(r)
  BY DEF PermissionNext, permissionVars, Engine, Frame, Pick, Register, Announce, ReadRow, Check, GiveUp,
         Delete, Tool, Report, Cut, DeadlinePasses, Disconnect, StopPops, StopStores,
         StopFails, Expire
<1> QED
  BY <1>1, <1>2, <1>3, <1>4

LEMMA PermissionTypedStep == Typed /\ [PermissionNext]_permissionVars => Typed'
<1> SUFFICES ASSUME Typed, [PermissionNext]_permissionVars PROVE PermissionTypeOK' /\ InCalls'
  BY TargetsStep DEF Typed
<1> USE DEF Typed, PermissionTypeOK, InCalls, Statuses, Awaiting, TurnsOver, runVars, engVars,
        rowVars, setVars, stopVars, respVars, Frame
<1>1. CASE Pick
  <2>1. pc' \in {"done", "register", "tool"} /\ InCalls'
    BY <1>1, CallsRange, PermissionAssumption DEF Pick
  <2> QED
    BY <1>1, <2>1 DEF Pick
<1>2. CASE Register
  <2>1. cur \in Calls
    BY <1>2 DEF Register
  <2>2. StoreTyped'
    BY <1>2, <2>1 DEF Register, StoreTyped
  <2> QED
    BY <1>2, <2>1, <2>2 DEF Register, StoreTyped
<1>3. CASE Announce
  <2>1. cur \in Calls
    BY <1>3 DEF Announce
  <2>2. CASE RunSeesStop
    BY <1>3, <2>2 DEF Announce
  <2>3. CASE ~RunSeesStop
    <3>1. /\ pc' = "read" /\ asked' = asked \cup {cur} /\ late' = FALSE
          /\ UNCHANGED <<cur, verdict, outcome, cut, rowVars, setVars, held>> /\ Frame
      BY <1>3, <2>3 DEF Announce
    <3>2. asked' \subseteq Calls
      BY <2>1, <3>1
    <3> QED
      BY <2>1, <3>1, <3>2
  <2> QED
    BY <2>2, <2>3
<1>4. CASE ReadRow
  <2>1. cur \in Calls
    BY <1>4 DEF ReadRow
  <2>2. CASE Settle("refused") /\ UNCHANGED verdict
    BY <1>4, <2>1, <2>2, SettleTyped DEF ReadRow
  <2>3. CASE /\ verdict' = (row[cur] = "approved")
             /\ pc' = "delete" /\ UNCHANGED <<cur, outcome>>
    BY <1>4, <2>1, <2>3 DEF ReadRow
  <2>4. CASE pc' = "check" /\ UNCHANGED <<cur, outcome, verdict>>
    BY <1>4, <2>1, <2>4 DEF ReadRow
  <2> QED
    BY <1>4, <2>2, <2>3, <2>4 DEF ReadRow
<1>5. CASE Check
  BY <1>5 DEF Check
<1>6. CASE GiveUp
  <2>1. cur \in Calls /\ Waiter \in Setters
    BY <1>6 DEF GiveUp, Setters
  <2>2. ASSUME NEW ok \in BOOLEAN, NEW st \in Statuses, SetReturns(Waiter, cur, st, ok),
               pc' = "delete", verdict' = FALSE
        PROVE PermissionTypeOK' /\ InCalls'
    <3>1. StoreTyped'
      BY <2>1, <2>2, SetReturnsTyped DEF StoreTyped
    <3> QED
      BY <1>6, <2>1, <2>2, <3>1 DEF GiveUp, StoreTyped
  <2>3. CASE SetProgresses(Waiter, cur) /\ UNCHANGED <<pc, verdict>>
    BY <1>6, <2>1, <2>3, SetProgressesTyped DEF GiveUp, StoreTyped
  <2> QED
    BY <1>6, <2>2, <2>3 DEF GiveUp
<1>7. CASE Delete
  <2>1. cur \in Calls
    BY <1>7 DEF Delete
  <2>2. CASE verdict
    BY <1>7, <2>1, <2>2 DEF Delete, Erase
  <2>3. CASE ~verdict
    <3>1. Settle("refused")
      BY <1>7, <2>3 DEF Delete
    <3> QED
      BY <1>7, <2>1, <3>1, SettleTyped DEF Delete, Erase
  <2> QED
    BY <2>2, <2>3
<1>8. CASE Tool
  <2>1. cur \in Calls /\ Settle("executed")
    BY <1>8 DEF Tool
  <2> QED
    BY <1>8, <2>1, SettleTyped DEF Tool
<1>9. CASE Report
  BY <1>9, CallsRange DEF Report
<1>10. CASE Cut
  <2>1. cur \in Calls /\ Settle("refused")
    BY <1>10 DEF Cut
  <2> QED
    BY <1>10, <2>1, SettleTyped DEF Cut, Setters
<1>11. CASE DeadlinePasses
  BY <1>11 DEF DeadlinePasses
<1>12. CASE Disconnect
  BY <1>12 DEF Disconnect
<1>17. CASE StopPops
  BY <1>17 DEF StopPops
<1>18. CASE StopStores
  BY <1>18, CallsRange DEF StopStores
<1>19. CASE StopFails
  BY <1>19 DEF StopFails
<1>13. ASSUME NEW c \in Calls, Expire(c) PROVE PermissionTypeOK' /\ InCalls'
  BY <1>13 DEF Expire, Erase
<1>14. ASSUME NEW r \in Responders, Respond(r) PROVE PermissionTypeOK' /\ InCalls'
  BY <1>14 DEF Respond
<1>15. ASSUME NEW r \in Responders, RespondSets(r) PROVE PermissionTypeOK' /\ InCalls'
  <2>1. target[r] \in Calls /\ r \in Setters
    BY <1>15 DEF TargetsCalls, RespondSets, Setters
  <2>2. ASSUME NEW ok \in BOOLEAN, SetReturns(r, target[r], says[r], ok)
        PROVE  StoreTyped'
    <3>1. says[r] \in Statuses
      BY <1>15 DEF RespondSets, TargetsCalls
    <3> QED
      BY <2>1, <2>2, <3>1, SetReturnsTyped DEF StoreTyped
  <2>3. ASSUME SetProgresses(r, target[r]) PROVE StoreTyped'
    BY <2>1, <2>3, SetProgressesTyped DEF StoreTyped
  <2>4. StoreTyped'
    BY <1>15, <2>2, <2>3 DEF RespondSets
  <2> QED
    BY <1>15, <2>1, <2>4 DEF RespondSets, StoreTyped
<1>16. CASE UNCHANGED permissionVars
  BY <1>16 DEF permissionVars
<1> QED
  BY <1>1, <1>2, <1>3, <1>4, <1>5, <1>6, <1>7, <1>8, <1>9, <1>10, <1>11, <1>12,
     <1>13, <1>14, <1>15, <1>16, <1>17, <1>18, <1>19 DEF PermissionNext, Engine

\* The type invariant: whatever the interleaving, every variable keeps its type;
\* in particular the engine never runs past the end of the call list
\* (engine.py:591).
THEOREM PermissionTyping == PermissionSpec => []PermissionTypeOK
<1>1. Typed => PermissionTypeOK
  BY DEF Typed
<1> QED
  BY <1>1, TypedInit, PermissionTypedStep, PTL DEF PermissionSpec

-----------------------------------------------------------------------------
(* The inductive invariant: where the engine is in the list of calls, what *)
(* the rows and the answers then say.                                      *)

AtCall == {"register", "announce", "tool"} \cup Awaiting

Order ==
    /\ \A c \in Calls : c < cur => outcome[c] # "none"
    /\ \A c \in Calls : c > cur => outcome[c] = "none"
    /\ pc = "report" => outcome[cur] # "none"
    /\ pc \in AtCall \cup {"pick"} => (cur \in Calls => outcome[cur] = "none")
    /\ pc \in AtCall \ {"tool"} => kind[cur] = "ask"
    /\ \A c \in asked : kind[c] = "ask" /\ c <= cur

Answers == \A r \in Responders : /\ rpc[r] # "idle" => target[r] \in asked
                                 /\ rpc[r] # "done" => reply[r] = "none"

Votes ==
    /\ \A c \in Calls : row[c] = "approved" => Approved(c)
    /\ pc = "delete" /\ verdict => Approved(cur)
    /\ pc = "tool" /\ kind[cur] = "ask" => Approved(cur)
    /\ OnlyApprovedCallsRun

Rows == AtomicSet =>
    /\ SettledCallHasNoRow
    /\ \A c \in Calls : c > cur => row[c] = "none"
    /\ pc \in {"pick", "register", "tool"} => (cur \in Calls => row[cur] = "none")

PermissionIInv == Typed /\ Order /\ Answers /\ Votes /\ Rows

LEMMA IInvInit == PermissionInit => PermissionIInv
<1> SUFFICES ASSUME PermissionInit PROVE Order /\ Answers /\ Votes /\ Rows
  BY TypedInit DEF PermissionIInv
<1>1. Order
  BY CallsRange DEF PermissionInit, Order, AtCall, Awaiting, Calls
<1>2. Answers
  BY DEF PermissionInit, Answers
<1>3. Votes
  BY DEF PermissionInit, Votes, OnlyApprovedCallsRun
<1>4. Rows
  BY DEF PermissionInit, Rows, SettledCallHasNoRow
<1> QED
  BY <1>1, <1>2, <1>3, <1>4

\* Settling the call at cur moves the engine on, and nothing else is settled.
LEMMA SettleOrder ==
    ASSUME Typed, Order, cur \in Calls, NEW o \in {"executed", "refused"}, Settle(o),
           asked' = asked, kind' = kind
    PROVE  Order'
<1>1. /\ outcome' = [outcome EXCEPT ![cur] = o]
      /\ \/ pc' = "report" /\ cur' = cur
         \/ pc' = "pick" /\ cur' = cur + 1
  BY DEF Settle
<1>2. /\ outcome \in [Calls -> {"none", "executed", "refused"}]
      /\ asked \subseteq Calls
  BY DEF Typed, PermissionTypeOK
<1>3. /\ outcome'[cur] = o
      /\ \A c \in Calls : c # cur => outcome'[c] = outcome[c]
  BY <1>1, <1>2
<1>4. CASE pc' = "report" /\ cur' = cur
  BY <1>3, <1>4 DEF Order, AtCall, Awaiting
<1>5. CASE pc' = "pick" /\ cur' = cur + 1
  <2>1. \A c \in Calls : /\ c < cur + 1 => c < cur \/ c = cur
                         /\ c > cur + 1 => c > cur
                         /\ c = cur + 1 => c > cur
                         /\ c <= cur => c <= cur + 1
    BY DEF Calls
  <2> QED
    BY <1>2, <1>3, <1>5, <2>1 DEF Order, AtCall, Awaiting
<1> QED
  BY <1>1, <1>4, <1>5

LEMMA OrderStep == Typed /\ Order /\ [PermissionNext]_permissionVars => Order'
<1> SUFFICES ASSUME Typed, Order, [PermissionNext]_permissionVars PROVE Order'
  OBVIOUS
<1> USE DEF runVars, engVars, Frame
<1>1. CASE Pick
  BY <1>1 DEF Pick, Order, AtCall, Awaiting, Typed, PermissionTypeOK
<1>2. CASE Register
  BY <1>2 DEF Register, Order, AtCall, Awaiting
<1>3. CASE Announce
  BY <1>3, CallsRange DEF Announce, Order, AtCall, Awaiting, Typed, InCalls, RunSeesStop
<1>4. CASE ReadRow
  <2>1. cur \in Calls
    BY <1>4 DEF ReadRow, Typed, InCalls, Awaiting
  <2>2. CASE Settle("refused")
    BY <1>4, <2>1, <2>2, SettleOrder DEF ReadRow
  <2>3. CASE pc' \in {"delete", "check"} /\ UNCHANGED <<cur, outcome>>
    BY <1>4, <2>3 DEF ReadRow, Order, AtCall, Awaiting
  <2> QED
    BY <1>4, <2>2, <2>3 DEF ReadRow
<1>5. CASE Check
  BY <1>5 DEF Check, Order, AtCall, Awaiting
<1>6. CASE GiveUp
  BY <1>6 DEF GiveUp, Order, AtCall, Awaiting
<1>7. CASE Delete
  <2>1. cur \in Calls
    BY <1>7 DEF Delete, Typed, InCalls, Awaiting
  <2>2. CASE Settle("refused")
    BY <1>7, <2>1, <2>2, SettleOrder DEF Delete
  <2>3. CASE pc' = "tool" /\ UNCHANGED <<cur, outcome>>
    BY <1>7, <2>3 DEF Delete, Order, AtCall, Awaiting
  <2> QED
    BY <1>7, <2>2, <2>3 DEF Delete
<1>8. CASE Tool
  BY <1>8, SettleOrder DEF Tool, Typed, InCalls
<1>9. CASE Report
  <2>1. CASE pc' = "aborted" /\ UNCHANGED cur
    BY <1>9, <2>1 DEF Report, Order, AtCall, Awaiting
  <2>2. CASE pc' = "pick" /\ cur' = cur + 1
    <3>1. cur \in Calls
      BY <1>9 DEF Report, Typed, InCalls
    <3>2. \A c \in Calls : /\ c < cur + 1 => c < cur \/ c = cur
                           /\ c > cur + 1 => c > cur
                           /\ c = cur + 1 => c > cur
                           /\ c <= cur => c <= cur + 1
      BY <3>1 DEF Calls
    <3>3. asked \subseteq Calls
      BY DEF Typed, PermissionTypeOK
    <3> QED
      BY <1>9, <2>2, <3>1, <3>2, <3>3 DEF Report, Order, AtCall, Awaiting
  <2> QED
    BY <1>9, <2>1, <2>2 DEF Report
<1>10. CASE Cut
  BY <1>10, SettleOrder DEF Cut, Typed, InCalls
<1>11. CASE DeadlinePasses \/ Disconnect
  BY <1>11 DEF DeadlinePasses, Disconnect, Order, AtCall, Awaiting
<1>12. CASE UNCHANGED <<runVars, engVars>>
  BY <1>12 DEF Order, AtCall, Awaiting
<1>13. \/ UNCHANGED <<runVars, engVars>>
       \/ Engine \/ Cut \/ DeadlinePasses \/ Disconnect
  BY DEF PermissionNext, permissionVars, StopPops, StopStores, StopFails, Expire, Respond, RespondSets
<1> QED
  BY <1>1, <1>2, <1>3, <1>4, <1>5, <1>6, <1>7, <1>8, <1>9, <1>10, <1>11, <1>12, <1>13
     DEF Engine

\* Only the two actions of a responder change what responders have said.
LEMMA OthersKeepAnswers ==
    [PermissionNext]_permissionVars => \/ UNCHANGED respVars
                   \/ \E r \in Responders : Respond(r) \/ RespondSets(r)
BY DEF PermissionNext, permissionVars, Engine, Frame, Pick, Register, Announce, ReadRow, Check, GiveUp,
       Delete, Tool, Report, Cut, DeadlinePasses, Disconnect, StopPops, StopStores,
       StopFails, Expire

\* Prompts are never taken back.
LEMMA AskedGrows == [PermissionNext]_permissionVars => asked \subseteq asked'
<1> USE DEF engVars
<1>1. Engine => asked \subseteq asked'
  BY DEF Engine, Pick, Register, Announce, ReadRow, Check, GiveUp, Delete, Tool, Report
<1> QED
  BY <1>1 DEF PermissionNext, permissionVars, Cut, DeadlinePasses, Disconnect, StopPops, StopStores,
       StopFails, Expire, Respond, RespondSets

LEMMA AnswersStep == Typed /\ Answers /\ [PermissionNext]_permissionVars => Answers'
<1> SUFFICES ASSUME Typed, Answers, [PermissionNext]_permissionVars PROVE Answers'
  OBVIOUS
<1>1. CASE UNCHANGED respVars
  BY <1>1, AskedGrows DEF Answers, respVars
<1>2. ASSUME NEW r \in Responders, Respond(r) PROVE Answers'
  BY <1>2, AskedGrows DEF Answers, Respond, Typed, PermissionTypeOK, engVars
<1>3. ASSUME NEW r \in Responders, RespondSets(r) PROVE Answers'
  <2>1. /\ target' = target /\ asked' = asked
        /\ \/ rpc' = [rpc EXCEPT ![r] = "done"]
           \/ rpc' = rpc /\ reply' = reply
        /\ rpc[r] = "set"
        /\ \A q \in Responders : q # r => reply'[q] = reply[q]
    BY <1>3 DEF RespondSets, engVars, Typed, PermissionTypeOK
  <2> QED
    BY <2>1 DEF Answers, Typed, PermissionTypeOK
<1> QED
  BY <1>1, <1>2, <1>3, OthersKeepAnswers

\* An approval, once stored, stays on record.
LEMMA ApprovedStays ==
    Typed /\ Answers /\ [PermissionNext]_permissionVars => \A c \in Calls : Approved(c) => Approved(c)'
<1> SUFFICES ASSUME Typed, Answers, [PermissionNext]_permissionVars, NEW c \in Calls, Approved(c)
             PROVE  Approved(c)'
  OBVIOUS
<1>1. PICK q \in Responders : Wrote(q) /\ target[q] = c /\ says[q] = "approved"
  BY DEF Approved
<1>2. rpc[q] = "done"
  BY <1>1 DEF Answers, Wrote
<1>3. reply'[q] = reply[q] /\ target'[q] = target[q] /\ says'[q] = says[q]
  <2>1. CASE UNCHANGED respVars
    BY <2>1 DEF respVars
  <2>2. ASSUME NEW r \in Responders, Respond(r) PROVE /\ reply'[q] = reply[q]
              /\ target'[q] = target[q] /\ says'[q] = says[q]
    BY <1>2, <2>2 DEF Respond, Typed, PermissionTypeOK
  <2>3. ASSUME NEW r \in Responders, RespondSets(r) PROVE /\ reply'[q] = reply[q]
              /\ target'[q] = target[q] /\ says'[q] = says[q]
    BY <1>2, <2>3 DEF RespondSets, Typed, PermissionTypeOK
  <2> QED
    BY <2>1, <2>2, <2>3, OthersKeepAnswers
<1> QED
  BY <1>1, <1>3 DEF Approved, Wrote

\* A status update by a responder or the waiter: the row of c becomes st, or no
\* row changes.
LEMMA SetReturnsRow ==
    ASSUME NEW s, NEW c, NEW st, NEW ok \in BOOLEAN, SetReturns(s, c, st, ok)
    PROVE  /\ ok => row' = [row EXCEPT ![c] = st]
           /\ ~ok => row' = row
           /\ AtomicSet => (ok <=> row[c] # "none")
  BY DEF SetReturns, rowVars

LEMMA SetProgressesRow ==
    ASSUME NEW s, NEW c, SetProgresses(s, c)
    PROVE  row' = row /\ ~AtomicSet
  BY DEF SetProgresses, rowVars

\* A call that ends without an approval counts as refused, unless its approval
\* is on record.
LEMMA SettleVotes ==
    ASSUME Typed, Votes, cur \in Calls, NEW o \in {"executed", "refused"}, Settle(o),
           o = "executed" /\ kind[cur] = "ask" => Approved(cur),
           kind' = kind, \A c \in Calls : Approved(c) => Approved(c)',
           \A c \in Calls : row'[c] = "approved" => row[c] = "approved"
    PROVE  Votes'
<1>1. outcome' = [outcome EXCEPT ![cur] = o] /\ pc' \in {"pick", "report"}
  BY DEF Settle
<1>2. outcome \in [Calls -> {"none", "executed", "refused"}]
  BY DEF Typed, PermissionTypeOK
<1>3. OnlyApprovedCallsRun'
  BY <1>1, <1>2 DEF Votes, OnlyApprovedCallsRun
<1>4. \A c \in Calls : row'[c] = "approved" => Approved(c)'
  BY DEF Votes
<1> QED
  BY <1>1, <1>3, <1>4 DEF Votes

LEMMA VotesStep == Typed /\ Order /\ Answers /\ Votes /\ [PermissionNext]_permissionVars => Votes'
<1> SUFFICES ASSUME Typed, Order, Answers, Votes, [PermissionNext]_permissionVars PROVE Votes'
  OBVIOUS
<1>0. \A c \in Calls : Approved(c) => Approved(c)'
  BY ApprovedStays
<1> USE DEF runVars, engVars, rowVars, Frame
<1>a. ASSUME UNCHANGED <<kind, outcome, cur>>, pc' # "delete" \/ ~verdict',
             pc' # "tool" \/ kind[cur] # "ask",
             \A c \in Calls : row'[c] = "approved" => row[c] = "approved"
      PROVE  Votes'
  BY <1>0, <1>a DEF Votes, OnlyApprovedCallsRun
<1>b. ASSUME UNCHANGED <<kind, outcome, cur, pc, verdict>>,
             \A c \in Calls : row'[c] = "approved" => Approved(c)'
      PROVE  Votes'
  <2>1. pc \in {"delete", "tool"} => cur \in Calls
    BY DEF Typed, InCalls, Awaiting
  <2>2. pc \in {"delete", "tool"} /\ Approved(cur) => Approved(cur)'
    BY <1>0, <1>b, <2>1
  <2> QED
    BY <1>0, <1>b, <2>2 DEF Votes, OnlyApprovedCallsRun
<1>1. CASE Pick
  <2>1. pc' = "tool" => kind[cur] # "ask"
    BY <1>1 DEF Pick
  <2> QED
    BY <1>1, <1>a, <2>1 DEF Pick
<1>2. CASE Register
  <2>1. \A c \in Calls : row'[c] = "approved" => row[c] = "approved"
    BY <1>2 DEF Register, Typed, PermissionTypeOK
  <2> QED
    BY <1>2, <1>a, <2>1 DEF Register
<1>3. CASE Announce
  BY <1>3, <1>a DEF Announce
<1>4. CASE ReadRow
  <2>1. cur \in Calls
    BY <1>4 DEF ReadRow, Typed, InCalls, Awaiting
  <2>2. CASE Settle("refused")
    BY <1>0, <1>4, <2>1, <2>2, SettleVotes DEF ReadRow
  <2>3. CASE /\ verdict' = (row[cur] = "approved")
             /\ pc' = "delete" /\ UNCHANGED <<cur, outcome>>
    BY <1>0, <1>4, <2>1, <2>3 DEF ReadRow, Votes, OnlyApprovedCallsRun
  <2>4. CASE pc' = "check" /\ UNCHANGED <<cur, outcome, verdict>>
    BY <1>4, <1>a, <2>4 DEF ReadRow
  <2> QED
    BY <1>4, <2>2, <2>3, <2>4 DEF ReadRow
<1>5. CASE Check
  BY <1>5, <1>a DEF Check
<1>6. CASE GiveUp
  <2>1. cur \in Calls /\ UNCHANGED <<kind, outcome, cur>>
    BY <1>6 DEF GiveUp, Typed, InCalls, Awaiting
  <2>2. ASSUME NEW ok \in BOOLEAN, NEW st \in {"cancelled", "timeout"},
               SetReturns(Waiter, cur, st, ok), pc' = "delete", verdict' = FALSE
        PROVE  Votes'
    <3>1. \A c \in Calls : row'[c] = "approved" => row[c] = "approved"
      BY <2>1, <2>2, SetReturnsRow DEF Typed, PermissionTypeOK
    <3> QED
      BY <1>a, <2>1, <2>2, <3>1
  <2>3. CASE SetProgresses(Waiter, cur) /\ UNCHANGED <<pc, verdict>>
    BY <1>6, <1>a, <2>1, <2>3, SetProgressesRow DEF GiveUp
  <2> QED
    BY <1>6, <2>2, <2>3 DEF GiveUp
<1>7. CASE Delete
  <2>1. cur \in Calls
    BY <1>7 DEF Delete, Typed, InCalls, Awaiting
  <2>2. \A c \in Calls : row'[c] = "approved" => row[c] = "approved"
    BY <1>7, <2>1 DEF Delete, Erase, Typed, PermissionTypeOK
  <2>3. CASE ~verdict
    BY <1>0, <1>7, <2>1, <2>2, <2>3, SettleVotes DEF Delete
  <2>4. CASE verdict
    BY <1>0, <1>7, <2>1, <2>2, <2>4 DEF Delete, Votes, OnlyApprovedCallsRun
  <2> QED
    BY <2>3, <2>4
<1>8. CASE Tool
  <2>1. cur \in Calls
    BY <1>8 DEF Tool, Typed, InCalls
  <2> QED
    BY <1>0, <1>8, <2>1, SettleVotes DEF Tool, Votes
<1>9. CASE Report
  BY <1>0, <1>9 DEF Report, Votes, OnlyApprovedCallsRun
<1>10. CASE Cut
  <2>1. cur \in Calls
    BY <1>10 DEF Cut, Typed, InCalls
  <2> QED
    BY <1>0, <1>10, <2>1, SettleVotes DEF Cut
<1>11. CASE DeadlinePasses
  BY <1>0, <1>11, <1>b DEF DeadlinePasses, Votes
<1>12. CASE Disconnect
  BY <1>12, <1>a DEF Disconnect
<1>13. CASE UNCHANGED <<runVars, engVars, rowVars>>
  BY <1>0, <1>13, <1>b DEF Votes
<1>14. ASSUME NEW c \in Calls, Expire(c) PROVE Votes'
  <2>1. \A d \in Calls : row'[d] = "approved" => row[d] = "approved"
    BY <1>14 DEF Expire, Erase, Typed, PermissionTypeOK
  <2> QED
    BY <1>0, <1>14, <1>b, <2>1 DEF Expire, Votes
<1>15. ASSUME NEW r \in Responders, RespondSets(r) PROVE Votes'
  <2>1. UNCHANGED <<runVars, engVars>>
    BY <1>15 DEF RespondSets
  <2>2. \A d \in Calls : row'[d] = "approved" => Approved(d)'
    <3>1. CASE SetProgresses(r, target[r])
      BY <1>0, <3>1, SetProgressesRow DEF Votes
    <3>2. ASSUME NEW ok \in BOOLEAN, SetReturns(r, target[r], says[r], ok),
                 reply' = [reply EXCEPT ![r] = reply'[r]],
                 ok => reply'[r] \in {"ok", "error"}
          PROVE  \A d \in Calls : row'[d] = "approved" => Approved(d)'
      <4>1. CASE ~ok
        BY <1>0, <3>2, <4>1, SetReturnsRow DEF Votes
      <4>2. CASE ok
        <5> SUFFICES ASSUME NEW d \in Calls, row'[d] = "approved" PROVE Approved(d)'
          OBVIOUS
        <5>1. row' = [row EXCEPT ![target[r]] = says[r]]
          BY <3>2, <4>2 DEF SetReturns
        <5>2. CASE d # target[r]
          BY <1>0, <5>1, <5>2 DEF Votes, Typed, PermissionTypeOK
        <5>3. CASE d = target[r]
          <6>1. says[r] = "approved"
            BY <5>1, <5>3 DEF Typed, PermissionTypeOK
          <6> QED
            BY <1>15, <3>2, <4>2, <5>3, <6>1 DEF RespondSets, Approved, Wrote
        <5> QED
          BY <5>2, <5>3
      <4> QED
        BY <4>1, <4>2
    <3> QED
      BY <1>15, <3>1, <3>2 DEF RespondSets, Typed, PermissionTypeOK
  <2> QED
    BY <1>b, <2>1, <2>2
<1>16. \/ UNCHANGED <<runVars, engVars, rowVars>>
       \/ Engine \/ Cut \/ DeadlinePasses \/ Disconnect
       \/ \E c \in Calls : Expire(c)
       \/ \E r \in Responders : RespondSets(r)
  BY DEF PermissionNext, permissionVars, StopPops, StopStores, StopFails, Respond
<1> QED
  BY <1>1, <1>2, <1>3, <1>4, <1>5, <1>6, <1>7, <1>8, <1>9, <1>10, <1>11, <1>12, <1>13,
     <1>14, <1>15, <1>16 DEF Engine

LEMMA SettleRows ==
    ASSUME Typed, Order, Rows, cur \in Calls, NEW o \in {"executed", "refused"}, Settle(o),
           cut' \in {cut, cut \cup {cur}}, cut' = cut => row'[cur] = "none",
           \A c \in Calls : c # cur => row'[c] = row[c]
    PROVE  Rows'
<1> SUFFICES ASSUME AtomicSet PROVE
      /\ SettledCallHasNoRow'
      /\ \A c \in Calls : c > cur' => row'[c] = "none"
      /\ pc' \in {"pick", "register", "tool"} => (cur' \in Calls => row'[cur'] = "none")
  BY DEF Rows
<1>1. /\ outcome' = [outcome EXCEPT ![cur] = o]
      /\ \/ pc' = "report" /\ cur' = cur
         \/ pc' = "pick" /\ cur' = cur + 1
  BY DEF Settle
<1>2. outcome \in [Calls -> {"none", "executed", "refused"}]
  BY DEF Typed, PermissionTypeOK
<1>3. \A c \in Calls : /\ c > cur \/ c > cur + 1 => c # cur /\ c > cur
                       /\ c = cur + 1 => c # cur /\ c > cur
  BY DEF Calls
<1>4. SettledCallHasNoRow'
  BY <1>1, <1>2 DEF Rows, SettledCallHasNoRow
<1>5. \A c \in Calls : c > cur' => row'[c] = "none"
  BY <1>1, <1>3 DEF Rows
<1>6. pc' \in {"pick", "register", "tool"} => (cur' \in Calls => row'[cur'] = "none")
  BY <1>1, <1>3 DEF Rows
<1> QED
  BY <1>4, <1>5, <1>6

LEMMA RowsStep == Typed /\ Order /\ Rows /\ [PermissionNext]_permissionVars => Rows'
<1> SUFFICES ASSUME Typed, Order, Rows, [PermissionNext]_permissionVars PROVE Rows'
  OBVIOUS
<1> USE DEF runVars, engVars, rowVars, Frame
\* Steps that settle nothing, and lose rows but add none.
<1>a. ASSUME UNCHANGED <<outcome, cur, cut>>,
             AtomicSet => \A c \in Calls : row[c] = "none" => row'[c] = "none",
             pc' \in {"pick", "register", "tool"} =>
                 \/ pc \in {"pick", "register", "tool"}
                 \/ row'[cur] = "none"
      PROVE  Rows'
  BY <1>a DEF Rows, SettledCallHasNoRow
<1>1. CASE Pick
  BY <1>1, <1>a DEF Pick
<1>2. CASE Register
  <2>1. cur \in Calls /\ outcome[cur] = "none"
    BY <1>2 DEF Register, Typed, InCalls, Order, AtCall
  <2>2. \A c \in Calls : c # cur => row'[c] = row[c]
    BY <1>2, <2>1 DEF Register, Typed, PermissionTypeOK
  <2>3. \A c \in Calls : c > cur => c # cur
    BY <2>1 DEF Calls
  <2> QED
    BY <1>2, <2>1, <2>2, <2>3 DEF Register, Rows, SettledCallHasNoRow
<1>3. CASE Announce
  BY <1>3, <1>a DEF Announce
<1>4. CASE ReadRow
  <2>1. cur \in Calls
    BY <1>4 DEF ReadRow, Typed, InCalls, Awaiting
  <2>2. CASE Settle("refused") /\ row[cur] = "none"
    BY <1>4, <2>1, <2>2, SettleRows DEF ReadRow
  <2>3. CASE pc' \in {"delete", "check"} /\ UNCHANGED <<cur, outcome>>
    BY <1>4, <1>a, <2>3 DEF ReadRow
  <2> QED
    BY <1>4, <2>2, <2>3 DEF ReadRow
<1>5. CASE Check
  BY <1>5, <1>a DEF Check
<1>6. CASE GiveUp
  <2>1. AtomicSet => \A c \in Calls : row[c] = "none" => row'[c] = "none"
    <3>1. row \in [Calls -> Statuses \cup {"none"}]
      BY DEF Typed, PermissionTypeOK
    <3>2. ASSUME AtomicSet
          PROVE  \E st \in Statuses : row' = row \/
                     (row[cur] # "none" /\ row' = [row EXCEPT ![cur] = st])
      BY <1>6, <3>2 DEF GiveUp, SetReturns, SetProgresses, Statuses
    <3> QED
      BY <3>1, <3>2
  <2>2. pc' \in {"delete", "cancel", "expire"}
    BY <1>6 DEF GiveUp
  <2> QED
    BY <1>6, <1>a, <2>1, <2>2 DEF GiveUp
<1>7. CASE Delete
  <2>1. /\ cur \in Calls /\ row'[cur] = "none"
        /\ \A c \in Calls : c # cur => row'[c] = row[c]
    BY <1>7 DEF Delete, Erase, Typed, PermissionTypeOK, InCalls, Awaiting
  <2>2. CASE ~verdict
    BY <1>7, <2>1, <2>2, SettleRows DEF Delete
  <2>3. CASE verdict
    BY <1>7, <1>a, <2>1, <2>3 DEF Delete
  <2> QED
    BY <2>2, <2>3
<1>8. CASE Tool
  <2>1. cur \in Calls
    BY <1>8 DEF Tool, Typed, InCalls
  <2>2. CASE ~AtomicSet
    BY <2>2 DEF Rows
  <2>3. CASE AtomicSet
    BY <1>8, <2>1, <2>3, SettleRows DEF Tool, Rows
  <2> QED
    BY <2>2, <2>3
<1>9. CASE Report
  <2>1. cur \in Calls
    BY <1>9 DEF Report, Typed, InCalls
  <2>2. CASE pc' = "aborted" /\ UNCHANGED cur
    BY <1>9, <1>a, <2>2 DEF Report
  <2>3. CASE pc' = "pick" /\ cur' = cur + 1
    <3>1. \A c \in Calls : (c > cur + 1 => c > cur) /\ (c = cur + 1 => c > cur)
      BY <2>1 DEF Calls
    <3> QED
      BY <1>9, <2>3, <3>1 DEF Report, Rows, SettledCallHasNoRow
  <2> QED
    BY <1>9, <2>2, <2>3 DEF Report
<1>10. CASE Cut
  <2>1. cur \in Calls
    BY <1>10 DEF Cut, Typed, InCalls
  <2>2. CASE cut' # cut
    BY <1>10, <2>1, <2>2, SettleRows DEF Cut
  <2>3. CASE cut' = cut
    BY <1>10, <2>1, <2>3 DEF Cut, Settle, Rows, SettledCallHasNoRow, Typed, PermissionTypeOK, Calls
  <2> QED
    BY <2>2, <2>3
<1>11. CASE DeadlinePasses
  BY <1>11, <1>a DEF DeadlinePasses
<1>12. CASE Disconnect
  BY <1>12, <1>a DEF Disconnect
<1>13. CASE UNCHANGED <<runVars, engVars, rowVars>>
  BY <1>13, <1>a
<1>14. ASSUME NEW c \in Calls, Expire(c) PROVE Rows'
  <2>1. \A d \in Calls : row[d] = "none" => row'[d] = "none"
    BY <1>14 DEF Expire, Erase, Typed, PermissionTypeOK
  <2> QED
    BY <1>14, <1>a, <2>1 DEF Expire
<1>15. ASSUME NEW r \in Responders, RespondSets(r) PROVE Rows'
  <2>1. AtomicSet => \A c \in Calls : row[c] = "none" => row'[c] = "none"
    BY <1>15 DEF RespondSets, SetReturns, SetProgresses, Typed, PermissionTypeOK
  <2> QED
    BY <1>15, <1>a, <2>1 DEF RespondSets
<1>16. \/ UNCHANGED <<runVars, engVars, rowVars>>
       \/ Engine \/ Cut \/ DeadlinePasses \/ Disconnect
       \/ \E c \in Calls : Expire(c)
       \/ \E r \in Responders : RespondSets(r)
  BY DEF PermissionNext, permissionVars, StopPops, StopStores, StopFails, Respond
<1> QED
  BY <1>1, <1>2, <1>3, <1>4, <1>5, <1>6, <1>7, <1>8, <1>9, <1>10, <1>11, <1>12, <1>13,
     <1>14, <1>15, <1>16 DEF Engine

LEMMA Inductive == PermissionSpec => []PermissionIInv
<1>1. PermissionIInv /\ [PermissionNext]_permissionVars => PermissionIInv'
  BY PermissionTypedStep, OrderStep, AnswersStep, VotesStep, RowsStep DEF PermissionIInv
<1> QED
  BY <1>1, IInvInit, PTL DEF PermissionSpec

\* No tool that needs permission runs without a stored approval of that call,
\* for any number of calls and of concurrent answers, with either store
\* (engine.py:640-661, agent_service.py:280-341).
THEOREM ApprovalSafety == PermissionSpec => []OnlyApprovedCallsRun
<1>1. PermissionIInv => OnlyApprovedCallsRun
  BY DEF PermissionIInv, Votes
<1> QED
  BY <1>1, Inductive, PTL

\* With SQLite's conditional UPDATE no settled call keeps a row, unless its wait
\* was cut off, whatever the answers in flight do (repositories.py:500-510).
THEOREM RowsCleared == ASSUME AtomicSet PROVE PermissionSpec => []SettledCallHasNoRow
<1>1. PermissionIInv => SettledCallHasNoRow
  BY DEF PermissionIInv, Rows
<1> QED
  BY <1>1, Inductive, PTL

-----------------------------------------------------------------------------
(* Stops: between the call at which the stop was stored and the one the      *)
(* engine is at no turn has ended.                                           *)

SameTurn == rowAborted => /\ stopAt \in Nat /\ stopAt <= cur
                          /\ \A d \in turnEnd : stopAt <= d => cur <= d

\* Settling a call leads to the next one of the same turn at most.
LEMMA SettleInTurn ==
    ASSUME Typed, SameTurn, cur \in Calls, NEW o, Settle(o), UNCHANGED <<turnEnd, rowAborted, stopAt>>
    PROVE  SameTurn'
<1>1. cur \in Nat /\ turnEnd \subseteq Nat
  BY CallsRange DEF Typed, PermissionTypeOK
<1>2. CASE cur' = cur
  BY <1>2 DEF SameTurn
<1>3. CASE cur \notin turnEnd /\ cur' = cur + 1
  BY <1>1, <1>3 DEF SameTurn
<1> QED
  BY <1>2, <1>3 DEF Settle

LEMMA SameTurnStep == Typed /\ SameTurn /\ [PermissionNext]_permissionVars => SameTurn'
<1> SUFFICES ASSUME Typed, SameTurn, [PermissionNext]_permissionVars PROVE SameTurn'
  OBVIOUS
<1> USE DEF runVars, stopVars, Frame
<1>1. CASE UNCHANGED <<cur, turnEnd, rowAborted, stopAt>>
  BY <1>1 DEF SameTurn
<1>2. CASE ReadRow \/ Delete \/ Cut \/ Tool
  <2>1. cur \in Calls /\ UNCHANGED <<turnEnd, rowAborted, stopAt>>
    BY <1>2 DEF ReadRow, Delete, Cut, Tool, Typed, InCalls, Awaiting
  <2>2. UNCHANGED cur \/ Settle("refused") \/ Settle("executed")
    BY <1>2 DEF ReadRow, Delete, Cut, Tool
  <2> QED
    BY <2>1, <2>2, <1>1, SettleInTurn
<1>3. CASE Report
  \* A stopped run ends here.
  <2>1. rowAborted => UNCHANGED cur
    BY <1>3 DEF Report, RunSeesStop
  <2>2. UNCHANGED <<turnEnd, rowAborted, stopAt>>
    BY <1>3 DEF Report
  <2> QED
    BY <2>1, <2>2 DEF SameTurn
<1>4. CASE StopStores
  <2>1. UNCHANGED <<cur, turnEnd>> /\ stopAt' = cur /\ rowAborted'
    BY <1>4 DEF StopStores, engVars
  <2>2. cur \in Nat
    BY CallsRange DEF Typed, PermissionTypeOK
  <2> QED
    BY <2>1, <2>2 DEF SameTurn
<1>5. \/ UNCHANGED <<cur, turnEnd, rowAborted, stopAt>>
      \/ ReadRow \/ Delete \/ Cut \/ Tool \/ Report \/ StopStores
  BY DEF PermissionNext, Engine, permissionVars, engVars, Pick, Register, Announce, Check, GiveUp, DeadlinePasses,
         Disconnect, StopPops, StopFails, Expire, Respond, RespondSets
<1> QED
  BY <1>1, <1>2, <1>3, <1>4, <1>5

\* A tool that starts after a stop was stored belongs to the turn that was
\* running then: for any number of calls, wherever turns end, and with any
\* answers in flight, no stopped run begins another turn (agent_service.py:1334).
THEOREM StopsWithinTurn == PermissionSpec => []StopEndsWithTurn
<1>1. PermissionInit => SameTurn
  BY DEF PermissionInit, SameTurn
<1>2. PermissionIInv /\ SameTurn => StopEndsWithTurn
  <2> SUFFICES ASSUME Typed, Order, SameTurn, NEW c \in Calls, rowAborted, outcome[c] = "executed",
                      NEW d \in turnEnd, stopAt <= d, d < c
               PROVE  FALSE
    BY DEF PermissionIInv, StopEndsWithTurn
  <2>1. c \in Nat /\ d \in Nat /\ cur \in Nat
    BY CallsRange DEF Typed, PermissionTypeOK
  <2>2. c <= cur
    BY <2>1 DEF Order
  <2>3. cur <= d
    BY DEF SameTurn
  <2> QED
    BY <2>1, <2>2, <2>3
<1>3. PermissionIInv /\ SameTurn /\ [PermissionNext]_permissionVars => SameTurn'
  BY SameTurnStep DEF PermissionIInv
<1> QED
  BY <1>1, <1>2, <1>3, Inductive, PTL DEF PermissionSpec

\* Once the stop is stored no step sends another permission prompt: the only
\* step that does looks at the stop first (agent_service.py:1334).
THEOREM NoLatePrompt == PermissionSpec => NoPromptAfterStop
<1>1. [PermissionNext]_permissionVars => [rowAborted => asked' = asked]_permissionVars
  BY DEF PermissionNext, Engine, permissionVars, runVars, engVars, rowVars, setVars, stopVars, respVars, Frame, RunSeesStop,
         Pick, Register, Announce, ReadRow, Check, GiveUp, Delete, Cut, Tool, Report, DeadlinePasses,
         Disconnect, StopPops, StopStores, StopFails, Expire, Respond, RespondSets
<1> QED
  BY <1>1, PTL DEF PermissionSpec, NoPromptAfterStop

-----------------------------------------------------------------------------
(* The refinement.                                                         *)

absNeeds == [c \in Calls |-> kind[c] = "ask"]
absVotes == [c \in Calls |-> Cast(c)]

LEMMA CastKept == UNCHANGED respVars => absVotes' = absVotes
  BY DEF respVars, absVotes, Cast, Wrote

\* A request that has not written yet changes nobody's vote by choosing its call.
LEMMA RespondVotes ==
    ASSUME Typed, Answers, NEW r \in Responders, Respond(r)
    PROVE  absVotes' = absVotes
<1>1. ~Wrote(r) /\ ~Wrote(r)'
  BY DEF Respond, Answers, Wrote, Typed, PermissionTypeOK
<1>2. \A q \in Responders : q # r =>
          reply'[q] = reply[q] /\ target'[q] = target[q] /\ says'[q] = says[q]
  BY DEF Respond, Typed, PermissionTypeOK
<1>3. \A c \in Calls : Cast(c)' = Cast(c)
  BY <1>1, <1>2 DEF Cast, Wrote
<1> QED
  BY <1>3 DEF absVotes

\* A status update adds at most the responder's verdict to the votes on its call.
LEMMA RespondSetsVotes ==
    ASSUME Typed, Answers, NEW r \in Responders, RespondSets(r)
    PROVE  \/ absVotes' = absVotes
           \/ absVotes' = [absVotes EXCEPT ![target[r]] = @ \cup {says[r]}]
<1>1. /\ target' = target /\ says' = says /\ ~Wrote(r)
      /\ \A q \in Responders : q # r => reply'[q] = reply[q]
  BY DEF RespondSets, Answers, Wrote, Typed, PermissionTypeOK
<1>2. \A c \in Calls : c # target[r] => Cast(c)' = Cast(c)
  BY <1>1 DEF Cast, Wrote
<1>3. CASE Wrote(r)'
  <2>1. \A c \in Calls : c = target[r] => Cast(c)' = Cast(c) \cup {says[r]}
    BY <1>1, <1>3 DEF Cast, Wrote
  <2> QED
    BY <1>2, <2>1 DEF absVotes
<1>4. CASE ~Wrote(r)'
  <2>1. \A c \in Calls : c = target[r] => Cast(c)' = Cast(c)
    BY <1>1, <1>4 DEF Cast, Wrote
  <2> QED
    BY <1>2, <2>1 DEF absVotes
<1> QED
  BY <1>3, <1>4

\* Settling the call at cur is the abstract Execute or Refuse.
LEMMA SettleRefines ==
    ASSUME Typed, Order, cur \in Calls, outcome[cur] = "none",
           NEW o \in {"executed", "refused"}, Settle(o),
           o = "executed" => kind[cur] = "allow" \/ Approved(cur),
           o = "refused" => kind[cur] = "ask",
           kind' = kind, UNCHANGED respVars
    PROVE  A!Next
<1>1. A!Reached(cur)
  BY DEF Order, A!Reached, A!Calls, Calls
<1>2. absVotes' = absVotes /\ absNeeds' = absNeeds
  BY CastKept DEF absNeeds
<1>3. Approved(cur) => "approved" \in absVotes[cur]
  BY DEF Approved, absVotes, Cast
<1>4. absNeeds[cur] <=> kind[cur] = "ask"
  BY DEF absNeeds
<1>5. CASE o = "executed"
  <2>1. A!Execute(cur)
    BY <1>1, <1>2, <1>3, <1>4, <1>5 DEF A!Execute, Settle, absVotes, absNeeds
  <2> QED
    BY <2>1 DEF A!Next, A!Calls, Calls
<1>6. CASE o = "refused"
  <2>1. A!Refuse(cur)
    BY <1>1, <1>2, <1>4, <1>6 DEF A!Refuse, Settle, absVotes, absNeeds
  <2> QED
    BY <2>1 DEF A!Next, A!Calls, Calls
<1> QED
  BY <1>5, <1>6

LEMMA StepRefines == PermissionIInv /\ [PermissionNext]_permissionVars => [A!Next]_(A!avars)
<1> SUFFICES ASSUME PermissionIInv, [PermissionNext]_permissionVars PROVE [A!Next]_(A!avars)
  OBVIOUS
<1>0. Typed /\ Order /\ Answers /\ Votes
  BY DEF PermissionIInv
<1> USE DEF runVars, engVars, Frame
<1>a. ASSUME kind' = kind, UNCHANGED <<outcome, respVars>> PROVE UNCHANGED A!avars
  BY <1>a, CastKept DEF A!avars, absVotes
<1>1. CASE Pick \/ Register \/ Announce \/ Check \/ GiveUp \/ Report \/ DeadlinePasses \/ Disconnect
  BY <1>1, <1>a DEF Pick, Register, Announce, Check, GiveUp, Report, DeadlinePasses, Disconnect
<1>2. CASE ReadRow
  <2>1. cur \in Calls /\ outcome[cur] = "none" /\ kind[cur] = "ask"
    BY <1>0, <1>2 DEF ReadRow, Typed, InCalls, Order, AtCall, Awaiting
  <2>2. CASE Settle("refused")
    BY <1>0, <1>2, <2>1, <2>2, SettleRefines DEF ReadRow
  <2>3. CASE UNCHANGED outcome
    BY <1>2, <1>a, <2>3 DEF ReadRow
  <2> QED
    BY <1>2, <2>2, <2>3 DEF ReadRow
<1>3. CASE Delete
  <2>1. cur \in Calls /\ outcome[cur] = "none" /\ kind[cur] = "ask"
    BY <1>0, <1>3 DEF Delete, Typed, InCalls, Order, AtCall, Awaiting
  <2>2. CASE Settle("refused")
    BY <1>0, <1>3, <2>1, <2>2, SettleRefines DEF Delete
  <2>3. CASE UNCHANGED outcome
    BY <1>3, <1>a, <2>3 DEF Delete
  <2> QED
    BY <1>3, <2>2, <2>3 DEF Delete
<1>4. CASE Cut
  <2>1. cur \in Calls /\ outcome[cur] = "none" /\ kind[cur] = "ask"
    BY <1>0, <1>4 DEF Cut, Typed, InCalls, Order, AtCall, Awaiting
  <2> QED
    BY <1>0, <1>4, <2>1, SettleRefines DEF Cut
<1>5. CASE Tool
  <2>1. cur \in Calls /\ outcome[cur] = "none"
    BY <1>0, <1>5 DEF Tool, Typed, InCalls, Order, AtCall, Awaiting
  <2>2. kind[cur] = "allow" \/ Approved(cur)
    BY <1>0, <1>5, <2>1 DEF Tool, Votes, Typed, PermissionTypeOK
  <2> QED
    BY <1>0, <1>5, <2>1, <2>2, SettleRefines DEF Tool
<1>6. CASE UNCHANGED <<runVars, engVars, respVars>>
  BY <1>6, <1>a
<1>7. ASSUME NEW r \in Responders, Respond(r) PROVE UNCHANGED A!avars
  BY <1>0, <1>7, RespondVotes DEF Respond, A!avars, absVotes
<1>8. ASSUME NEW r \in Responders, RespondSets(r) PROVE [A!Next]_(A!avars)
  <2>1. UNCHANGED <<kind, outcome>>
    BY <1>8 DEF RespondSets
  <2>2. CASE absVotes' = absVotes
    BY <2>1, <2>2 DEF A!avars, absVotes
  <2>3. CASE absVotes' = [absVotes EXCEPT ![target[r]] = @ \cup {says[r]}]
    <3>1. /\ target[r] \in Calls /\ target[r] \in asked
          /\ says[r] \in {"approved", "denied"}
      BY <1>0, <1>8 DEF RespondSets, Typed, TargetsCalls, Answers
    <3>2. absNeeds[target[r]] /\ A!Reached(target[r])
      <4>1. kind[target[r]] = "ask" /\ target[r] <= cur
        BY <1>0, <3>1 DEF Order
      <4>2. cur \in Nat
        BY <1>0, CallsRange DEF Typed, PermissionTypeOK
      <4>3. \A d \in Calls : d < target[r] => d < cur
        BY <3>1, <4>1, <4>2 DEF Calls
      <4> QED
        BY <1>0, <3>1, <4>1, <4>3 DEF Order, absNeeds, A!Reached, A!Calls, Calls
    <3>3. A!Vote(target[r], says[r])
      BY <2>1, <2>3, <3>2 DEF A!Vote, absVotes, absNeeds
    <3> QED
      BY <3>1, <3>3 DEF A!Next, A!Calls, Calls
  <2> QED
    BY <1>0, <1>8, <2>2, <2>3, RespondSetsVotes
<1>9. \/ UNCHANGED <<runVars, engVars, respVars>>
      \/ Engine \/ Cut \/ DeadlinePasses \/ Disconnect
      \/ \E r \in Responders : Respond(r) \/ RespondSets(r)
  BY DEF PermissionNext, permissionVars, StopPops, StopStores, StopFails, Expire
<1> QED
  BY <1>1, <1>2, <1>3, <1>4, <1>5, <1>6, <1>7, <1>8, <1>9 DEF Engine

\* The protocol implements the abstract approval: calls are settled in order and
\* once, a tool needing permission runs only on a recorded approval, and only
\* such tools are refused (engine.py:591-704).
THEOREM Refinement == PermissionSpec => ImplementsApproval
<1>1. PermissionInit => A!Init
  <2> SUFFICES ASSUME PermissionInit PROVE A!Init
    OBVIOUS
  <2>1. \A c \in Calls : Cast(c) = {}
    BY DEF PermissionInit, Cast, Wrote
  <2> QED
    BY <2>1 DEF PermissionInit, A!Init, A!Calls, Calls
<1>2. PermissionIInv /\ [PermissionNext]_permissionVars => [A!Next]_(A!avars)
  BY StepRefines
<1> QED
  BY <1>1, <1>2, Inductive, PTL DEF PermissionSpec, ImplementsApproval, A!Spec

-----------------------------------------------------------------------------
(* ShellAgent.                                                             *)

\* What is under way is about a task.
AboutTasks ==
    /\ \A r \in Runs : run[r].pc \notin {"none", "over"} => run[r].task \in Tasks
    /\ \A n \in 1..MaxOpens : loads[n].pc \notin {"none", "over"} => loads[n].task \in Tasks

\* Of an instance of the hook that is not mounted only the refs are left.
OnlyRefsLeft == \A i \in 1..MaxViews : i # current => view[i] = Refs(view[i])

IInv == TypeOK /\ AboutTasks /\ OnlyRefsLeft

-----------------------------------------------------------------------------
(* Types of views and of their updates.                                    *)

TaskOrNone == Tasks \cup {NoTask}
RunOrNone == Runs \cup {NoRun}
BgType == [Tasks -> [run : RunOrNone, running : BOOLEAN]]

LEMMA BlankTyped == Blank \in ViewType
  BY DEF Blank, ViewType, NoPlan, NoPoll, Runs, NoRun

LEMMA RefsTyped == ASSUME NEW v \in ViewType PROVE Refs(v) \in ViewType
  BY BlankTyped DEF Refs, Blank, ViewType, NoPlan, NoPoll

LEMMA RefsTwice == ASSUME NEW v PROVE Refs(Refs(v)) = Refs(v)
  BY DEF Refs, Blank

\* A change of the fields that are no refs is lost on an unmounted view.
LEMMA KeptTyped ==
    ASSUME view \in [1..MaxViews -> ViewType], NEW i \in 1..MaxViews, NEW v \in ViewType
    PROVE  Kept(i, v) \in ViewType
<1>1. [v EXCEPT !.task = view[i].task, !.running = view[i].running \/ @] \in ViewType
  BY DEF ViewType
<1> QED
  BY <1>1, RefsTyped DEF Kept

LEMMA SetViewTyped ==
    ASSUME view \in [1..MaxViews -> ViewType], NEW i \in 1..MaxViews, NEW v \in ViewType,
           SetView(i, v)
    PROVE  view' \in [1..MaxViews -> ViewType]
  BY KeptTyped DEF SetView

LEMMA SetViewKeeps ==
    ASSUME view \in [1..MaxViews -> ViewType], OnlyRefsLeft, UNCHANGED current,
           NEW i \in 1..MaxViews, NEW v, SetView(i, v)
    PROVE  OnlyRefsLeft'
<1> SUFFICES ASSUME NEW j \in 1..MaxViews, j # current PROVE view'[j] = Refs(view'[j])
  BY DEF OnlyRefsLeft, Refs
<1>1. CASE j = i
  <2>1. view'[j] = Kept(i, v)
    BY <1>1 DEF SetView
  <2> QED
    BY <2>1, RefsTwice DEF Kept
<1>2. CASE j # i
  <2>1. view'[j] = view[j]
    BY <1>2 DEF SetView
  <2> QED
    BY <2>1 DEF OnlyRefsLeft
<1> QED
  BY <1>1, <1>2

\* A load starts with one change of its view.
LEMMA LoadTaskTyped ==
    ASSUME view \in [1..MaxViews -> ViewType], NEW i \in 1..MaxViews, NEW v \in ViewType,
           NEW t \in TaskOrNone, NEW b \in BgType, LoadTask(i, v, t, b)
    PROVE  (\E x \in ViewType : SetView(i, x)) /\ bg' \in BgType
<1> DEFINE w == IF Parks(v, t) THEN [v EXCEPT !.ctl = NoRun, !.shown = {}, !.perm = FALSE, !.plan = NoPlan]
                ELSE v
           x == [w EXCEPT !.poll.task = NoTask, !.active = t]
<1>1. w \in ViewType
  <2>1. [v EXCEPT !.ctl = NoRun, !.shown = {}, !.perm = FALSE, !.plan = NoPlan] \in ViewType
    BY DEF ViewType, NoPlan
  <2> QED
    BY <2>1
<1> HIDE DEF w
<1>2. x \in ViewType
  BY <1>1 DEF ViewType, TaskOrNone
<1> HIDE DEF x
<1>3. SetView(i, x)
  BY DEF LoadTask, x, w
<1>4. Parked(b, v) \in BgType
  BY DEF Parked, BgType, ViewType, RunOrNone
<1> QED
  BY <1>2, <1>3, <1>4 DEF LoadTask

-----------------------------------------------------------------------------
(* What a step does to the views, and to the rest.                         *)

LoadType == [view : 1..MaxViews, task : TaskOrNone, pc : {"none", "meta", "status", "rows", "over"},
             was : RunOrNone, final : BOOLEAN]
RunType == [task : TaskOrNone, kind : Kinds, view : 1..MaxViews,
            pc : {"none", "early", "claimed", "open", "closing", "reload", "over"}, aborted : BOOLEAN]
StatusType == [Tasks -> {"none", "running"} \cup Final]

\* Every step but Leave changes one view at most.
ViewStep == /\ UNCHANGED current
            /\ UNCHANGED view \/ \E i \in 1..MaxViews, v \in ViewType : SetView(i, v)

LoadStep == /\ opened' \in 0..MaxOpens /\ loads' \in [1..MaxOpens -> LoadType]
            /\ \A n \in 1..MaxOpens : loads'[n].pc \notin {"none", "over"} => loads'[n].task \in Tasks

RunStep == /\ run' \in [Runs -> RunType]
           /\ \A r \in Runs : run'[r].pc \notin {"none", "over"} => run'[r].task \in Tasks

BgStep == bg' \in BgType /\ removals' \in [Tasks -> Nat]

StoreStep == status' \in StatusType /\ planned' \subseteq Tasks

TypedStep == ViewStep /\ LoadStep /\ RunStep /\ BgStep /\ StoreStep /\ calm' \in BOOLEAN

LEMMA Parts ==
    TypeOK <=> /\ view \in [1..MaxViews -> ViewType] /\ current \in 1..MaxViews
               /\ opened \in 0..MaxOpens /\ loads \in [1..MaxOpens -> LoadType]
               /\ run \in [Runs -> RunType] /\ bg \in BgType /\ removals \in [Tasks -> Nat]
               /\ status \in StatusType /\ planned \subseteq Tasks /\ calm \in BOOLEAN
  BY DEF TypeOK, LoadType, RunType, BgType, StatusType, TaskOrNone, RunOrNone

LEMMA StepKeeps == ASSUME IInv, TypedStep PROVE IInv'
<1>1. view' \in [1..MaxViews -> ViewType] /\ OnlyRefsLeft'
  <2>1. CASE UNCHANGED view
    BY <2>1, Parts DEF IInv, TypedStep, ViewStep, OnlyRefsLeft, Refs
  <2>2. ASSUME NEW i \in 1..MaxViews, NEW v \in ViewType, SetView(i, v)
        PROVE  view' \in [1..MaxViews -> ViewType] /\ OnlyRefsLeft'
    BY <2>2, Parts, SetViewTyped, SetViewKeeps DEF IInv, TypedStep, ViewStep
  <2> QED
    BY <2>1, <2>2 DEF TypedStep, ViewStep
<1>2. TypeOK'
  <2>1. current' \in 1..MaxViews
    BY Parts DEF IInv, TypedStep, ViewStep
  <2> QED
    BY <1>1, <2>1 DEF TypedStep, LoadStep, RunStep, BgStep, StoreStep, TypeOK,
                      LoadType, RunType, BgType, StatusType, TaskOrNone, RunOrNone
<1>3. AboutTasks'
  BY DEF TypedStep, LoadStep, RunStep, AboutTasks
<1> QED
  BY <1>1, <1>2, <1>3 DEF IInv

\* The parts of a step that stay as they are.
LEMMA Unchanged ==
    ASSUME IInv
    PROVE  /\ UNCHANGED <<opened, loads>> => LoadStep
           /\ UNCHANGED run => RunStep
           /\ UNCHANGED bgVars => BgStep
           /\ UNCHANGED storeVars => StoreStep
           /\ UNCHANGED <<view, current>> => ViewStep
           /\ UNCHANGED calm => calm' \in BOOLEAN
  BY Parts DEF IInv, AboutTasks, LoadStep, RunStep, BgStep, StoreStep, ViewStep, bgVars, storeVars

LEMMA GotoSteps ==
    ASSUME IInv, NEW r \in Runs, run[r].pc \notin {"none", "over"},
           NEW where \in {"claimed", "open", "closing", "reload", "over"}, Goto(r, where)
    PROVE  RunStep
<1>1. Over(r) \in RunType
  <2>1. run[r].aborted \in BOOLEAN
    BY Parts DEF IInv, RunType
  <2>2. NoRequest \in RunType
    BY ShellAgentAssumption DEF NoRequest, RunType, TaskOrNone, Kinds
  <2> QED
    BY <2>1, <2>2 DEF Over, RunType
<1>2. [run[r] EXCEPT !.pc = where] \in RunType
  BY Parts DEF IInv, RunType
<1>3. run'[r] = (IF where = "over" THEN Over(r) ELSE [run[r] EXCEPT !.pc = where])
  BY Parts DEF IInv, Goto
<1>4. \A q \in Runs \ {r} : run'[q] = run[q]
  BY Parts DEF IInv, Goto
<1>5. run' \in [Runs -> RunType]
  BY <1>1, <1>2, Parts DEF IInv, Goto
<1>6. run'[r].pc \notin {"none", "over"} => run'[r].task \in Tasks
  BY <1>3, Parts DEF IInv, AboutTasks, Over, NoRequest, RunType
<1> QED
  BY <1>4, <1>5, <1>6 DEF RunStep, IInv, AboutTasks

LEMMA SetStatusTyped ==
    ASSUME IInv, NEW t, NEW s \in {"running"} \cup Final, SetStatus(t, s)
    PROVE  status' \in StatusType
  BY Parts DEF IInv, SetStatus, StatusType

LEMMA Owned == ASSUME IInv, NEW r \in Runs PROVE Own(r) \in ViewType /\ run[r].view \in 1..MaxViews
  BY Parts DEF IInv, Own, RunType

LEMMA AppendedTyped ==
    ASSUME IInv, NEW r \in Runs, run[r].pc \notin {"none", "over"} PROVE Appended(r) \in ViewType
<1>1. run[r].task \in Tasks
  BY DEF IInv, AboutTasks
<1> QED
  BY <1>1, Owned DEF Appended, ViewType

LEMMA ShowSteps ==
    ASSUME IInv, NEW r \in Runs, NEW v \in ViewType, UNCHANGED current, Show(r, v) \/ ShowIfActive(r, v)
    PROVE  ViewStep
  BY Owned DEF Show, ShowIfActive, ViewStep

LEMMA EndedTyped ==
    ASSUME IInv, NEW r \in Runs, NEW v \in ViewType
    PROVE  Released(r, v) \in ViewType /\ Ended(r, v) \in ViewType
<1>1. [v EXCEPT !.running = FALSE, !.ctl = NoRun] \in ViewType
  BY DEF ViewType
<1>2. Released(r, v) \in ViewType
  BY <1>1 DEF Released
<1>3. [Released(r, v) EXCEPT !.phase = "idle", !.plan = NoPlan] \in ViewType
  BY <1>2 DEF ViewType, NoPlan
<1> QED
  BY <1>2, <1>3 DEF Ended

LEMMA FinishSteps ==
    ASSUME IInv, NEW r \in Runs, run[r].pc \notin {"none", "over"},
           NEW v \in ViewType, NEW b \in BgType, UNCHANGED current, Finish(r, v, b)
    PROVE  ViewStep /\ bg' \in BgType /\ status' \in StatusType /\ calm' \in BOOLEAN
<1>1. CASE run[r].kind \in FirstKinds
  <2>1. LoadsAgain(r, v, b)
    BY <1>1 DEF Finish
  <2>2. run[r].task \in TaskOrNone /\ run[r].view \in 1..MaxViews
    BY Parts DEF IInv, RunType
  <2>3. (\E x \in ViewType : SetView(run[r].view, x)) /\ bg' \in BgType
    BY <2>1, <2>2, EndedTyped, LoadTaskTyped, Parts DEF LoadsAgain, IInv
  <2>4. status' \in StatusType /\ calm' \in BOOLEAN
    BY <2>1, Parts DEF LoadsAgain, IInv
  <2> QED
    BY <2>2, <2>3, <2>4 DEF ViewStep
<1>2. CASE run[r].kind \notin FirstKinds
  <2>1. Show(r, Ended(r, v)) /\ Outcome(r) /\ bg' = b /\ UNCHANGED calm
    BY <1>2 DEF Finish
  <2>2. ViewStep
    BY <2>1, EndedTyped, ShowSteps
  <2>3. status' \in StatusType
    BY <2>1, SetStatusTyped, Parts DEF Outcome, IInv, Final
  <2> QED
    BY <2>1, <2>2, <2>3, Parts DEF IInv
<1> QED
  BY <1>1, <1>2

LEMMA EndOfSteps ==
    ASSUME IInv, NEW r \in Runs, run[r].pc \notin {"none", "over"}, Goto(r, EndOf(r))
    PROVE  RunStep
  BY GotoSteps DEF EndOf

-----------------------------------------------------------------------------
(* Loads of a task.                                                        *)

LEMMA Begun ==
    ASSUME IInv, NEW n \in 1..opened
    PROVE  /\ n \in 1..MaxOpens /\ loads[n].view \in 1..MaxViews /\ view[loads[n].view] \in ViewType
           /\ loads[n].pc \notin {"none", "over"} => loads[n].task \in Tasks
<1>1. n \in 1..MaxOpens
  BY Parts, ShellAgentAssumption DEF IInv
<1> QED
  BY <1>1, Parts DEF IInv, AboutTasks, LoadType

\* A load goes on: only its progress changes.
LEMMA LoadGoesOn ==
    ASSUME IInv, NEW n \in 1..MaxOpens, loads[n].task \in Tasks, UNCHANGED opened,
           NEW l \in LoadType, l.task = loads[n].task, loads' = [loads EXCEPT ![n] = l]
    PROVE  LoadStep
<1>1. loads' \in [1..MaxOpens -> LoadType] /\ loads'[n] = l /\ \A m \in 1..MaxOpens \ {n} : loads'[m] = loads[m]
  BY Parts DEF IInv
<1> QED
  BY <1>1, Parts DEF IInv, AboutTasks, LoadStep

LEMMA LoadFoundTyped == ASSUME IInv, NEW n \in 1..opened, LoadFound(n) PROVE TypedStep
<1> DEFINE t == loads[n].task
           w == IF bg[t].running THEN bg[t].run ELSE NoRun
<1> DEFINE l == [loads[n] EXCEPT !.pc = "status", !.was = w]
<1>1. n \in 1..MaxOpens /\ t \in Tasks
  BY Begun DEF LoadFound
<1>2. w \in RunOrNone
  BY <1>1, Parts DEF IInv, BgType, RunOrNone
<1>3. loads' = [loads EXCEPT ![n] = l]
  BY <1>1, Parts DEF LoadFound, IInv, LoadType
<1> HIDE DEF w
<1>4. l \in LoadType /\ l.task = loads[n].task
  BY <1>1, <1>2, Parts DEF IInv, LoadType
<1> HIDE DEF l
<1>5. LoadStep
  BY <1>1, <1>3, <1>4, LoadGoesOn DEF LoadFound
<1> QED
  BY <1>5, Unchanged DEF TypedStep, LoadFound

\* The ends of a load.
LEMMA LoadOverTyped ==
    ASSUME IInv, NEW n \in 1..MaxOpens, UNCHANGED opened,
           loads' = [loads EXCEPT ![n] = [@ EXCEPT !.pc = "over", !.was = NoRun, !.final = FALSE]]
    PROVE  LoadStep
<1>1. [loads[n] EXCEPT !.pc = "over", !.was = NoRun, !.final = FALSE] \in LoadType
  BY Parts DEF IInv, LoadType, RunOrNone
<1>2. loads'[n].pc = "over" /\ \A m \in 1..MaxOpens \ {n} : loads'[m] = loads[m]
  BY Parts DEF IInv, LoadType
<1> QED
  BY <1>1, <1>2, Parts DEF IInv, AboutTasks, LoadStep

LEMMA LoadMissingTyped ==
    ASSUME IInv, NEW n \in 1..opened, NEW r \in Runs, NEW k \in FirstKinds, LoadMissing(n, r, k)
    PROVE  TypedStep
<1>1. n \in 1..MaxOpens /\ loads[n].task \in Tasks /\ loads[n].view \in 1..MaxViews
  BY Begun DEF LoadMissing
<1>2. LoadStep
  BY <1>1, LoadOverTyped DEF LoadMissing
<1>3. RunStep
  <2> DEFINE q == [task |-> loads[n].task, kind |-> k, view |-> loads[n].view,
                   pc |-> "early", aborted |-> FALSE]
  <2>1. q \in RunType /\ q.task \in Tasks
    BY <1>1 DEF RunType, TaskOrNone, FirstKinds, Kinds
  <2>2. run' = [run EXCEPT ![r] = q]
    BY DEF LoadMissing
  <2> HIDE DEF q
  <2> QED
    BY <2>1, <2>2, Parts DEF IInv, AboutTasks, RunStep
<1>4. ViewStep
  <2> DEFINE y == view[loads[n].view]
             x == [y EXCEPT !.running = TRUE, !.shown = {}, !.phase = "planning", !.plan = NoPlan]
  <2>0. y \in ViewType
    BY Begun
  <2> HIDE DEF y
  <2>1. x \in ViewType
    BY <2>0 DEF ViewType, NoPlan
  <2> USE DEF y
  <2>2. SetView(loads[n].view, x) /\ UNCHANGED current
    BY DEF LoadMissing
  <2> HIDE DEF x
  <2> QED
    BY <1>1, <2>1, <2>2 DEF ViewStep
<1> QED
  BY <1>2, <1>3, <1>4, Unchanged DEF TypedStep, LoadMissing

LEMMA ContinuesTyped ==
    ASSUME IInv, NEW n \in 1..opened, loads[n].pc = "status", NEW v \in ViewType, Continues(n, v)
    PROVE  ViewStep /\ LoadStep /\ RunStep /\ StoreStep /\ calm' \in BOOLEAN
<1>1. n \in 1..MaxOpens /\ loads[n].task \in Tasks /\ loads[n].view \in 1..MaxViews
  BY Begun
<1>2. LoadStep
  <2> DEFINE f == status[loads[n].task] \in {"completed", "stopped"}
             l == [loads[n] EXCEPT !.pc = "rows", !.final = f]
  <2>0. loads' = [loads EXCEPT ![n].pc = "rows", ![n].final = f] /\ f \in BOOLEAN
    BY DEF Continues
  <2> HIDE DEF f
  <2>1. loads' = [loads EXCEPT ![n] = l]
    BY <1>1, <2>0, Parts DEF IInv, LoadType
  <2>2. l \in LoadType /\ l.task = loads[n].task
    BY <1>1, <2>0, Parts DEF IInv, LoadType
  <2> HIDE DEF l
  <2> QED
    BY <1>1, <2>1, <2>2, LoadGoesOn DEF Continues
<1>3. ViewStep
  <2>1. [v EXCEPT !.active = loads[n].task] \in ViewType
    BY <1>1 DEF ViewType
  <2> QED
    BY <1>1, <2>1 DEF ViewStep, Continues
<1> QED
  BY <1>2, <1>3, Unchanged DEF Continues

\* A change of the view of a load.
LEMMA LoadShows ==
    ASSUME IInv, NEW n \in 1..opened, NEW v \in ViewType, SetView(loads[n].view, v), UNCHANGED current
    PROVE  ViewStep
  BY Begun DEF ViewStep

LEMMA LoadTyped == ASSUME IInv, NEW n \in 1..opened, Load(n) PROVE TypedStep
<1> DEFINE v == view[loads[n].view]
           t == loads[n].task
<1>1. v \in ViewType /\ n \in 1..MaxOpens
  BY Begun
<1>2. ASSUME StaysIdle(n) PROVE TypedStep
  <2> DEFINE w == [v EXCEPT !.running = FALSE, !.phase = "idle", !.ctl = NoRun, !.poll.task = NoTask]
  <2>1. Continues(n, w) /\ UNCHANGED bgVars /\ loads[n].pc = "status"
    BY <1>2 DEF StaysIdle
  <2> HIDE DEF v
  <2>2. w \in ViewType
    BY <1>1 DEF ViewType
  <2> HIDE DEF w
  <2> QED
    BY <2>1, <2>2, ContinuesTyped, Unchanged DEF TypedStep
<1>3. ASSUME FindsAborted(n) PROVE TypedStep
  <2> DEFINE w == [v EXCEPT !.running = FALSE, !.phase = "idle", !.ctl = NoRun]
  <2>1. Continues(n, w) /\ loads[n].pc = "status"
    BY <1>3 DEF FindsAborted
  <2>2. BgStep
    BY <1>3, Parts DEF FindsAborted, NoEntry, BgStep, BgType, RunOrNone, IInv
  <2> HIDE DEF v
  <2>3. w \in ViewType
    BY <1>1 DEF ViewType
  <2> HIDE DEF w
  <2> QED
    BY <2>1, <2>2, <2>3, ContinuesTyped DEF TypedStep
<1>4. ASSUME Restores(n) PROVE TypedStep
  <2> DEFINE w == [v EXCEPT !.running = TRUE, !.phase = "executing", !.ctl = loads[n].was, !.poll.task = t]
  <2>1. Continues(n, w) /\ loads[n].pc = "status"
    BY <1>4 DEF Restores
  <2>2. BgStep
    BY <1>4, <1>1, <2>1, Begun, Parts DEF Restores, BgStep, IInv
  <2>3. loads[n].was \in RunOrNone /\ t \in Tasks
    BY <1>1, <2>1, Begun, Parts DEF IInv, LoadType
  <2> HIDE DEF v, t
  <2>4. w \in ViewType
    BY <1>1, <2>3 DEF ViewType, RunOrNone
  <2> HIDE DEF w
  <2> QED
    BY <2>1, <2>2, <2>4, ContinuesTyped DEF TypedStep
<1>5. ASSUME LoadRows(n) PROVE TypedStep
  <2> DEFINE w == [v EXCEPT !.shown = {t}, !.task = t]
             x == [w EXCEPT !.plan = [of |-> t, steps |-> "pending"], !.phase = "awaiting_approval"]
  <2>1. SetView(loads[n].view, IF Waits(loads[n]) THEN x ELSE w)
    BY <1>5 DEF LoadRows
  <2>2. t \in Tasks
    BY <1>5, Begun DEF LoadRows
  <2> HIDE DEF v, t
  <2>3. w \in ViewType
    BY <1>1, <2>2 DEF ViewType
  <2> HIDE DEF w
  <2>4. x \in ViewType
    BY <2>2, <2>3 DEF ViewType
  <2> HIDE DEF x
  <2>5. ViewStep
    BY <1>5, <2>1, <2>3, <2>4, LoadShows DEF LoadRows
  <2>6. LoadStep
    BY <1>1, <1>5, LoadOverTyped DEF LoadRows
  <2> QED
    BY <1>5, <2>5, <2>6, Unchanged DEF LoadRows, TypedStep
<1> QED
  BY <1>2, <1>3, <1>4, <1>5, LoadFoundTyped, LoadMissingTyped DEF Load

LEMMA RemoveLaterTyped == ASSUME IInv, NEW t \in Tasks, RemoveLater(t) PROVE TypedStep
<1>1. BgStep
  BY Parts DEF IInv, RemoveLater, BgStep, BgType, NoEntry, RunOrNone
<1> QED
  BY <1>1, Unchanged DEF RemoveLater, TypedStep, pageVars

-----------------------------------------------------------------------------
(* A run and its stream.                                                   *)

\* A step that only changes the view of a run whose task is known.
LEMMA ShownTyped ==
    ASSUME IInv, NEW r \in Runs, NEW v \in ViewType, Show(r, v) \/ ShowIfActive(r, v),
           UNCHANGED <<current, loads, opened, run, bgVars, storeVars, calm>>
    PROVE  TypedStep
  BY ShowSteps, Unchanged DEF TypedStep

LEMMA ProceedTyped == ASSUME IInv, NEW r \in Runs, Proceed(r) PROVE TypedStep
<1>1. Own(r) \in ViewType /\ (run[r].pc \notin {"none", "over"} => run[r].task \in Tasks)
  BY Owned DEF IInv, AboutTasks
<1> DEFINE v == Own(r)
<1>2. ASSUME Claim(r) PROVE TypedStep
  <2>1. [v EXCEPT !.task = run[r].task, !.active = run[r].task] \in ViewType
    BY <1>1, <1>2 DEF Claim, ViewType
  <2> QED
    BY <1>2, <2>1, ShowSteps, GotoSteps, Unchanged DEF Claim, TypedStep
<1>3. ASSUME ArmFirst(r) PROVE TypedStep
  <2>1. [v EXCEPT !.ctl = r] \in ViewType /\ [v EXCEPT !.ctl = r, !.phase = "executing"] \in ViewType
    BY <1>1 DEF ViewType
  <2>2. ViewStep
    BY <1>3, <2>1, ShowSteps DEF ArmFirst
  <2>3. StoreStep
    BY <1>3, <1>1, Parts DEF ArmFirst, StoreStep, StatusType, IInv
  <2> QED
    BY <1>3, <2>2, <2>3, GotoSteps, Unchanged DEF ArmFirst, TypedStep
<1>4. ASSUME ArmExec(r) PROVE TypedStep
  <2>1. [v EXCEPT !.ctl = r] \in ViewType
    BY <1>1 DEF ViewType
  <2>2. ViewStep
    BY <1>4, <2>1, ShowSteps DEF ArmExec
  <2>3. StoreStep
    BY <1>4, <1>1, Parts DEF ArmExec, StoreStep, IInv
  <2> QED
    BY <1>4, <2>2, <2>3, GotoSteps, Unchanged DEF ArmExec, TypedStep
<1>5. ASSUME ArmReply(r) PROVE TypedStep
  <2> DEFINE p == IF run[r].kind = "quick" THEN "executing" ELSE v.phase
  <2>1. [v EXCEPT !.ctl = r, !.running = TRUE, !.phase = p] \in ViewType
    BY <1>1 DEF ViewType
  <2>2. ViewStep
    BY <1>5, <2>1, ShowSteps DEF ArmReply
  <2> QED
    BY <1>5, <2>2, GotoSteps, Unchanged DEF ArmReply, TypedStep
<1>6. ASSUME AbortSeen(r) \/ Finally(r) PROVE TypedStep
  <2>1. /\ Finish(r, Own(r), bg) /\ Goto(r, EndOf(r)) /\ run[r].pc \notin {"none", "over"}
        /\ UNCHANGED <<current, loads, opened, removals, planned>>
    BY <1>6 DEF AbortSeen, Finally
  <2> QED
    BY <1>1, <2>1, FinishSteps, EndOfSteps, Unchanged, Parts DEF TypedStep, StoreStep, BgStep, IInv
<1>7. ASSUME Reload(r) PROVE TypedStep
  <2>1. [v EXCEPT !.shown = {run[r].task}] \in ViewType
    BY <1>1, <1>7 DEF Reload, ViewType
  <2> QED
    BY <1>7, <2>1, ShowSteps, GotoSteps, Unchanged DEF Reload, TypedStep
<1> QED
  BY <1>2, <1>3, <1>4, <1>5, <1>6, <1>7 DEF Proceed

\* The end of a stream in an event.
LEMMA DoneTyped == ASSUME IInv, NEW r \in Runs, OnDone(r) PROVE TypedStep
<1> DEFINE v == [Own(r) EXCEPT !.perm = FALSE]
           w == IF ~IsActive(r) THEN Own(r)
                ELSE IF v.plan = NoPlan THEN v ELSE [v EXCEPT !.plan.steps = "done"]
<1>1. run[r].pc = "open" /\ run[r].task \in Tasks /\ Own(r) \in ViewType
  BY Owned DEF OnDone, Streaming, At, IInv, AboutTasks
<1>2. v \in ViewType
  BY <1>1 DEF ViewType
<1>3. Finish(r, w, EntryDone(run[r].task))
  BY DEF OnDone
<1> HIDE DEF v
<1>4. w \in ViewType
  <2>1. [v EXCEPT !.plan.steps = "done"] \in ViewType
    BY <1>2 DEF ViewType
  <2> QED
    BY <1>1, <1>2, <2>1
<1> HIDE DEF w
<1>5. EntryDone(run[r].task) \in BgType
  BY <1>1, Parts DEF EntryDone, BgType, IInv
<1>6. removals' \in [Tasks -> Nat]
  BY <1>1, Parts DEF OnDone, IInv
<1>7. UNCHANGED <<current, loads, opened, planned>> /\ Goto(r, EndOf(r))
  BY DEF OnDone
<1>8. ViewStep /\ BgStep /\ StoreStep /\ calm' \in BOOLEAN
  BY <1>1, <1>3, <1>4, <1>5, <1>6, <1>7, FinishSteps, Parts DEF BgStep, StoreStep, IInv
<1> QED
  BY <1>1, <1>7, <1>8, EndOfSteps, Unchanged DEF TypedStep

LEMMA QuestionTyped == ASSUME IInv, NEW r \in Runs, OnQuestion(r) PROVE TypedStep
<1>1. run[r].pc = "open" /\ Own(r) \in ViewType /\ Appended(r) \in ViewType
  BY Owned, AppendedTyped DEF OnQuestion, Streaming, At
<1>2. Finish(r, Appended(r), bg) /\ UNCHANGED <<current, loads, opened, removals, planned>>
  BY DEF OnQuestion
<1>3. ViewStep /\ BgStep /\ StoreStep /\ calm' \in BOOLEAN
  BY <1>1, <1>2, FinishSteps, Parts DEF BgStep, StoreStep, IInv
<1>4. RunStep
  <2> DEFINE now(q) == [run[q] EXCEPT !.aborted = @ \/ q = Own(r).ctl]
             last == IF EndOf(r) = "over" THEN [Over(r) EXCEPT !.aborted = now(r).aborted]
                     ELSE [now(r) EXCEPT !.pc = EndOf(r)]
             to(q) == IF q # r THEN now(q)
                      ELSE IF EndOf(r) = "over" THEN [Over(r) EXCEPT !.aborted = now(q).aborted]
                      ELSE [now(q) EXCEPT !.pc = EndOf(r)]
  <2>0. run' = [q \in Runs |-> to(q)]
    BY Zenon DEF OnQuestion
  <2>1. run' = [q \in Runs |-> IF q # r THEN now(q) ELSE last]
    <3>1. to(r) = last /\ \A q \in Runs \ {r} : to(q) = now(q)
      OBVIOUS
    <3> HIDE DEF to, last, now
    <3> QED
      BY <2>0, <3>1
  <2>2. ASSUME NEW q \in Runs PROVE now(q) \in RunType /\ now(q).pc = run[q].pc /\ now(q).task = run[q].task
    BY Parts DEF IInv, RunType
  <2> HIDE DEF now
  <2>3. last \in RunType /\ (last.pc = "over" \/ last.task = run[r].task)
    <3>1. Over(r) \in RunType /\ Over(r).pc = "over"
      <4>1. run[r].aborted \in BOOLEAN
        BY Parts DEF IInv, RunType
      <4>2. NoRequest \in RunType
        BY ShellAgentAssumption DEF NoRequest, RunType, TaskOrNone, Kinds
      <4> QED
        BY <4>1, <4>2 DEF Over, RunType
    <3>2. [now(r) EXCEPT !.pc = EndOf(r)] \in RunType /\ [now(r) EXCEPT !.pc = EndOf(r)].task = run[r].task
      BY <2>2 DEF RunType, EndOf
    <3>3. now(r).aborted \in BOOLEAN
      BY <2>2 DEF RunType
    <3> HIDE DEF last
    <3>4. [Over(r) EXCEPT !.aborted = now(r).aborted] \in RunType
          /\ [Over(r) EXCEPT !.aborted = now(r).aborted].pc = "over"
      BY <3>1, <3>3 DEF RunType
    <3> QED
      BY <3>2, <3>4 DEF last
  <2> HIDE DEF last
  <2>4. run' \in [Runs -> RunType]
    BY <2>1, <2>2, <2>3
  <2>5. ASSUME NEW q \in Runs, run'[q].pc \notin {"none", "over"} PROVE run'[q].task \in Tasks
    <3>1. CASE q # r
      BY <2>1, <2>2, <2>5, <3>1 DEF IInv, AboutTasks
    <3>2. CASE q = r
      BY <1>1, <2>1, <2>3, <2>5, <3>2 DEF IInv, AboutTasks
    <3> QED
      BY <3>1, <3>2
  <2> QED
    BY <2>4, <2>5 DEF RunStep
<1> QED
  BY <1>2, <1>3, <1>4, Unchanged DEF TypedStep

\* A broken stream, with v the view if its task is active.
LEMMA FailsTyped ==
    ASSUME IInv, NEW r \in Runs, NEW kinds, NEW v \in ViewType, Fails(r, kinds, v)
    PROVE  TypedStep
<1>1. run[r].pc = "open" /\ Goto(r, "closing")
  BY DEF Fails, At
<1>2. ViewStep
  BY ShowSteps DEF Fails
<1>3. StoreStep
  BY SetStatusTyped, Parts DEF Fails, StoreStep, Final, IInv
<1> QED
  BY <1>1, <1>2, <1>3, GotoSteps, Unchanged DEF Fails, TypedStep

LEMMA EventTyped == ASSUME IInv, NEW r \in Runs, Event(r) PROVE TypedStep
<1> DEFINE a == Appended(r)
           t == run[r].task
<1>1. CASE run[r].pc # "open"
  BY <1>1 DEF Event, OnDone, OnPermission, OnText, OnQuestion, OnToolResult, OnPlan, OnAnswer, OnPlanText,
              OnChatText, OnOutcome, StreamEnds, ChatEnds, QuickEnds, FirstFails, ExecFails, ReplyFails,
              Fails, Streaming, Planning, Chatting, At
<1>2. CASE run[r].pc = "open"
  <2>1. a \in ViewType /\ t \in Tasks /\ Own(r) \in ViewType
    BY <1>2, AppendedTyped, Owned DEF IInv, AboutTasks
  <2> HIDE DEF a
  <2>2. ASSUME OnPermission(r) PROVE TypedStep
    <3>1. [a EXCEPT !.perm = TRUE] \in ViewType
      BY <2>1 DEF ViewType
    <3> QED
      BY <2>2, <3>1, ShownTyped DEF OnPermission, a
  <2>3. ASSUME OnText(r) PROVE TypedStep
    BY <2>1, <2>3, ShownTyped DEF OnText, a
  <2>4. ASSUME NEW p \in {Own(r).phase, "idle"}, OnPlanText(r, p) \/ OnChatText(r, p) PROVE TypedStep
    <3>1. [a EXCEPT !.phase = p] \in ViewType
      BY <2>1 DEF ViewType
    <3> QED
      BY <2>4, <3>1, ShownTyped DEF OnPlanText, OnChatText, a
  <2>5. ASSUME OnToolResult(r) PROVE TypedStep
    <3> DEFINE v == IF IsActive(r) THEN a ELSE Own(r)
               w == IF v.plan = NoPlan THEN v ELSE [v EXCEPT !.plan.steps = "moving"]
    <3>1. v \in ViewType
      BY <2>1
    <3>2. Show(r, w)
      BY <2>5 DEF OnToolResult, a
    <3> HIDE DEF v
    <3>3. [v EXCEPT !.plan.steps = "moving"] \in ViewType
      BY <3>1 DEF ViewType
    <3>4. w \in ViewType
      BY <3>1, <3>3
    <3> HIDE DEF w
    <3> QED
      BY <2>5, <3>2, <3>4, ShownTyped DEF OnToolResult
  <2>6. ASSUME NEW s \in {"completed", "error", "running"}, OnOutcome(r, s) PROVE TypedStep
    <3>1. StoreStep
      BY <2>6, SetStatusTyped, Parts DEF OnOutcome, OutcomeStatus, StoreStep, Final, IInv
    <3>2. ViewStep
      BY <2>1, <2>6, ShowSteps DEF OnOutcome, a
    <3> QED
      BY <2>6, <3>1, <3>2, Unchanged DEF OnOutcome, TypedStep
  <2>7. ASSUME OnPlan(r) PROVE TypedStep
    <3>1. [a EXCEPT !.plan = [of |-> t, steps |-> "pending"], !.phase = "awaiting_approval"] \in ViewType
      BY <2>1 DEF ViewType
    <3>2. ViewStep
      BY <2>7, <3>1, ShowSteps DEF OnPlan, a
    <3>3. StoreStep
      BY <2>1, <2>7, Parts DEF OnPlan, StoreStep, IInv
    <3> QED
      BY <2>7, <3>2, <3>3, Unchanged DEF OnPlan, TypedStep
  <2>8. ASSUME OnAnswer(r) PROVE TypedStep
    <3>1. [a EXCEPT !.plan = NoPlan, !.phase = "idle"] \in ViewType
      BY <2>1 DEF ViewType, NoPlan
    <3>2. ViewStep
      BY <2>8, <3>1, ShowSteps DEF OnAnswer, a
    <3>3. StoreStep
      BY <2>8, SetStatusTyped, Parts DEF OnAnswer, StoreStep, Final, IInv
    <3> QED
      BY <2>8, <3>2, <3>3, Unchanged DEF OnAnswer, TypedStep
  <2>9. ASSUME StreamEnds(r) PROVE TypedStep
    <3>1. /\ Finish(r, Own(r), bg) /\ Goto(r, EndOf(r))
          /\ UNCHANGED <<current, loads, opened, removals, planned>>
      BY <2>9 DEF StreamEnds
    <3> QED
      BY <1>2, <2>1, <3>1, FinishSteps, EndOfSteps, Unchanged, Parts DEF TypedStep, StoreStep, BgStep, IInv
  <2>10. ASSUME ChatEnds(r) \/ QuickEnds(r) PROVE TypedStep
    <3>1. Goto(r, "closing") /\ UNCHANGED <<pageVars, bgVars, planned, calm>>
      BY <2>10 DEF ChatEnds, QuickEnds, storeVars
    <3>2. StoreStep
      BY <2>10, SetStatusTyped, Parts DEF ChatEnds, QuickEnds, StoreStep, storeVars, Final, IInv
    <3> QED
      BY <1>2, <3>1, <3>2, GotoSteps, Unchanged DEF TypedStep, pageVars
  <2>11. ASSUME FirstFails(r) \/ ExecFails(r) \/ ReplyFails(r) PROVE TypedStep
    <3>1. [a EXCEPT !.phase = "idle"] \in ViewType
      BY <2>1 DEF ViewType
    <3> QED
      BY <2>1, <2>11, <3>1, FailsTyped DEF FirstFails, ExecFails, ReplyFails, a
  <2> QED
    BY <2>2, <2>3, <2>4, <2>5, <2>6, <2>7, <2>8, <2>9, <2>10, <2>11, DoneTyped, QuestionTyped DEF Event
<1> QED
  BY <1>1, <1>2

-----------------------------------------------------------------------------
(* The user and the poll.                                                  *)

LEMMA PutSteps ==
    ASSUME IInv, NEW v \in ViewType, NEW i \in 1..MaxViews, SetView(i, v), UNCHANGED current
    PROVE  ViewStep
  BY DEF ViewStep

LEMMA BeginSteps ==
    ASSUME IInv, NEW r \in Runs, NEW k \in Kinds, Here.task # NoTask, Begin(r, k)
    PROVE  RunStep
<1> DEFINE q == [task |-> Here.task, kind |-> k, view |-> current, pc |-> "claimed", aborted |-> FALSE]
<1>1. Here.task \in Tasks /\ current \in 1..MaxViews
  BY Parts DEF IInv, Here, ViewType
<1>2. q \in RunType /\ q.task \in Tasks
  BY <1>1 DEF RunType, TaskOrNone
<1>3. run' = [run EXCEPT ![r] = q]
  BY DEF Begin
<1> HIDE DEF q
<1> QED
  BY <1>2, <1>3, Parts DEF IInv, AboutTasks, RunStep

LEMMA OpenTyped == ASSUME IInv, NEW t \in Tasks, Open(t) PROVE TypedStep
<1>1. current \in 1..MaxViews /\ view[current] \in ViewType /\ bg \in BgType
  BY Parts DEF IInv
<1>2. (\E x \in ViewType : SetView(current, x)) /\ bg' \in BgType
  BY <1>1, LoadTaskTyped, Parts DEF IInv, Open, TaskOrNone
<1>3. LoadStep
  <2> DEFINE l == [view |-> current, task |-> t, pc |-> "meta", was |-> NoRun, final |-> FALSE]
  <2>1. l \in LoadType /\ l.task \in Tasks
    BY <1>1 DEF LoadType, TaskOrNone, RunOrNone
  <2>2. loads' = [loads EXCEPT ![opened + 1] = l] /\ opened' = opened + 1 /\ opened < MaxOpens
    BY DEF Open
  <2> HIDE DEF l
  <2>3. opened + 1 \in 1..MaxOpens /\ opened' \in 0..MaxOpens
    BY <2>2, Parts, ShellAgentAssumption DEF IInv
  <2> QED
    BY <2>1, <2>2, <2>3, Parts DEF IInv, AboutTasks, LoadStep
<1>4. calm' \in BOOLEAN
  BY Parts DEF Open, UserActs, IInv
<1>5. BgStep
  BY <1>2, Parts DEF Open, BgStep, IInv
<1> QED
  BY <1>1, <1>2, <1>3, <1>4, <1>5, Unchanged DEF Open, TypedStep, ViewStep

LEMMA MountedTyped ==
    ASSUME IInv,
           Reject \/ StopBegins \/ AnswerPermission
           \/ \E r \in Runs : Approve(r) \/ \E k \in {"talk", "quick"} : Reply(r, k)
    PROVE  TypedStep
<1>1. Here \in ViewType /\ current \in 1..MaxViews
  BY Parts DEF IInv, Here
<1>7. Mine \subseteq Tasks
  BY <1>1 DEF Mine, ViewType
<1>2. ASSUME NEW r \in Runs, Approve(r) PROVE TypedStep
  <2>1. [Here EXCEPT !.active = Here.task, !.running = TRUE, !.phase = "executing",
                     !.plan.steps = "pending"] \in ViewType
    BY <1>1 DEF ViewType
  <2>2. ViewStep
    BY <1>1, <1>2, <2>1, PutSteps DEF Approve, Put
  <2>3. RunStep
    BY <1>2, BeginSteps DEF Approve, Kinds
  <2>4. calm' \in BOOLEAN
    BY <1>2, Parts DEF Approve, UserAsks, IInv
  <2> QED
    BY <1>2, <2>2, <2>3, <2>4, Unchanged DEF Approve, TypedStep
<1>3. ASSUME NEW r \in Runs, NEW k \in {"talk", "quick"}, Reply(r, k) PROVE TypedStep
  <2>1. [Here EXCEPT !.shown = @ \cup Mine] \in ViewType
    BY <1>1, <1>7 DEF ViewType
  <2>2. ViewStep
    BY <1>1, <1>3, <2>1, PutSteps DEF Reply, Put
  <2>3. RunStep
    BY <1>3, BeginSteps DEF Reply, Kinds
  <2>4. calm' \in BOOLEAN
    BY <1>3, Parts DEF Reply, UserAsks, IInv
  <2> QED
    BY <1>3, <2>2, <2>3, <2>4, Unchanged DEF Reply, TypedStep
<1>4. ASSUME Reject PROVE TypedStep
  <2>1. [Here EXCEPT !.plan = NoPlan, !.phase = "idle", !.shown = @ \cup Mine] \in ViewType
    BY <1>1, <1>7 DEF ViewType, NoPlan
  <2>2. ViewStep
    BY <1>1, <1>4, <2>1, PutSteps DEF Reject, Put
  <2>3. StoreStep
    BY <1>4, SetStatusTyped, Parts DEF Reject, StoreStep, Final, IInv
  <2> QED
    BY <1>4, <2>2, <2>3, Unchanged DEF Reject, TypedStep
<1>5. ASSUME StopBegins PROVE TypedStep
  <2>1. [Here EXCEPT !.poll.task = NoTask, !.stopping = Here.task] \in ViewType
    BY <1>1 DEF ViewType
  <2>2. ViewStep
    BY <1>1, <1>5, <2>1, PutSteps DEF StopBegins, Put
  <2>3. RunStep
    <3>1. CASE Here.ctl = NoRun
      BY <1>5, <3>1, Unchanged DEF StopBegins
    <3>2. CASE Here.ctl # NoRun
      <4> DEFINE c == Here.ctl
                 q == [run[c] EXCEPT !.aborted = TRUE]
      <4>1. c \in Runs
        BY <1>1, <3>2 DEF ViewType
      <4>2. run' = [run EXCEPT ![c].aborted = TRUE]
        BY <1>5, <3>2 DEF StopBegins
      <4> HIDE DEF c
      <4>3. run' = [run EXCEPT ![c] = q]
        BY <4>1, <4>2, Parts DEF IInv, RunType
      <4>4. q \in RunType /\ q.pc = run[c].pc /\ q.task = run[c].task
        BY <4>1, Parts DEF IInv, RunType
      <4> HIDE DEF q
      <4> QED
        BY <4>1, <4>3, <4>4, Parts DEF IInv, AboutTasks, RunStep
    <3> QED
      BY <3>1, <3>2
  <2>4. calm' \in BOOLEAN
    BY <1>5, Parts DEF StopBegins, UserActs, IInv
  <2> QED
    BY <1>5, <2>2, <2>3, <2>4, Unchanged DEF StopBegins, TypedStep
<1>6. ASSUME AnswerPermission PROVE TypedStep
  <2>1. [Here EXCEPT !.perm = FALSE, !.shown = @ \cup Mine] \in ViewType
    BY <1>1, <1>7 DEF ViewType
  <2> QED
    BY <1>1, <1>6, <2>1, PutSteps, Unchanged DEF AnswerPermission, Put, TypedStep
<1> QED
  BY <1>2, <1>3, <1>4, <1>5, <1>6

LEMMA StopEndsTyped == ASSUME IInv, NEW i \in 1..MaxViews, StopEnds(i) PROVE TypedStep
<1> DEFINE v == view[i]
<1>1. v \in ViewType
  BY Parts DEF IInv
<1>2. [v EXCEPT !.stopping = NoTask, !.running = FALSE] \in ViewType
  <2> HIDE DEF v
  <2> QED
    BY <1>1 DEF ViewType
<1>3. ViewStep
  BY <1>2, PutSteps DEF StopEnds
<1>4. StoreStep
  BY SetStatusTyped, Parts DEF StopEnds, StoreStep, Final, IInv
<1>5. calm' \in BOOLEAN
  BY Parts DEF StopEnds, CalledIdle, IInv
<1> QED
  BY <1>3, <1>4, <1>5, Unchanged DEF StopEnds, TypedStep

\* A poll changes its view and calm.
LEMMA PollSteps ==
    ASSUME IInv, NEW i \in 1..MaxViews, NEW v \in ViewType, SetView(i, v), CalledIdle(i) \/ UNCHANGED calm,
           UNCHANGED <<current, loads, opened, run, bgVars, storeVars>>
    PROVE  TypedStep
<1>1. calm' \in BOOLEAN
  BY Parts DEF CalledIdle, IInv
<1> QED
  BY <1>1, PutSteps, Unchanged DEF TypedStep

LEMMA QuietTyped == ASSUME NEW v \in ViewType PROVE Quiet(v) \in ViewType
  BY DEF Quiet, ViewType

LEMMA PollTyped ==
    ASSUME IInv, NEW i \in 1..MaxViews, PollTick(i) \/ PollSees(i) \/ PollGivesUp(i) PROVE TypedStep
<1>1. view[i] \in ViewType
  BY Parts DEF IInv
<1>2. ASSUME PollTick(i) PROVE TypedStep
  <2> DEFINE v == view[i]
             still == v.active = v.poll.task
             q == IF still THEN Quiet(v) ELSE v
             ends == [q EXCEPT !.poll.task = NoTask]
             reads == [v EXCEPT !.poll.tick = v.poll.task, !.poll.still = still]
  <2>1. \/ SetView(i, ends) /\ (CalledIdle(i) \/ UNCHANGED calm)
        \/ SetView(i, reads) /\ UNCHANGED calm
    BY <1>2 DEF PollTick
  <2>2. q \in ViewType /\ still \in BOOLEAN
    BY <1>1, QuietTyped
  <2> HIDE DEF v
  <2>3. v \in ViewType
    BY <1>1 DEF v
  <2> HIDE DEF still, q
  <2>4. reads \in ViewType
    BY <2>2, <2>3 DEF ViewType
  <2>5. ends \in ViewType
    BY <2>2 DEF ViewType
  <2> HIDE DEF reads, ends
  <2> QED
    BY <1>2, <2>1, <2>4, <2>5, PollSteps DEF PollTick
<1>3. ASSUME PollSees(i) PROVE TypedStep
  <2> DEFINE v == [view[i] EXCEPT !.poll.tick = NoTask]
             t == view[i].poll.tick
             q == IF v.poll.still THEN Quiet(v) ELSE v
             ends == [q EXCEPT !.poll.task = NoTask]
             shows == IF v.poll.still THEN [v EXCEPT !.shown = {t}] ELSE v
  <2>1. \/ SetView(i, ends) /\ (CalledIdle(i) \/ UNCHANGED calm)
        \/ SetView(i, shows) /\ UNCHANGED calm
    BY <1>3 DEF PollSees
  <2>2. t \in Tasks
    BY <1>1, <1>3 DEF PollSees, ViewType
  <2>3. v \in ViewType
    BY <1>1 DEF ViewType
  <2> HIDE DEF v, t
  <2>4. q \in ViewType
    BY <2>3, QuietTyped
  <2> HIDE DEF q
  <2>5. ends \in ViewType
    BY <2>4 DEF ViewType
  <2>6. [v EXCEPT !.shown = {t}] \in ViewType
    BY <2>2, <2>3 DEF ViewType
  <2>7. shows \in ViewType
    BY <2>3, <2>6
  <2> HIDE DEF shows, ends
  <2> QED
    BY <1>3, <2>1, <2>5, <2>7, PollSteps DEF PollSees
<1>4. ASSUME PollGivesUp(i) PROVE TypedStep
  <2> DEFINE t == view[i].poll.tick
             q == Quiet(view[i])
             ends == [q EXCEPT !.poll = NoPoll, !.shown = {t}]
  <2>1. SetView(i, ends) /\ CalledIdle(i)
    BY <1>4 DEF PollGivesUp
  <2>2. t \in Tasks /\ q \in ViewType
    BY <1>1, <1>4, QuietTyped DEF PollGivesUp, ViewType
  <2> HIDE DEF t, q
  <2>3. ends \in ViewType
    BY <2>2 DEF ViewType, NoPoll
  <2> HIDE DEF ends
  <2> QED
    BY <1>4, <2>1, <2>3, PollSteps DEF PollGivesUp
<1> QED
  BY <1>2, <1>3, <1>4

-----------------------------------------------------------------------------
(* The invariant.                                                          *)

LEMMA LeaveKeeps == ASSUME IInv, Leave PROVE IInv'
<1> DEFINE v == view[current]
           w == Refs(v)
           left == [w EXCEPT !.poll.task = NoTask]
<1>1. v \in ViewType /\ current \in 1..MaxViews
  BY Parts DEF IInv
<1>2. current' \in 1..MaxViews /\ current' = current + 1
  BY <1>1, ShellAgentAssumption DEF Leave
<1>3. view' = [view EXCEPT ![current] = left]
  BY DEF Leave
<1>4. left = Refs(left)
  <2>1. w \in ViewType /\ w = Refs(w)
    BY <1>1, RefsTyped, RefsTwice
  <2> HIDE DEF w
  <2> DEFINE p == [w.poll EXCEPT !.task = NoTask]
  <2>2. left = [w EXCEPT !.poll = p]
    BY <2>1 DEF ViewType
  <2> HIDE DEF p
  <2>3. [w EXCEPT !.poll = p] = Refs([w EXCEPT !.poll = p])
    BY <2>1 DEF Refs, Blank, ViewType
  <2> QED
    BY <2>2, <2>3
<1> HIDE DEF v
<1>5. w \in ViewType
  BY <1>1, RefsTyped
<1> HIDE DEF w
<1>6. left \in ViewType
  BY <1>5 DEF ViewType
<1> HIDE DEF left
<1>7. view' \in [1..MaxViews -> ViewType]
  BY <1>3, <1>6, Parts DEF IInv
<1>8. OnlyRefsLeft'
  <2> SUFFICES ASSUME NEW j \in 1..MaxViews, j # current' PROVE view'[j] = Refs(view'[j])
    BY DEF OnlyRefsLeft, Refs
  <2>1. CASE j = current
    BY <1>1, <1>3, <1>4, <2>1, Parts DEF IInv
  <2>2. CASE j # current
    <3>1. view'[j] = view[j]
      BY <1>3, <2>2, Parts DEF IInv
    <3> QED
      BY <2>2, <3>1 DEF OnlyRefsLeft, IInv
  <2> QED
    BY <2>1, <2>2
<1>9. BgStep
  <2>1. Parked(bg, view[current]) \in BgType
    BY <1>1, Parts DEF Parked, BgType, ViewType, RunOrNone, IInv, v
  <2> QED
    BY <2>1, Parts DEF Leave, BgStep, IInv
<1>10. calm' \in BOOLEAN
  BY Parts DEF Leave, UserActs, IInv
<1>11. AboutTasks'
  BY DEF Leave, AboutTasks, IInv
<1>12. TypeOK'
  <2>1. LoadStep /\ RunStep /\ StoreStep
    BY Unchanged DEF Leave
  <2> QED
    BY <1>2, <1>7, <1>9, <1>10, <2>1 DEF LoadStep, RunStep, BgStep, StoreStep, TypeOK, LoadType, RunType, BgType,
                                  StatusType, TaskOrNone, RunOrNone
<1> QED
  BY <1>8, <1>11, <1>12 DEF IInv

LEMMA Invariance == Spec => []IInv
<1>1. ASSUME Init PROVE IInv
  <2>1. TypeOK
    <3>1. NoLoad \in LoadType /\ NoRequest \in RunType /\ NoEntry \in [run : RunOrNone, running : BOOLEAN]
      BY ShellAgentAssumption DEF NoLoad, NoRequest, NoEntry, LoadType, RunType, TaskOrNone, RunOrNone, Kinds
    <3>2. status \in StatusType
      BY <1>1 DEF Init, StatusType, Final
    <3> HIDE DEF NoLoad, NoRequest, NoEntry
    <3> QED
      BY <1>1, <3>1, <3>2, BlankTyped, Parts, ShellAgentAssumption DEF Init, BgType
  <2>2. AboutTasks
    BY <1>1 DEF Init, AboutTasks, NoLoad, NoRequest
  <2>3. OnlyRefsLeft
    <3>1. Blank = Refs(Blank)
      BY DEF Refs, Blank
    <3> QED
      BY <1>1, <3>1 DEF Init, OnlyRefsLeft
  <2> QED
    BY <2>1, <2>2, <2>3 DEF IInv
<1>2. ASSUME IInv, [Next]_vars PROVE IInv'
  <2>1. CASE Leave
    BY <1>2, <2>1, LeaveKeeps
  <2>2. CASE ~Leave /\ Next
    BY <1>2, <2>2, StepKeeps, OpenTyped, MountedTyped, LoadTyped, EventTyped, ProceedTyped, RemoveLaterTyped,
       StopEndsTyped, PollTyped DEF Next, User
  <2>3. CASE UNCHANGED vars
    <3>1. TypedStep
      BY <1>2, <2>3, Unchanged DEF TypedStep, vars, pageVars, bgVars, storeVars
    <3> QED
      BY <1>2, <3>1, StepKeeps
  <2> QED
    BY <1>2, <2>1, <2>2, <2>3
<1> QED
  BY <1>1, <1>2, PTL DEF Spec

\* The views, the registry and the table of tasks keep their types, and a task
\* is known for whatever is under way (the refs and state of useAgent.ts).
THEOREM Typing == Spec => []TypeOK
<1>1. IInv => TypeOK
  BY DEF IInv
<1> QED
  BY <1>1, Invariance, PTL

-----------------------------------------------------------------------------
(* Streams of tasks that are not on screen.                                *)

Masked(v) == [v EXCEPT !.plan.steps = "none"]

\* An update that leaves a view as it is leaves every view as it is, and one
\* that moves its plan at most moves the plan of the mounted view.
LEMMA SameView ==
    ASSUME IInv, NEW i \in 1..MaxViews, NEW v, NEW s,
           v = view[i] \/ v = [view[i] EXCEPT !.plan.steps = s], SetView(i, v)
    PROVE  \A j \in 1..MaxViews : Masked(view[j]) = Masked(view'[j])
<1> SUFFICES ASSUME NEW j \in 1..MaxViews PROVE Masked(view[j]) = Masked(view'[j])
  OBVIOUS
<1>1. CASE j # i
  BY <1>1 DEF SetView, IInv, TypeOK
<1>2. CASE j = i /\ i = current
  <2>1. view'[j] = v /\ view[j] \in ViewType
    BY <1>2, Parts DEF SetView, IInv
  <2> QED
    BY <1>2, <2>1 DEF Masked, ViewType
<1>3. CASE j = i /\ i # current
  <2> DEFINE u == view[i]
             w == [v EXCEPT !.task = u.task, !.running = u.running \/ @]
  <2>1. view'[j] = Refs(w) /\ u = Refs(u) /\ u \in ViewType /\ (v = u \/ v = [u EXCEPT !.plan.steps = s])
    BY <1>3, Parts DEF SetView, Kept, IInv, OnlyRefsLeft
  <2> HIDE DEF u
  <2>2. /\ w.task = u.task /\ w.active = u.active /\ w.running = u.running /\ w.ctl = u.ctl
        /\ w.poll = u.poll /\ w.stopping = u.stopping
    BY <2>1 DEF ViewType
  <2> HIDE DEF w
  <2>3. Refs(w) = Refs(u)
    BY <2>2 DEF Refs
  <2> QED
    BY <1>3, <2>1, <2>3 DEF u
<1> QED
  BY <1>1, <1>2, <1>3

\* While a run of another task goes on, its events change no view but for the
\* progress of a plan, and no other run (the guards on isActive in
\* processStream and in the planning loop of useAgent.ts).
THEOREM StreamsKeep == Spec => StreamsKeepToTheirTask
<1> DEFINE Kept1(r) == /\ \A i \in 1..MaxViews : Masked(view[i]) = Masked(view'[i])
                       /\ \A q \in Runs \ {r} : run'[q] = run[q]
<1>1. ASSUME IInv, NEW r \in Runs, run[r].pc = "open", ~IsActive(r),
             run[r].kind \in FirstKinds => run'[r].pc # "over", Event(r)
      PROVE  Kept1(r)
  <2>1. ASSUME NEW where, Goto(r, where) PROVE \A q \in Runs \ {r} : run'[q] = run[q]
    BY <1>1, <2>1 DEF Goto, IInv, TypeOK
  <2>2. ASSUME Goto(r, EndOf(r)), Finish(r, Own(r), bg) \/ Finish(r, Own(r), EntryDone(run[r].task))
        PROVE  Kept1(r)
    <3>1. run'[r].pc = "over"
      <4>1. run'[r] = Over(r)
        BY <1>1, <2>2 DEF Goto, EndOf, Executed, IInv, TypeOK
      <4> QED
        BY <4>1 DEF Over, NoRequest
    <3>2. Show(r, Own(r))
      BY <1>1, <2>2, <3>1 DEF Finish, Ended, Executed, Released
    <3> QED
      BY <1>1, <2>1, <2>2, <3>2, Owned, SameView DEF Show, Own
  <2>3. CASE UNCHANGED view /\ (UNCHANGED run \/ Goto(r, "closing"))
    BY <2>1, <2>3
  <2>4. CASE OnToolResult(r)
    <3>1. Show(r, Own(r)) \/ Show(r, [Own(r) EXCEPT !.plan.steps = "moving"])
      BY <1>1, <2>4 DEF OnToolResult
    <3> QED
      BY <1>1, <2>4, <3>1, Owned, SameView DEF Show, Own, OnToolResult
  <2>5. CASE OnDone(r) \/ StreamEnds(r)
    BY <1>1, <2>2, <2>5 DEF OnDone, StreamEnds
  <2>6. CASE ChatEnds(r) \/ QuickEnds(r)
    BY <2>3, <2>6 DEF ChatEnds, QuickEnds, pageVars
  <2>7. CASE FirstFails(r) \/ ExecFails(r) \/ ReplyFails(r)
    BY <1>1, <2>3, <2>7 DEF FirstFails, ExecFails, ReplyFails, Fails, ShowIfActive
  <2>8. CASE OnPermission(r) \/ OnText(r) \/ OnPlan(r) \/ OnAnswer(r)
             \/ (\E p \in {Own(r).phase, "idle"} : OnPlanText(r, p) \/ OnChatText(r, p))
             \/ (\E s \in {"completed", "error", "running"} : OnOutcome(r, s))
    BY <1>1, <2>3, <2>8 DEF OnPermission, OnText, OnPlan, OnAnswer, OnPlanText, OnChatText, OnOutcome, ShowIfActive
  <2> QED
    BY <1>1, <2>4, <2>5, <2>6, <2>7, <2>8 DEF Event, OnQuestion
<1>2. IInv => [\A r \in Runs :
                 /\ run[r].pc = "open" /\ ~IsActive(r)
                 /\ run[r].kind \in FirstKinds => run'[r].pc # "over"
                 /\ Event(r)
                 => /\ \A i \in 1..MaxViews : [view[i] EXCEPT !.plan.steps = "none"]
                                               = [view'[i] EXCEPT !.plan.steps = "none"]
                    /\ \A q \in Runs \ {r} : run'[q] = run[q]]_vars
  BY <1>1 DEF Masked
<1> QED
  BY <1>2, Invariance, PTL DEF StreamsKeepToTheirTask

-----------------------------------------------------------------------------
(* Runs stay in reach.  Runs, loads and held controllers first, whatever   *)
(* the user does; then what holds as long as calm does.                    *)

\* The stages of a run: under way and not aborted, on its way to a controller,
\* past that point.
Going(r)   == run[r].pc = "open" /\ ~run[r].aborted
Waiting(r) == run[r].pc \in {"early", "claimed"}
Armed(r)   == run[r].pc \notin {"none", "early", "claimed"}

\* What the mounted view has to do with, and every run that goes on.
Engaged(r) == Waiting(r) \/ Going(r) \/ (run[r].view = current /\ run[r].pc \in {"open", "closing"})

\* The mounted view holds the controller of a run that goes on.
Controls == \E r \in Runs : Here.ctl = r /\ Going(r)

LoadsOn(n) == loads[n].pc \notin {"none", "over"}

\* Nothing belongs to an instance of the hook that is not yet mounted, and a
\* controller that is held somewhere is that of a request.
NotYetMounted == \A i \in 1..MaxViews : i > current => view[i] = Blank
StartedBefore == \A r \in Runs : run[r].pc # "none" => run[r].view <= current
LoadsBefore   == \A n \in 1..MaxOpens : loads[n].view <= current /\ (n > opened => loads[n].pc = "none")
HeldAreArmed  == \A r \in Runs :
                   \/ \E i \in 1..MaxViews : view[i].ctl = r
                   \/ \E t \in Tasks : bg[t].run = r
                   \/ \E n \in 1..MaxOpens : loads[n].was = r
                   => Armed(r)

Ordered == NotYetMounted /\ StartedBefore /\ LoadsBefore /\ HeldAreArmed

\* What holds while calm does.  A run that goes on is on the controller or in
\* the registry, under its own task.
InReach == \A r \in Runs : Going(r) => Here.ctl = r \/ bg[run[r].task] = [run |-> r, running |-> TRUE]

\* One load at most is under way, the last one, and no request waits meanwhile.
OneLoad == \A n \in 1..MaxOpens : LoadsOn(n) =>
             n = opened /\ loads[n].view = current /\ \A r \in Runs : ~Waiting(r)

\* A request that waits for its controller is about the active task, and the
\* controller is free for it.
WaitingIsActive == \A r \in Runs : Waiting(r) =>
             /\ run[r].view = current /\ run[r].task = Here.active /\ ~Controls
             /\ run[r].kind \notin {"talk", "quick"} => Here.running
             /\ run[r].kind \notin FirstKinds => run[r].pc = "claimed" /\ status[run[r].task] # "none"

\* Two runs that count are of two tasks.
TasksApart == \A r, q \in Runs : r # q /\ Engaged(r) /\ Engaged(q) => run[r].task # run[q].task

\* A run on the controller is shown, as running; not before its task is looked up.
ControlIsShown == \A r \in Runs : Here.ctl = r /\ Going(r) => Here.active = run[r].task /\ Here.running
LooksUpFirst == \A n \in 1..MaxOpens : loads[n].pc \in {"meta", "status"} => ~Controls

\* The active task is the one of the route; it is on screen when nothing loads.
ActiveIsRoute == Here.active = Route
ActiveOnScreen == (\A n \in 1..MaxOpens : ~LoadsOn(n)) /\ (\A r \in Runs : run[r].pc # "early")
                  => Here.task = Here.active

\* A delayed removal finds no run of its task that only the registry holds.
RemovalsAreLate == \A t \in Tasks : removals[t] > 0 =>
                      \A r \in Runs : Going(r) /\ run[r].task = t => Here.ctl = r

\* A run of the active task is on the controller once its load has looked.
ActiveIsControlled == (\A n \in 1..MaxOpens : loads[n].pc \notin {"meta", "status"}) =>
                         \A r \in Runs : Going(r) /\ run[r].task = Here.active => Here.ctl = r
FoundIfGoing == \A n \in 1..MaxOpens : loads[n].pc = "status" =>
                   \A r \in Runs : Going(r) /\ run[r].task = loads[n].task => loads[n].was = r

\* A task with a run has a row, and so has the active task unless it is new.
EngagedHaveRows == \A r \in Runs : Engaged(r) /\ ~Waiting(r) => status[run[r].task] # "none"
ActiveHasRow == /\ Here.active # NoTask /\ \A n \in 1..MaxOpens : loads[n].pc # "meta"
                /\ \A r \in Runs : Waiting(r) => run[r].kind \notin FirstKinds
                => status[Here.active] # "none"

\* The registry keeps a run under its task, and a load finds it there.
KeptUnderTask == \A t \in Tasks, r \in Runs :
                    bg[t].run = r /\ bg[t].running /\ Going(r) => run[r].task = t
FoundIsOfTask == \A n \in 1..MaxOpens, r \in Runs :
                    loads[n].pc = "status" /\ loads[n].was = r /\ Going(r) => run[r].task = loads[n].task

AtHand == /\ InReach /\ OneLoad /\ WaitingIsActive /\ TasksApart /\ ControlIsShown /\ LooksUpFirst
          /\ ActiveIsRoute /\ ActiveOnScreen /\ RemovalsAreLate /\ ActiveIsControlled /\ FoundIfGoing
          /\ EngagedHaveRows /\ ActiveHasRow /\ KeptUnderTask /\ FoundIsOfTask

RInv == IInv /\ Ordered /\ (calm => AtHand)

-----------------------------------------------------------------------------
(* Steps by which things only come to an end.                              *)

RunsEbb == \A q \in Runs :
    \/ run'[q] = run[q]
    \/ /\ Armed(q) /\ Armed(q)' /\ ~Going(q)' /\ run'[q].view \in {1, run[q].view}
       /\ run'[q].pc \in {"open", "closing"} => /\ run[q].pc \in {"open", "closing"}
                                                /\ run'[q].task = run[q].task /\ run'[q].view = run[q].view

ViewsEbb == \A i \in 1..MaxViews : /\ view'[i].ctl \in {view[i].ctl, NoRun}
                                   /\ i > current => view'[i] = view[i]

\* The registry gets nothing that was not held.
RegistryHolds == \A t \in Tasks : \/ bg'[t].run \in {bg[t].run, NoRun}
                                  \/ \E i \in 1..MaxViews : bg'[t].run = view[i].ctl

\* The mounted view lets go of no run that goes on.
HereEbbs == /\ Here'.task = Here.task /\ Here'.active = Here.active
            /\ \/ Here'.ctl = Here.ctl /\ Here'.running = Here.running
               \/ /\ Here'.ctl \in {Here.ctl, NoRun} /\ ~Here'.running
                  /\ \A q \in Runs : ~Waiting(q) /\ ~(Here.ctl = q /\ Going(q)')

\* An entry is dropped when no run of its task goes on that only it holds.
RegistryEbbs == /\ \A t \in Tasks : \/ bg'[t] = bg[t]
                                    \/ /\ bg'[t].running = FALSE
                                       /\ \A q \in Runs : Going(q)' /\ run[q].task = t => Here.ctl = q
                /\ \A t \in Tasks : removals'[t] > 0 => \/ removals[t] > 0
                                                        \/ \A q \in Runs : Going(q)' => run[q].task # t

RowsStay == \A t \in Tasks : status[t] # "none" => status'[t] # "none"

Ebbs == /\ UNCHANGED <<current, opened, loads>> /\ RunsEbb /\ ViewsEbb /\ RegistryHolds
        /\ calm' => calm /\ (AtHand => HereEbbs /\ RegistryEbbs) /\ RowsStay

LEMMA EbbsOrdered == ASSUME IInv, Ordered, Ebbs PROVE Ordered'
<1>1. NotYetMounted'
  BY DEF Ebbs, Ordered, NotYetMounted, ViewsEbb
<1>2. StartedBefore'
  BY Parts DEF IInv, Ebbs, Ordered, StartedBefore, RunsEbb, Armed
<1>3. LoadsBefore'
  BY DEF Ebbs, Ordered, LoadsBefore
<1>4. \A q \in Runs : Armed(q) => Armed(q)'
  BY DEF Ebbs, RunsEbb, Armed
<1>5. HeldAreArmed'
  BY <1>4 DEF Ebbs, ViewsEbb, RegistryHolds, Ordered, HeldAreArmed, Runs, NoRun
<1> QED
  BY <1>1, <1>2, <1>3, <1>5 DEF Ordered

LEMMA EbbsAtHand == ASSUME IInv, Ordered, AtHand, Ebbs, calm' PROVE AtHand'
<1>1. /\ UNCHANGED <<current, opened, loads>> /\ HereEbbs /\ RegistryEbbs /\ RowsStay
  BY DEF Ebbs
<1>2. /\ \A q \in Runs : Waiting(q)' => run'[q] = run[q] /\ Waiting(q)
      /\ \A q \in Runs : Waiting(q) => run'[q] = run[q] /\ Waiting(q)'
      /\ \A q \in Runs : Going(q)' => run'[q] = run[q] /\ Going(q)
      /\ \A q \in Runs : Engaged(q)' => Engaged(q) /\ run'[q].task = run[q].task
      /\ \A q \in Runs : run'[q].pc # "early" => run[q].pc # "early"
      /\ \A q \in Runs : Armed(q) => Armed(q)'
  BY DEF Ebbs, RunsEbb, Armed, Waiting, Going, Engaged
<1>3. ASSUME NEW q \in Runs, Going(q)' PROVE Here'.ctl = q <=> Here.ctl = q
  BY <1>1, <1>3 DEF HereEbbs, Runs, NoRun
<1>5. ASSUME NEW q \in Runs, Here'.ctl = q, Going(q)'
      PROVE  Here.ctl = q /\ Going(q) /\ run'[q] = run[q] /\ Here'.running = Here.running
  BY <1>1, <1>2, <1>3, <1>5 DEF HereEbbs
<1>6. ASSUME NEW q \in Runs, Engaged(q) PROVE run[q].task \in Tasks
  BY <1>6 DEF IInv, AboutTasks, Engaged, Waiting, Going
<1>7. InReach'
  <2> SUFFICES ASSUME NEW q \in Runs, Going(q)'
               PROVE  Here'.ctl = q \/ bg'[run'[q].task] = [run |-> q, running |-> TRUE]
    BY DEF InReach, Going
  <2>1. Going(q) /\ run'[q] = run[q] /\ run[q].task \in Tasks
    BY <1>2, <1>6 DEF Engaged
  <2>2. CASE Here.ctl = q
    BY <1>3, <2>2
  <2>3. CASE Here.ctl # q
    <3>1. bg[run[q].task] = [run |-> q, running |-> TRUE]
      BY <2>1, <2>3 DEF AtHand, InReach
    <3>2. bg'[run[q].task] = bg[run[q].task]
      BY <1>1, <2>1, <2>3, <3>1 DEF RegistryEbbs
    <3> QED
      BY <2>1, <3>1, <3>2
  <2> QED
    BY <2>2, <2>3
<1>8. OneLoad'
  BY <1>1, <1>2 DEF AtHand, OneLoad, LoadsOn, Waiting
<1>9. WaitingIsActive'
  <2> SUFFICES ASSUME NEW q \in Runs, Waiting(q)'
               PROVE  /\ run'[q].view = current' /\ run'[q].task = Here'.active /\ ~Controls'
                      /\ run'[q].kind \notin {"talk", "quick"} => Here'.running
                      /\ run'[q].kind \notin FirstKinds => run'[q].pc = "claimed" /\ status'[run'[q].task] # "none"
    BY DEF WaitingIsActive, Waiting
  <2>1. Waiting(q) /\ run'[q] = run[q] /\ run[q].task \in Tasks
    BY <1>2, <1>6 DEF Engaged
  <2>2. Here'.running = Here.running /\ Here'.active = Here.active
    BY <1>1, <2>1 DEF HereEbbs
  <2> QED
    BY <1>1, <1>5, <2>1, <2>2 DEF AtHand, WaitingIsActive, RowsStay, Controls
<1>10. TasksApart'
  BY <1>2 DEF AtHand, TasksApart
<1>11. ControlIsShown' /\ LooksUpFirst'
  BY <1>1, <1>5 DEF AtHand, ControlIsShown, LooksUpFirst, HereEbbs, Controls
<1>12. ActiveIsRoute' /\ ActiveOnScreen'
  BY <1>1, <1>2 DEF AtHand, ActiveIsRoute, Route, ActiveOnScreen, LoadsOn, HereEbbs
<1>13. RemovalsAreLate'
  BY <1>1, <1>2, <1>3 DEF AtHand, RemovalsAreLate, RegistryEbbs
<1>14. ActiveIsControlled' /\ FoundIfGoing'
  BY <1>1, <1>2, <1>3 DEF AtHand, ActiveIsControlled, FoundIfGoing, HereEbbs
<1>15. EngagedHaveRows'
  <2> SUFFICES ASSUME NEW q \in Runs, Engaged(q)', ~Waiting(q)' PROVE status'[run'[q].task] # "none"
    BY DEF EngagedHaveRows
  <2>1. Engaged(q) /\ ~Waiting(q) /\ run'[q].task = run[q].task
    BY <1>2
  <2> QED
    BY <1>1, <1>6, <2>1 DEF AtHand, EngagedHaveRows, RowsStay
<1>16. ActiveHasRow'
  <2>1. Here.active \in TaskOrNone
    BY Parts DEF IInv, ViewType, Here, TaskOrNone
  <2> QED
    BY <1>1, <1>2, <2>1 DEF AtHand, ActiveHasRow, HereEbbs, RowsStay, TaskOrNone
<1>17. KeptUnderTask'
  <2> SUFFICES ASSUME NEW t \in Tasks, NEW q \in Runs, bg'[t].run = q, bg'[t].running, Going(q)'
               PROVE  run'[q].task = t
    BY DEF KeptUnderTask
  <2>1. bg'[t] = bg[t]
    BY <1>1 DEF RegistryEbbs
  <2> QED
    BY <1>2, <2>1 DEF AtHand, KeptUnderTask
<1>18. FoundIsOfTask'
  BY <1>1, <1>2 DEF AtHand, FoundIsOfTask
<1> QED
  BY <1>7, <1>8, <1>9, <1>10, <1>11, <1>12, <1>13, <1>14, <1>15, <1>16, <1>17, <1>18 DEF AtHand

LEMMA EbbsKeep == ASSUME RInv, IInv', Ebbs PROVE RInv'
<1>1. calm' => calm
  BY DEF Ebbs
<1> QED
  BY <1>1, EbbsOrdered, EbbsAtHand DEF RInv

-----------------------------------------------------------------------------
(* The steps that are such: streams and their ends, polls, stops.          *)

SameRefs(v, w) == v.task = w.task /\ v.active = w.active /\ v.running = w.running /\ v.ctl = w.ctl

\* A change of one view that keeps its refs, or lets go of its controller.
LEMMA SetViewEbbs ==
    ASSUME IInv, UNCHANGED current, NEW i \in 1..MaxViews, i <= current, NEW v \in ViewType,
           v.ctl \in {view[i].ctl, NoRun}, SetView(i, v)
    PROVE  ViewsEbb /\ Here' = (IF i = current THEN v ELSE Here)
<1>1. \A j \in 1..MaxViews \ {i} : view'[j] = view[j]
  BY Parts DEF IInv, SetView
<1>2. view'[i] = (IF i = current THEN v ELSE Kept(i, v))
  BY Parts DEF IInv, SetView
<1>3. Kept(i, v).ctl = v.ctl
  BY DEF Kept, Refs, Blank, ViewType
<1> QED
  BY <1>1, <1>2, <1>3, Parts DEF IInv, ViewsEbb, Here

LEMMA SameViewsEbb == ASSUME UNCHANGED <<view, current>> PROVE ViewsEbb /\ Here' = Here
  BY DEF ViewsEbb, Here

\* A run ends, or its stream does, or it is aborted.
LEMMA GotoEbbs ==
    ASSUME IInv, NEW r \in Runs, run[r].pc \in {"open", "closing", "reload"},
           NEW where \in {"closing", "reload", "over"}, Goto(r, where),
           where = "closing" => run[r].pc = "open"
    PROVE  RunsEbb /\ ~Going(r)' /\ \A q \in Runs \ {r} : run'[q] = run[q]
<1>1. run'[r] = (IF where = "over" THEN Over(r) ELSE [run[r] EXCEPT !.pc = where])
      /\ \A q \in Runs \ {r} : run'[q] = run[q]
  BY Parts DEF IInv, Goto
<1>2. Over(r).pc = "over" /\ Over(r).view = 1
  BY DEF Over, NoRequest
<1>3. run[r] \in RunType
  BY Parts DEF IInv
<1> QED
  BY <1>1, <1>2, <1>3 DEF RunsEbb, Armed, Going, RunType

LEMMA RowsStayIf ==
    ASSUME IInv, UNCHANGED status \/ \E t, s : s # "none" /\ SetStatus(t, s) PROVE RowsStay
  BY Parts DEF IInv, StatusType, RowsStay, SetStatus

\* Nothing ends but a stream at most: its view keeps the refs.
LEMMA StillEbbs ==
    ASSUME IInv, Ordered, UNCHANGED <<current, opened, loads, bgVars>>, RunsEbb, RowsStay, calm' => calm,
           \/ UNCHANGED view
           \/ \E i \in 1..MaxViews : \E v \in ViewType :
                 i <= current /\ SameRefs(v, view[i]) /\ SetView(i, v)
    PROVE  Ebbs
<1>1. ViewsEbb /\ HereEbbs
  <2>1. CASE UNCHANGED view
    BY <2>1, SameViewsEbb DEF HereEbbs
  <2>2. ASSUME NEW i \in 1..MaxViews, NEW v \in ViewType, i <= current, SameRefs(v, view[i]), SetView(i, v)
        PROVE  ViewsEbb /\ HereEbbs
    BY <2>2, SetViewEbbs DEF SameRefs, HereEbbs, Here
  <2> QED
    BY <2>1, <2>2
<1> QED
  BY <1>1 DEF Ebbs, RegistryHolds, RegistryEbbs, bgVars

LEMMA ShownEbbs ==
    ASSUME IInv, Ordered, UNCHANGED <<current, opened, loads, bgVars>>, RunsEbb, RowsStay, calm' => calm,
           NEW r \in Runs, run[r].pc # "none", NEW v \in ViewType, SameRefs(v, Own(r)),
           Show(r, v) \/ ShowIfActive(r, v)
    PROVE  Ebbs
<1>1. run[r].view \in 1..MaxViews /\ run[r].view <= current
  BY Owned DEF Ordered, StartedBefore
<1> QED
  BY <1>1, StillEbbs DEF Show, ShowIfActive, Own

LEMMA AppendedSame ==
    ASSUME IInv, NEW r \in Runs, run[r].pc \notin {"none", "over"}
    PROVE  Appended(r) \in ViewType /\ SameRefs(Appended(r), Own(r))
<1>1. Own(r) \in ViewType /\ Appended(r) \in ViewType
  BY Owned, AppendedTyped
<1> QED
  BY <1>1 DEF Appended, SameRefs, ViewType

\* The events that end no run.
LEMMA EventEbbs ==
    ASSUME IInv, Ordered, NEW r \in Runs,
           \/ OnPermission(r) \/ OnText(r) \/ OnToolResult(r) \/ OnPlan(r) \/ OnAnswer(r)
           \/ \E p \in {Own(r).phase, "idle"} : OnPlanText(r, p) \/ OnChatText(r, p)
           \/ \E s \in {"completed", "error", "running"} : OnOutcome(r, s)
           \/ ChatEnds(r) \/ QuickEnds(r) \/ FirstFails(r) \/ ExecFails(r) \/ ReplyFails(r)
    PROVE  Ebbs
<1> DEFINE a == Appended(r)
           t == run[r].task
<1>1. run[r].pc = "open"
  BY DEF OnPermission, OnText, OnToolResult, OnPlan, OnAnswer, OnPlanText, OnChatText, OnOutcome, ChatEnds,
         QuickEnds, FirstFails, ExecFails, ReplyFails, Fails, Streaming, Planning, Chatting, At
<1>2. /\ UNCHANGED <<current, opened, loads, bgVars, calm>>
  BY DEF OnPermission, OnText, OnToolResult, OnPlan, OnAnswer, OnPlanText, OnChatText, OnOutcome, ChatEnds,
         QuickEnds, FirstFails, ExecFails, ReplyFails, Fails, pageVars
<1>3. RunsEbb
  <2>1. UNCHANGED run \/ Goto(r, "closing")
    BY DEF OnPermission, OnText, OnToolResult, OnPlan, OnAnswer, OnPlanText, OnChatText, OnOutcome, ChatEnds,
           QuickEnds, FirstFails, ExecFails, ReplyFails, Fails
  <2> QED
    BY <1>1, <2>1, GotoEbbs DEF RunsEbb
<1>4. RowsStay
  <2>1. UNCHANGED status \/ \E s \in {"completed", "error"} : SetStatus(t, s)
    BY DEF OnPermission, OnText, OnToolResult, OnPlan, OnAnswer, OnPlanText, OnChatText, OnOutcome, ChatEnds,
           QuickEnds, FirstFails, ExecFails, ReplyFails, Fails, OutcomeStatus, storeVars
  <2> QED
    BY <2>1, RowsStayIf
<1>5. a \in ViewType /\ SameRefs(a, Own(r)) /\ Own(r) \in ViewType /\ t \in Tasks
  BY <1>1, AppendedSame, Owned DEF IInv, AboutTasks
<1>6. SUFFICES \/ UNCHANGED view
               \/ \E v \in ViewType : SameRefs(v, Own(r)) /\ (Show(r, v) \/ ShowIfActive(r, v))
  BY <1>1, <1>2, <1>3, <1>4, StillEbbs, ShownEbbs
<1> HIDE DEF a
<1>7. ASSUME OnPermission(r)
      PROVE  \E v \in ViewType : SameRefs(v, Own(r)) /\ (Show(r, v) \/ ShowIfActive(r, v))
  <2> DEFINE w == [a EXCEPT !.perm = TRUE]
  <2>1. w \in ViewType /\ SameRefs(w, Own(r))
    BY <1>5 DEF ViewType, SameRefs
  <2> QED
    BY <1>7, <2>1 DEF OnPermission, a
<1>8. ASSUME OnText(r) \/ \E s \in {"completed", "error", "running"} : OnOutcome(r, s)
      PROVE  \E v \in ViewType : SameRefs(v, Own(r)) /\ (Show(r, v) \/ ShowIfActive(r, v))
  BY <1>5, <1>8 DEF OnText, OnOutcome, a
<1>9. ASSUME NEW p \in {Own(r).phase, "idle"}, OnPlanText(r, p) \/ OnChatText(r, p)
      PROVE  \E v \in ViewType : SameRefs(v, Own(r)) /\ (Show(r, v) \/ ShowIfActive(r, v))
  <2> DEFINE w == [a EXCEPT !.phase = p]
  <2>1. w \in ViewType /\ SameRefs(w, Own(r))
    BY <1>5 DEF ViewType, SameRefs
  <2> QED
    BY <1>9, <2>1 DEF OnPlanText, OnChatText, a
<1>10. ASSUME OnToolResult(r)
       PROVE  \E v \in ViewType : SameRefs(v, Own(r)) /\ (Show(r, v) \/ ShowIfActive(r, v))
  <2>1. \/ Show(r, a) \/ Show(r, [a EXCEPT !.plan.steps = "moving"])
        \/ Show(r, Own(r)) \/ Show(r, [Own(r) EXCEPT !.plan.steps = "moving"])
    BY <1>10 DEF OnToolResult, a
  <2> DEFINE moved == [a EXCEPT !.plan.steps = "moving"]
  <2>2. moved \in ViewType /\ SameRefs(moved, Own(r))
    BY <1>5 DEF ViewType, SameRefs
  <2> DEFINE alone == [Own(r) EXCEPT !.plan.steps = "moving"]
  <2>3. alone \in ViewType /\ SameRefs(alone, Own(r))
    BY <1>5 DEF ViewType, SameRefs
  <2> QED
    BY <2>1, <1>5, <2>2, <2>3 DEF SameRefs
<1>11. ASSUME OnPlan(r)
       PROVE  \E v \in ViewType : SameRefs(v, Own(r)) /\ (Show(r, v) \/ ShowIfActive(r, v))
  <2> DEFINE w == [a EXCEPT !.plan = [of |-> t, steps |-> "pending"], !.phase = "awaiting_approval"]
  <2>1. w \in ViewType /\ SameRefs(w, Own(r))
    BY <1>5 DEF ViewType, SameRefs
  <2> QED
    BY <1>11, <2>1 DEF OnPlan, a
<1>12. ASSUME OnAnswer(r)
       PROVE  \E v \in ViewType : SameRefs(v, Own(r)) /\ (Show(r, v) \/ ShowIfActive(r, v))
  <2> DEFINE w == [a EXCEPT !.plan = NoPlan, !.phase = "idle"]
  <2>1. w \in ViewType /\ SameRefs(w, Own(r))
    BY <1>5 DEF ViewType, NoPlan, SameRefs
  <2> QED
    BY <1>12, <2>1 DEF OnAnswer, a
<1>13. ASSUME FirstFails(r) \/ ExecFails(r) \/ ReplyFails(r)
       PROVE  \E v \in ViewType : SameRefs(v, Own(r)) /\ (Show(r, v) \/ ShowIfActive(r, v))
  <2> DEFINE w == [a EXCEPT !.phase = "idle"]
  <2>1. w \in ViewType /\ SameRefs(w, Own(r))
    BY <1>5 DEF ViewType, SameRefs
  <2> QED
    BY <1>5, <1>13, <2>1 DEF FirstFails, ExecFails, ReplyFails, Fails, a
<1> QED
  BY <1>7, <1>8, <1>9, <1>10, <1>11, <1>12, <1>13 DEF ChatEnds, QuickEnds, pageVars

\* The view that a run leaves behind keeps the task; it loses the controller
\* only if the run's task is the active one.
LetsGo(r, w) == /\ w.task = Own(r).task /\ w.active = Own(r).active /\ w.ctl \in {Own(r).ctl, NoRun}
                /\ IsActive(r) => w.ctl = NoRun /\ w.running = FALSE
                /\ ~IsActive(r) => w.ctl = Own(r).ctl /\ w.running = Own(r).running

LEMMA EndedRefs ==
    ASSUME IInv, NEW r \in Runs, NEW v \in ViewType, SameRefs(v, Own(r))
    PROVE  LetsGo(r, Released(r, v)) /\ LetsGo(r, Ended(r, v))
<1> DEFINE u == Released(r, v)
<1>1. u \in ViewType
  BY EndedTyped
<1>2. LetsGo(r, u)
  <2>1. CASE IsActive(r)
    <3>1. u = [v EXCEPT !.running = FALSE, !.ctl = NoRun]
      BY <2>1 DEF Released
    <3> HIDE DEF u
    <3> QED
      BY <2>1, <3>1 DEF LetsGo, SameRefs, ViewType
  <2>2. CASE ~IsActive(r)
    BY <2>2 DEF Released, LetsGo, SameRefs
  <2> QED
    BY <2>1, <2>2
<1>3. Ended(r, v) = u \/ Ended(r, v) = [u EXCEPT !.phase = "idle", !.plan = NoPlan]
  BY DEF Ended
<1> HIDE DEF u
<1>4. LetsGo(r, Ended(r, v))
  BY <1>1, <1>2, <1>3 DEF LetsGo, ViewType
<1> QED
  BY <1>2, <1>4 DEF u

\* A run whose own task is active is alone in counting for it.
LEMMA AloneInTask ==
    ASSUME IInv, AtHand, RunsEbb, NEW r \in Runs, Engaged(r), ~Waiting(r), ~Going(r)', NEW q \in Runs
    PROVE  /\ run[r].task = Here.active => ~Waiting(q) /\ ~(Here.ctl = q /\ Going(q)')
           /\ Going(q)' => run[q].task # run[r].task
<1>1. Going(q)' => Going(q) /\ q # r
  BY DEF RunsEbb, Going
<1>2. Going(q)' => run[q].task # run[r].task
  BY <1>1 DEF AtHand, TasksApart, Engaged
<1>3. run[r].task = Here.active => ~Waiting(q)
  BY DEF AtHand, TasksApart, WaitingIsActive, Engaged
<1> QED
  BY <1>1, <1>2, <1>3 DEF AtHand, ControlIsShown

LEMMA FinishEbbs ==
    ASSUME IInv, Ordered, NEW r \in Runs, run[r].pc \in {"open", "closing"},
           NEW v \in ViewType, SameRefs(v, Own(r)), NEW b \in BgType, Finish(r, v, b),
           UNCHANGED <<current, opened, loads>>, RunsEbb, ~Going(r)',
           \/ b = bg /\ UNCHANGED removals
           \/ /\ Going(r) /\ b = EntryDone(run[r].task)
              /\ \A t \in Tasks \ {run[r].task} : removals'[t] = removals[t]
    PROVE  Ebbs
<1> DEFINE i == run[r].view
           t == run[r].task
           u == Released(r, v)
<1>1. i \in 1..MaxViews /\ i <= current /\ t \in Tasks /\ Own(r) = view[i]
  BY Owned DEF Ordered, StartedBefore, IInv, AboutTasks, Own
<1>2. u \in ViewType /\ Ended(r, v) \in ViewType
  BY EndedTyped
<1> HIDE DEF u
\* What becomes of the view and of the registry.
<1>3. ASSUME NEW w \in ViewType, SetView(i, w), w.ctl \in {view[i].ctl, NoRun},
             bg' = b \/ bg' = Parked(b, u),
             calm' => /\ calm /\ bg' = b
                      /\ i = current => /\ w.task = Here.task /\ w.active = Here.active
                                        /\ IF IsActive(r) THEN w.ctl = NoRun /\ w.running = FALSE
                                           ELSE w.ctl = Here.ctl /\ w.running = Here.running,
             RowsStay
      PROVE  Ebbs
  <2>1. ViewsEbb /\ Here' = (IF i = current THEN w ELSE Here)
    BY <1>1, <1>3, SetViewEbbs
  <2>2. RegistryHolds
    <3>1. ASSUME NEW s \in Tasks PROVE b[s].run = bg[s].run
      <4>1. bg \in BgType
        BY Parts DEF IInv
      <4>2. EntryDone(t)[s].run = bg[s].run
        BY <1>1, <4>1 DEF EntryDone, BgType
      <4> QED
        BY <4>2
    <3>2. u.ctl \in {view[i].ctl, NoRun}
      BY <1>1, EndedRefs DEF u, LetsGo
    <3>3. ASSUME NEW s \in Tasks, bg' = Parked(b, u) PROVE bg'[s].run \in {bg[s].run, view[i].ctl, NoRun}
      BY <3>1, <3>2, <3>3 DEF Parked, BgType
    <3> QED
      BY <1>1, <1>3, <3>1, <3>3 DEF RegistryHolds
  <2>3. ASSUME calm', AtHand PROVE HereEbbs
    <3>1. CASE i = current /\ IsActive(r)
      <4>1. Engaged(r) /\ ~Waiting(r) /\ run[r].task = Here.active
        BY <1>1, <3>1 DEF Engaged, Waiting, IsActive, Here
      <4> QED
        BY <1>3, <2>1, <2>3, <3>1, <4>1, AloneInTask DEF HereEbbs
    <3>2. CASE i # current \/ ~IsActive(r)
      BY <1>3, <2>1, <2>3, <3>2 DEF HereEbbs
    <3> QED
      BY <3>1, <3>2
  <2>4. ASSUME calm', AtHand PROVE RegistryEbbs
    <3>1. CASE b = bg /\ UNCHANGED removals
      BY <1>3, <2>4, <3>1 DEF RegistryEbbs
    <3>2. CASE Going(r) /\ b = EntryDone(t) /\ \A s \in Tasks \ {t} : removals'[s] = removals[s]
      <4>1. \A q \in Runs : Going(q)' => run[q].task # t
        BY <2>4, <3>2, AloneInTask DEF Engaged, Waiting, Going
      <4>2. /\ bg'[t].running = FALSE
            /\ \A s \in Tasks \ {t} : bg'[s] = bg[s]
        BY <1>1, <1>3, <2>4, <3>2, Parts DEF IInv, EntryDone, BgType
      <4>3. \A q \in Runs : Going(q)' => run'[q] = run[q]
        BY DEF RunsEbb, Going
      <4> QED
        BY <3>2, <4>1, <4>2, <4>3 DEF RegistryEbbs
    <3> QED
      BY <3>1, <3>2
  <2> QED
    BY <1>3, <2>1, <2>2, <2>3, <2>4 DEF Ebbs
<1>4. CASE run[r].kind \in FirstKinds
  <2> DEFINE y == IF Parks(u, t) THEN [u EXCEPT !.ctl = NoRun, !.shown = {}, !.perm = FALSE, !.plan = NoPlan]
                  ELSE u
             w == [y EXCEPT !.poll.task = NoTask, !.active = t]
  <2>1. /\ SetView(i, w) /\ bg' = (IF Parks(u, t) THEN Parked(b, u) ELSE b) /\ UNCHANGED status
        /\ calm' = (calm /\ ~Parks(u, t) /\ (i = current => IsActive(r)))
    BY <1>4 DEF Finish, LoadsAgain, LoadTask, u
  <2>2. y \in ViewType /\ y.ctl \in {u.ctl, NoRun} /\ (~Parks(u, t) => y = u)
    <3> DEFINE x == [u EXCEPT !.ctl = NoRun, !.shown = {}, !.perm = FALSE, !.plan = NoPlan]
    <3>1. x \in ViewType /\ x.ctl = NoRun
      <4>1. u \in ViewType
        BY <1>2
      <4>2. x \in ViewType
        BY <4>1 DEF ViewType, NoPlan
      <4>3. x.ctl = NoRun
        BY <4>1 DEF ViewType
      <4> QED
        BY <4>2, <4>3
    <3>2. y = u \/ y = x
      OBVIOUS
    <3> HIDE DEF x
    <3> QED
      BY <1>2, <3>1, <3>2
  <2> HIDE DEF y
  <2>3. w \in ViewType /\ w.ctl = y.ctl /\ w.task = y.task /\ w.running = y.running /\ w.active = t
    BY <1>1, <2>2 DEF ViewType, TaskOrNone
  <2> HIDE DEF w
  <2>4. LetsGo(r, u)
    BY EndedRefs DEF u
  <2>5. RowsStay
    BY <2>1 DEF RowsStay
  <2>6. IsActive(r) => t = view[i].active
    BY <1>1 DEF IsActive
  <2> QED
    BY <1>1, <1>3, <2>1, <2>2, <2>3, <2>4, <2>5, <2>6 DEF Here, LetsGo
<1>5. CASE run[r].kind \notin FirstKinds
  <2>1. SetView(i, Ended(r, v)) /\ bg' = b /\ UNCHANGED calm
    BY <1>5 DEF Finish, Show
  <2>2. RowsStay
    BY <1>5, RowsStayIf DEF Finish, Outcome
  <2>3. LetsGo(r, Ended(r, v))
    BY EndedRefs
  <2> QED
    BY <1>1, <1>2, <1>3, <2>1, <2>2, <2>3 DEF Here, LetsGo
<1> QED
  BY <1>4, <1>5

\* "done", the end of a stream, the end of an aborted one, finally, a question.
LEMMA EndEbbs ==
    ASSUME IInv, Ordered, NEW r \in Runs,
           OnDone(r) \/ StreamEnds(r) \/ AbortSeen(r) \/ Finally(r) \/ OnQuestion(r)
    PROVE  Ebbs
<1>1. run[r].pc \in {"open", "closing"} /\ UNCHANGED <<current, opened, loads>>
  <2>1. CASE OnQuestion(r)
    BY <2>1, Zenon DEF OnQuestion, Streaming, At
  <2>2. CASE OnDone(r) \/ StreamEnds(r) \/ AbortSeen(r) \/ Finally(r)
    BY <2>2 DEF OnDone, StreamEnds, AbortSeen, Finally, Streaming, Planning, At
  <2> QED
    BY <2>1, <2>2
<1>2. Own(r) \in ViewType /\ SameRefs(Own(r), Own(r)) /\ bg \in BgType /\ run[r].task \in Tasks
  BY <1>1, Owned, Parts DEF IInv, SameRefs, AboutTasks
<1>3. EndOf(r) \in {"reload", "over"}
  BY DEF EndOf
<1>4. ASSUME Goto(r, EndOf(r)) PROVE RunsEbb /\ ~Going(r)'
  BY <1>1, <1>3, <1>4, GotoEbbs
<1>5. CASE StreamEnds(r) \/ AbortSeen(r) \/ Finally(r)
  BY <1>1, <1>2, <1>4, <1>5, FinishEbbs DEF StreamEnds, AbortSeen, Finally
<1>6. CASE OnDone(r)
  <2> DEFINE v == [Own(r) EXCEPT !.perm = FALSE]
             w == IF ~IsActive(r) THEN Own(r)
                  ELSE IF v.plan = NoPlan THEN v ELSE [v EXCEPT !.plan.steps = "done"]
  <2>1. v \in ViewType /\ SameRefs(v, Own(r))
    BY <1>2 DEF ViewType, SameRefs
  <2>2. Finish(r, w, EntryDone(run[r].task)) /\ Going(r) /\ Goto(r, EndOf(r))
    BY <1>6 DEF OnDone, Streaming, At, Going
  <2> HIDE DEF v
  <2>3. [v EXCEPT !.plan.steps = "done"] \in ViewType /\ SameRefs([v EXCEPT !.plan.steps = "done"], Own(r))
    BY <2>1 DEF ViewType, SameRefs
  <2>4. w \in ViewType /\ SameRefs(w, Own(r))
    BY <1>2, <2>1, <2>3
  <2> HIDE DEF w
  <2>5. EntryDone(run[r].task) \in BgType
    BY <1>2 DEF EntryDone, BgType
  <2>6. \A t \in Tasks \ {run[r].task} : removals'[t] = removals[t]
    BY <1>6, Parts DEF IInv, OnDone
  <2> QED
    BY <1>1, <1>4, <2>2, <2>4, <2>5, <2>6, FinishEbbs
<1>7. CASE OnQuestion(r)
  <2>1. Finish(r, Appended(r), bg) /\ UNCHANGED removals /\ run[r].pc = "open"
    BY <1>7, Zenon DEF OnQuestion, Streaming, At
  <2>2. Appended(r) \in ViewType /\ SameRefs(Appended(r), Own(r))
    BY <1>1, AppendedSame
  <2>3. ASSUME NEW q \in Runs PROVE Own(r).ctl = q => Armed(q)
    BY Owned DEF Ordered, HeldAreArmed, Own
  <2> DEFINE now(q) == [run[q] EXCEPT !.aborted = @ \/ q = Own(r).ctl]
  <2>4. ASSUME NEW q \in Runs
        PROVE  /\ now(q).pc = run[q].pc /\ now(q).task = run[q].task /\ now(q).view = run[q].view
               /\ q # Own(r).ctl => now(q) = run[q]
               /\ q = Own(r).ctl => now(q).aborted
    <3>1. run[q] \in RunType
      BY Parts DEF IInv
    <3> QED
      BY <3>1 DEF RunType
  <2>8. run' = [q \in Runs |-> IF q # r THEN now(q)
                               ELSE IF EndOf(r) = "over" THEN [Over(r) EXCEPT !.aborted = now(q).aborted]
                               ELSE [now(q) EXCEPT !.pc = EndOf(r)]]
    BY <1>7, Zenon DEF OnQuestion
  <2>5. \A q \in Runs \ {r} : run'[q] = now(q)
    <3> HIDE DEF now
    <3> QED
      BY <2>8
  <2>6. \/ run'[r].pc = "over" /\ run'[r].view = 1
        \/ run'[r].pc = "reload" /\ run'[r].view = run[r].view
    <3> DEFINE last == IF EndOf(r) = "over" THEN [Over(r) EXCEPT !.aborted = now(r).aborted]
                       ELSE [now(r) EXCEPT !.pc = EndOf(r)]
    <3>1. run'[r] = last
      <4> HIDE DEF now
      <4> QED
        BY <2>8
    <3>2. run[r] \in RunType
      BY Parts DEF IInv
    <3> QED
      BY <1>3, <3>1, <3>2 DEF Over, NoRequest, RunType
  <2> HIDE DEF now
  <2>7. RunsEbb /\ ~Going(r)'
    BY <2>1, <2>3, <2>4, <2>5, <2>6 DEF RunsEbb, Armed, Going
  <2> QED
    BY <1>1, <1>2, <2>1, <2>2, <2>7, FinishEbbs
<1> QED
  BY <1>5, <1>6, <1>7

\* A view is called idle, by a poll or a stop, or keeps its refs.
LEMMA QuietEbbs ==
    ASSUME IInv, Ordered, NEW i \in 1..MaxViews, i <= current, NEW w \in ViewType, SetView(i, w),
           w.task = view[i].task, w.active = view[i].active, w.ctl = view[i].ctl,
           \/ w.running = view[i].running /\ UNCHANGED calm
           \/ w.running \in {view[i].running, FALSE} /\ CalledIdle(i),
           UNCHANGED <<current, loads, opened, run, bgVars>>, RowsStay
    PROVE  Ebbs
<1>1. ViewsEbb /\ Here' = (IF i = current THEN w ELSE Here)
  BY SetViewEbbs
<1>2. RunsEbb /\ RegistryHolds /\ RegistryEbbs /\ (calm' => calm)
  <2>1. calm' => calm
    BY DEF CalledIdle
  <2>2. RunsEbb
    BY DEF RunsEbb
  <2> QED
    BY <2>1, <2>2 DEF RegistryHolds, RegistryEbbs, bgVars
<1>3. ASSUME AtHand, calm' PROVE HereEbbs
  <2>1. CASE i # current \/ w.running = view[i].running
    BY <1>1, <2>1 DEF HereEbbs, Here
  <2>2. CASE i = current /\ w.running = FALSE /\ CalledIdle(i)
    <3>1. \A q \in Runs : ~Waiting(q)
      BY <1>3, <2>2 DEF CalledIdle, Unarmed, AtHand, WaitingIsActive, Waiting
    <3>2. \A q \in Runs : ~(Here.ctl = q /\ Going(q)')
      BY <1>3, <2>2 DEF CalledIdle, Live, Going, Here
    <3> QED
      BY <1>1, <2>2, <3>1, <3>2 DEF HereEbbs, Here
  <2> QED
    BY <2>1, <2>2
<1> QED
  BY <1>1, <1>2, <1>3 DEF Ebbs

LEMMA StopEndsEbbs == ASSUME IInv, Ordered, NEW i \in 1..MaxViews, StopEnds(i) PROVE Ebbs
<1> DEFINE w == [view[i] EXCEPT !.stopping = NoTask, !.running = FALSE]
<1>1. view[i] \in ViewType
  BY Parts DEF IInv
<1>2. w \in ViewType /\ w.task = view[i].task /\ w.active = view[i].active /\ w.ctl = view[i].ctl /\ w.running = FALSE
  BY <1>1 DEF ViewType
<1>3. SetView(i, w)
  BY DEF StopEnds
<1> HIDE DEF w
<1>4. i <= current
  BY Parts DEF StopEnds, Ordered, NotYetMounted, Blank, IInv
<1>5. RowsStay
  BY RowsStayIf DEF StopEnds
<1> QED
  BY <1>2, <1>3, <1>4, <1>5, QuietEbbs DEF StopEnds

LEMMA PollEbbs ==
    ASSUME IInv, Ordered, NEW i \in 1..MaxViews, PollTick(i) \/ PollSees(i) \/ PollGivesUp(i) PROVE Ebbs
<1>1. view[i] \in ViewType
  BY Parts DEF IInv
<1>2. i <= current
  BY Parts DEF PollTick, PollSees, PollGivesUp, Ordered, NotYetMounted, Blank, NoPoll, IInv
<1>3. RowsStay /\ UNCHANGED <<current, loads, opened, run, bgVars>>
  BY DEF PollTick, PollSees, PollGivesUp, storeVars, RowsStay
<1> DEFINE Same(w) == /\ w \in ViewType /\ w.task = view[i].task /\ w.active = view[i].active
                      /\ w.ctl = view[i].ctl
<1>4. SUFFICES \E w \in ViewType : /\ SetView(i, w) /\ Same(w)
                                   /\ \/ w.running = view[i].running /\ UNCHANGED calm
                                      \/ w.running \in {view[i].running, FALSE} /\ CalledIdle(i)
  BY <1>2, <1>3, QuietEbbs
<1> DEFINE q == Quiet(view[i])
<1>5. Same(view[i]) /\ Same(q) /\ q.running = FALSE
  BY <1>1 DEF Quiet, ViewType
<1> HIDE DEF q
<1>6. CASE PollTick(i)
  <2> DEFINE v == view[i]
             still == v.active = v.poll.task
             p == IF still THEN q ELSE v
             ends == [p EXCEPT !.poll.task = NoTask]
             reads == [v EXCEPT !.poll.tick = v.poll.task, !.poll.still = still]
  <2>1. \/ SetView(i, ends) /\ (IF still THEN CalledIdle(i) ELSE UNCHANGED calm)
        \/ SetView(i, reads) /\ UNCHANGED calm
    BY <1>6 DEF PollTick, q
  <2>2. Same(p) /\ p.running \in {view[i].running, FALSE} /\ (~still => p.running = view[i].running)
    BY <1>1, <1>5
  <2>3. Same(reads) /\ reads.running = view[i].running
    BY <1>1 DEF ViewType
  <2> HIDE DEF p, reads
  <2>4. Same(ends) /\ ends.running = p.running
    BY <2>2 DEF ViewType
  <2> HIDE DEF ends
  <2> QED
    BY <2>1, <2>2, <2>3, <2>4
<1>7. CASE PollSees(i)
  <2> DEFINE v == [view[i] EXCEPT !.poll.tick = NoTask]
             t == view[i].poll.tick
             p == IF v.poll.still THEN Quiet(v) ELSE v
             ends == [p EXCEPT !.poll.task = NoTask]
             shows == [v EXCEPT !.shown = {t}]
  <2>1. \/ SetView(i, ends) /\ (IF v.poll.still THEN CalledIdle(i) ELSE UNCHANGED calm)
        \/ SetView(i, shows) /\ UNCHANGED calm
        \/ SetView(i, v) /\ UNCHANGED calm
    BY <1>7 DEF PollSees
  <2>2. t \in Tasks
    BY <1>1, <1>7 DEF PollSees, ViewType
  <2>3. Same(v) /\ v.running = view[i].running
    BY <1>1 DEF ViewType
  <2> HIDE DEF v, t
  <2>4. Same(Quiet(v)) /\ Quiet(v).running = FALSE
    BY <2>3 DEF Quiet, ViewType
  <2>5. Same(p) /\ p.running \in {view[i].running, FALSE} /\ (~v.poll.still => p.running = view[i].running)
    BY <1>1, <2>3, <2>4
  <2>6. Same(shows) /\ shows.running = view[i].running
    BY <2>2, <2>3 DEF ViewType
  <2> HIDE DEF p, shows
  <2>7. Same(ends) /\ ends.running = p.running
    BY <2>5 DEF ViewType
  <2> HIDE DEF ends
  <2> QED
    BY <2>1, <2>3, <2>5, <2>6, <2>7
<1>8. CASE PollGivesUp(i)
  <2> DEFINE t == view[i].poll.tick
             ends == [q EXCEPT !.poll = NoPoll, !.shown = {t}]
  <2>1. SetView(i, ends) /\ CalledIdle(i)
    BY <1>8 DEF PollGivesUp, q
  <2>2. t \in Tasks
    BY <1>1, <1>8 DEF PollGivesUp, ViewType
  <2> HIDE DEF t
  <2>3. Same(ends) /\ ends.running = FALSE
    BY <1>5, <2>2 DEF ViewType, NoPoll
  <2> HIDE DEF ends
  <2> QED
    BY <2>1, <2>3
<1> QED
  BY <1>6, <1>7, <1>8

LEMMA RemoveLaterEbbs == ASSUME IInv, Ordered, NEW t \in Tasks, RemoveLater(t) PROVE Ebbs
<1>1. /\ removals[t] > 0 /\ UNCHANGED <<view, current, opened, loads, run, status, calm>>
      /\ bg'[t] = NoEntry /\ \A s \in Tasks \ {t} : bg'[s] = bg[s] /\ removals'[s] = removals[s]
  <2>1. bg' = [bg EXCEPT ![t] = NoEntry] /\ removals' = [removals EXCEPT ![t] = @ - 1]
    BY DEF RemoveLater
  <2>2. bg'[t] = NoEntry /\ \A s \in Tasks \ {t} : bg'[s] = bg[s] /\ removals'[s] = removals[s]
    BY <2>1, Parts DEF IInv, BgType
  <2> QED
    BY <2>2 DEF RemoveLater, pageVars, storeVars
<1>2. ViewsEbb /\ RunsEbb /\ RowsStay /\ HereEbbs
  BY <1>1, SameViewsEbb DEF RunsEbb, RowsStay, HereEbbs
<1>3. RegistryHolds
  BY <1>1 DEF RegistryHolds, NoEntry
<1>4. AtHand => RegistryEbbs
  BY <1>1 DEF AtHand, RemovalsAreLate, RegistryEbbs, NoEntry, Going
<1> QED
  BY <1>1, <1>2, <1>3, <1>4 DEF Ebbs

LEMMA ReloadEbbs == ASSUME IInv, Ordered, NEW r \in Runs, Reload(r) PROVE Ebbs
<1> DEFINE w == [Own(r) EXCEPT !.shown = {run[r].task}]
<1>1. Own(r) \in ViewType /\ run[r].task \in Tasks /\ run[r].pc = "reload"
  BY Owned DEF Reload, IInv, AboutTasks
<1>2. w \in ViewType /\ SameRefs(w, Own(r))
  BY <1>1 DEF ViewType, SameRefs
<1>3. Show(r, w)
  BY DEF Reload
<1> HIDE DEF w
<1>4. RunsEbb /\ RowsStay
  BY <1>1, GotoEbbs, RowsStayIf DEF Reload, storeVars
<1> QED
  BY <1>1, <1>2, <1>3, <1>4, ShownEbbs DEF Reload

\* What the user does to the view alone, and a stop.
LEMMA UserEbbs == ASSUME IInv, Ordered, Reject \/ AnswerPermission \/ StopBegins PROVE Ebbs
<1>1. Here \in ViewType /\ Mine \subseteq Tasks /\ current \in 1..MaxViews /\ current <= current
  BY Parts DEF IInv, Here, Mine, ViewType
<1>2. CASE Reject
  <2> DEFINE w == [Here EXCEPT !.plan = NoPlan, !.phase = "idle", !.shown = @ \cup Mine]
  <2>1. w \in ViewType /\ SameRefs(w, Here)
    BY <1>1 DEF ViewType, NoPlan, SameRefs
  <2>2. SetView(current, w)
    BY <1>2 DEF Reject, Put
  <2> HIDE DEF w
  <2>3. RowsStay /\ RunsEbb
    BY <1>2, RowsStayIf DEF Reject, RunsEbb
  <2> QED
    BY <1>1, <1>2, <2>1, <2>2, <2>3, StillEbbs DEF Reject, Here
<1>3. CASE AnswerPermission
  <2> DEFINE w == [Here EXCEPT !.perm = FALSE, !.shown = @ \cup Mine]
  <2>1. w \in ViewType /\ SameRefs(w, Here)
    BY <1>1 DEF ViewType, SameRefs
  <2>2. SetView(current, w)
    BY <1>3 DEF AnswerPermission, Put
  <2> HIDE DEF w
  <2>3. RowsStay /\ RunsEbb
    BY <1>3 DEF AnswerPermission, RunsEbb, storeVars, RowsStay
  <2> QED
    BY <1>1, <1>3, <2>1, <2>2, <2>3, StillEbbs DEF AnswerPermission, Here
<1>4. CASE StopBegins
  <2> DEFINE w == [Here EXCEPT !.poll.task = NoTask, !.stopping = Here.task]
  <2>1. w \in ViewType /\ SameRefs(w, Here)
    BY <1>1 DEF ViewType, SameRefs
  <2>2. SetView(current, w)
    BY <1>4 DEF StopBegins, Put
  <2> HIDE DEF w
  <2>3. RunsEbb
    <3> SUFFICES ASSUME NEW q \in Runs, run'[q] # run[q]
                 PROVE  /\ Armed(q) /\ Armed(q)' /\ ~Going(q)'
                        /\ run'[q].view = run[q].view /\ run'[q].pc = run[q].pc /\ run'[q].task = run[q].task
      BY DEF RunsEbb
    <3>1. q = Here.ctl /\ run'[q] = [run[q] EXCEPT !.aborted = TRUE]
      BY <1>4, Parts DEF StopBegins, IInv
    <3>2. Armed(q)
      BY <1>1, <3>1 DEF Ordered, HeldAreArmed, Here
    <3>3. run[q] \in RunType
      BY Parts DEF IInv
    <3> QED
      BY <3>1, <3>2, <3>3 DEF RunType, Armed, Going
  <2>4. RowsStay /\ (calm' => calm)
    BY <1>4 DEF StopBegins, storeVars, RowsStay, UserActs
  <2> QED
    BY <1>1, <1>4, <2>1, <2>2, <2>3, <2>4, StillEbbs DEF StopBegins, Here
<1> QED
  BY <1>2, <1>3, <1>4

-----------------------------------------------------------------------------
(* The steps that begin something: the user.                               *)

LEMMA StepOrdered ==
    ASSUME IInv, Ordered, UNCHANGED current,
           \/ UNCHANGED view
           \/ \E i \in 1..MaxViews : \E v \in ViewType :
                 i <= current /\ SetView(i, v) /\ \A q \in Runs : v.ctl = q => Armed(q)',
           \A q \in Runs : (Armed(q) => Armed(q)') /\ (run'[q].pc # "none" => run'[q].view <= current),
           \A n \in 1..MaxOpens : /\ loads'[n].view <= current /\ (n > opened' => loads'[n].pc = "none")
                                  /\ \A q \in Runs : loads'[n].was = q => Armed(q)',
           \A t \in Tasks, q \in Runs : bg'[t].run = q => Armed(q)'
    PROVE  Ordered'
<1>1. ASSUME NEW i \in 1..MaxViews, NEW v \in ViewType, i <= current, SetView(i, v),
             \A q \in Runs : v.ctl = q => Armed(q)'
      PROVE  NotYetMounted' /\ \A j \in 1..MaxViews, q \in Runs : view'[j].ctl = q => Armed(q)'
  <2>1. /\ \A j \in 1..MaxViews \ {i} : view'[j] = view[j]
        /\ view'[i] = (IF i = current THEN v ELSE Kept(i, v))
    BY <1>1, Parts DEF IInv, SetView
  <2>2. Kept(i, v).ctl = v.ctl
    BY DEF Kept, Refs, Blank, ViewType
  <2>3. NotYetMounted'
    BY <1>1, <2>1, Parts DEF IInv, Ordered, NotYetMounted
  <2>4. ASSUME NEW j \in 1..MaxViews, NEW q \in Runs, view'[j].ctl = q PROVE Armed(q)'
    BY <1>1, <2>1, <2>2, <2>4 DEF Ordered, HeldAreArmed
  <2> QED
    BY <2>3, <2>4
<1>2. CASE UNCHANGED view
  BY <1>2 DEF Ordered, NotYetMounted, StartedBefore, LoadsBefore, HeldAreArmed
<1>3. CASE ~UNCHANGED view
  BY <1>1, <1>3 DEF Ordered, StartedBefore, LoadsBefore, HeldAreArmed
<1> QED
  BY <1>2, <1>3

\* Here is idle, but for a run that is on the controller and shown.
LEMMA Idle ==
    ASSUME IInv, Ordered, AtHand, Settled
    PROVE  /\ \A n \in 1..MaxOpens : ~LoadsOn(n)
           /\ \A q \in Runs : ~Waiting(q) /\ (Engaged(q) => Going(q))
           /\ Here.task = Here.active
           /\ \A q \in Runs : Going(q) /\ run[q].task = Here.task => Here.ctl = q
           /\ \A q \in Runs : Here.ctl = q /\ Going(q) => run[q].task = Here.task /\ Here.running
           /\ \A s \in Tasks, q \in Runs : removals[s] > 0 /\ Going(q) => run[q].task # s
<1>1. ASSUME NEW n \in 1..MaxOpens PROVE ~LoadsOn(n)
  BY Parts DEF Settled, Loading, AtHand, OneLoad, LoadsOn, Ordered, LoadsBefore, IInv
<1>2. ASSUME NEW q \in Runs PROVE ~Waiting(q) /\ (Engaged(q) => Going(q))
  BY DEF Settled, Unarmed, AtHand, WaitingIsActive, Waiting, Engaged, Going
<1>3. Here.task = Here.active
  BY <1>1, <1>2 DEF AtHand, ActiveOnScreen, Waiting
<1>4. \A q \in Runs : Going(q) /\ run[q].task = Here.task => Here.ctl = q
  BY <1>1, <1>3 DEF AtHand, ActiveIsControlled, LoadsOn
<1>5. \A q \in Runs : Here.ctl = q /\ Going(q) => run[q].task = Here.task /\ Here.running
  BY <1>3 DEF AtHand, ControlIsShown
<1>6. ASSUME NEW s \in Tasks, NEW q \in Runs, removals[s] > 0, Going(q) PROVE run[q].task # s
  <2> SUFFICES ASSUME run[q].task = s PROVE FALSE
    OBVIOUS
  <2>1. Here.ctl = q
    BY <1>6 DEF AtHand, RemovalsAreLate
  <2>2. Here.task = s
    BY <1>5, <1>6, <2>1
  <2>3. Here.task # NoTask
    BY <2>2, ShellAgentAssumption
  <2> QED
    BY <1>6, <2>2, <2>3 DEF Settled, Here
<1> QED
  BY <1>1, <1>2, <1>3, <1>4, <1>5, <1>6

\* The run on the controller moves to the registry.
LEMMA ParkReach ==
    ASSUME IInv, Ordered, AtHand, Settled,
           bg' = IF Movable(Here) THEN Parked(bg, Here) ELSE bg
    PROVE  /\ \A q \in Runs : Going(q) => bg'[run[q].task] = [run |-> q, running |-> TRUE]
           /\ \A s \in Tasks, q \in Runs : bg'[s].run = q /\ bg'[s].running /\ Going(q) => run[q].task = s
           /\ \A s \in Tasks, q \in Runs : bg'[s].run = q => Armed(q)
<1>1. \A s \in Tasks : bg'[s] = IF Movable(Here) /\ s = Here.task THEN [run |-> Here.ctl, running |-> TRUE]
                                ELSE bg[s]
  BY Parts DEF IInv, Parked, BgType
<1>2. ASSUME NEW q \in Runs, Going(q) PROVE bg'[run[q].task] = [run |-> q, running |-> TRUE]
  <2>1. run[q].task \in Tasks
    BY <1>2 DEF Going, IInv, AboutTasks
  <2>2. CASE Here.ctl = q
    <3>1. Movable(Here) /\ run[q].task = Here.task
      BY <1>2, <2>1, <2>2, Idle, ShellAgentAssumption DEF Movable, Runs, NoRun
    <3> QED
      BY <1>1, <2>1, <2>2, <3>1
  <2>3. CASE Here.ctl # q
    <3>1. run[q].task # Here.task
      BY <1>2, <2>3, Idle
    <3>2. bg[run[q].task] = [run |-> q, running |-> TRUE]
      BY <1>2, <2>3 DEF AtHand, InReach
    <3> QED
      BY <1>1, <2>1, <3>1, <3>2
  <2> QED
    BY <2>2, <2>3
<1>3. ASSUME NEW s \in Tasks, NEW q \in Runs, bg'[s].run = q PROVE Armed(q)
  <2>1. current \in 1..MaxViews
    BY Parts DEF IInv
  <2> QED
    BY <1>1, <1>3, <2>1 DEF Ordered, HeldAreArmed, Here
<1>4. ASSUME NEW s \in Tasks, NEW q \in Runs, bg'[s].run = q, bg'[s].running, Going(q) PROVE run[q].task = s
  BY <1>1, <1>4, Idle DEF AtHand, KeptUnderTask
<1> QED
  BY <1>2, <1>3, <1>4

LEMMA OpenKeepsReach == ASSUME RInv, NEW t \in Tasks, Open(t) PROVE Ordered' /\ (calm' => AtHand')
<1> DEFINE y == IF Parks(Here, t) THEN [Here EXCEPT !.ctl = NoRun, !.shown = {}, !.perm = FALSE, !.plan = NoPlan]
                ELSE Here
           w == [y EXCEPT !.poll.task = NoTask, !.active = t]
           l == [view |-> current, task |-> t, pc |-> "meta", was |-> NoRun, final |-> FALSE]
<1>1. /\ IInv /\ Ordered /\ (calm => AtHand) /\ Here \in ViewType /\ current \in 1..MaxViews
      /\ opened \in 0..MaxOpens /\ opened + 1 \in 1..MaxOpens
  BY Parts, ShellAgentAssumption DEF RInv, IInv, Here, Open
<1>2. SetView(current, w) /\ bg' = IF Parks(Here, t) THEN Parked(bg, Here) ELSE bg
  BY DEF Open, LoadTask, Here
<1>3. /\ loads'[opened + 1] = l /\ opened' = opened + 1 /\ UNCHANGED <<current, run, removals, status>>
      /\ \A n \in 1..MaxOpens \ {opened + 1} : loads'[n] = loads[n]
  <2>1. loads' = [loads EXCEPT ![opened + 1] = l]
    BY DEF Open
  <2> HIDE DEF l
  <2> QED
    BY <1>1, <2>1, Parts DEF IInv, Open, storeVars
<1>4. y \in ViewType /\ y.task = Here.task /\ y.running = Here.running
      /\ y.ctl = IF Parks(Here, t) THEN NoRun ELSE Here.ctl
  <2> DEFINE x == [Here EXCEPT !.ctl = NoRun, !.shown = {}, !.perm = FALSE, !.plan = NoPlan]
  <2>1. x \in ViewType
    BY <1>1 DEF ViewType, NoPlan
  <2>2. x.task = Here.task /\ x.running = Here.running /\ x.ctl = NoRun
    BY <1>1 DEF ViewType
  <2>3. y = IF Parks(Here, t) THEN x ELSE Here
    OBVIOUS
  <2> HIDE DEF x, y
  <2> QED
    BY <1>1, <2>1, <2>2, <2>3
<1> HIDE DEF y
<1>5. w \in ViewType /\ w.task = y.task /\ w.running = y.running /\ w.ctl = y.ctl /\ w.active = t
  BY <1>4 DEF ViewType
<1> HIDE DEF w
<1>6. Here' = w
  BY <1>1, <1>2, <1>3, <1>5, Parts DEF SetView, Here, IInv
<1>7. Ordered'
  <2>1. \A q \in Runs : w.ctl = q => Armed(q)
    BY <1>1, <1>4, <1>5 DEF Ordered, HeldAreArmed, Here, Runs, NoRun
  <2>2. \A s \in Tasks : bg'[s].run \in {bg[s].run, Here.ctl}
    BY <1>1, <1>2, Parts DEF IInv, Parked, BgType
  <2>3. \A s \in Tasks, q \in Runs : bg'[s].run = q => Armed(q)
    BY <1>1, <2>2 DEF Ordered, HeldAreArmed, Here
  <2>4. \A n \in 1..MaxOpens : /\ loads'[n].view <= current /\ (n > opened' => loads'[n].pc = "none")
                               /\ \A q \in Runs : loads'[n].was = q => Armed(q)
    BY <1>1, <1>3 DEF Ordered, LoadsBefore, HeldAreArmed, Runs, NoRun
  <2>5. current <= current
    BY <1>1
  <2> QED
    BY <1>1, <1>2, <1>3, <1>5, <2>1, <2>3, <2>4, <2>5, StepOrdered DEF Ordered, StartedBefore, Armed
<1>8. ASSUME calm' PROVE AtHand'
  <2>1. AtHand /\ Settled
    BY <1>1, <1>8 DEF Open, UserActs
  <2>2. Here.task # t /\ ~(Here.active = t)
    BY <1>1, <2>1, Idle DEF Open, AtHand, ActiveIsRoute
  <2>3. Parks(Here, t) <=> Movable(Here)
    BY <2>2 DEF Parks
  <2>4. /\ \A q \in Runs : Going(q) => bg'[run[q].task] = [run |-> q, running |-> TRUE]
        /\ \A s \in Tasks, q \in Runs : bg'[s].run = q /\ bg'[s].running /\ Going(q) => run[q].task = s
    BY <1>1, <1>2, <2>1, <2>3, ParkReach
  <2>5. \A q \in Runs : ~(Here'.ctl = q /\ Going(q))
    BY <1>1, <1>4, <1>5, <1>6, <2>1, <2>3, Idle, ShellAgentAssumption DEF Movable, Going, IInv, AboutTasks, Runs, NoRun
  <2>6. \A q \in Runs : ~Waiting(q)
    BY <1>1, <2>1, Idle
  <2>7. \A n \in 1..MaxOpens : LoadsOn(n)' <=> n = opened + 1
    BY <1>1, <1>3, <2>1, Idle DEF LoadsOn
  <2>8. InReach' /\ WaitingIsActive' /\ TasksApart' /\ ControlIsShown' /\ EngagedHaveRows' /\ KeptUnderTask'
    BY <1>3, <2>1, <2>4, <2>5, <2>6 DEF InReach, WaitingIsActive, TasksApart, ControlIsShown, EngagedHaveRows,
       KeptUnderTask, AtHand, Going, Waiting, Engaged
  <2>9. OneLoad' /\ LooksUpFirst' /\ ActiveOnScreen' /\ ActiveIsControlled' /\ ActiveHasRow'
    BY <1>1, <1>3, <2>5, <2>6, <2>7 DEF OneLoad, LooksUpFirst, ActiveOnScreen, ActiveIsControlled, ActiveHasRow,
       Controls, Waiting, Going, LoadsOn
  <2>10. ActiveIsRoute'
    BY <1>1, <1>3, <1>5, <1>6 DEF ActiveIsRoute, Route
  <2>11. FoundIfGoing' /\ FoundIsOfTask'
    BY <1>1, <1>3, <2>7 DEF FoundIfGoing, FoundIsOfTask, LoadsOn
  <2>12. RemovalsAreLate'
    BY <1>1, <1>3, <2>1, Idle DEF RemovalsAreLate, Going
  <2> QED
    BY <2>8, <2>9, <2>10, <2>11, <2>12 DEF AtHand
<1> QED
  BY <1>7, <1>8

LEMMA LeaveKeepsReach == ASSUME RInv, Leave PROVE Ordered' /\ (calm' => AtHand')
<1> DEFINE left == [Refs(Here) EXCEPT !.poll.task = NoTask]
<1>1. /\ IInv /\ Ordered /\ (calm => AtHand) /\ Here \in ViewType
      /\ current \in 1..MaxViews /\ current + 1 \in 1..MaxViews
  BY Parts, ShellAgentAssumption DEF RInv, IInv, Here, Leave
<1>2. /\ bg' = IF Movable(Here) THEN Parked(bg, Here) ELSE bg
      /\ current' = current + 1 /\ UNCHANGED <<loads, opened, run, removals, status>>
  BY DEF Leave, Here, storeVars
<1>3. left.ctl = Here.ctl
  <2> DEFINE v == Refs(Here)
  <2>1. v.ctl = Here.ctl
    BY <1>1 DEF Refs, Blank, ViewType
  <2>3. v \in ViewType
    BY <1>1, RefsTyped
  <2> HIDE DEF v
  <2>4. v \in ViewType => [v EXCEPT !.poll.task = NoTask].ctl = v.ctl
    BY DEF ViewType
  <2> QED
    BY <2>1, <2>3, <2>4 DEF v
<1>4. view'[current] = left /\ \A i \in 1..MaxViews \ {current} : view'[i] = view[i]
  <2>1. view' = [view EXCEPT ![current] = left]
    BY DEF Leave, Here
  <2> HIDE DEF left
  <2> QED
    BY <1>1, <2>1, Parts DEF IInv
<1> HIDE DEF left
<1>5. Here' = Blank
  BY <1>1, <1>2, <1>4 DEF Here, Ordered, NotYetMounted
<1>6. Ordered'
  <2>1. \A s \in Tasks : bg'[s].run \in {bg[s].run, Here.ctl}
    BY <1>1, <1>2, Parts DEF IInv, Parked, BgType
  <2>2. \A s \in Tasks, q \in Runs : bg'[s].run = q => Armed(q)
    BY <1>1, <2>1 DEF Ordered, HeldAreArmed, Here
  <2>3. \A i \in 1..MaxViews, q \in Runs : view'[i].ctl = q => Armed(q)
    BY <1>1, <1>3, <1>4 DEF Ordered, HeldAreArmed, Here
  <2>4. HeldAreArmed'
    <3>1. \A n \in 1..MaxOpens, q \in Runs : loads'[n].was = q => Armed(q)
      BY <1>1, <1>2 DEF Ordered, HeldAreArmed
    <3>2. \A q \in Runs : Armed(q)' <=> Armed(q)
      BY <1>2 DEF Armed
    <3> QED
      BY <2>2, <2>3, <3>1, <3>2 DEF HeldAreArmed
  <2>5. NotYetMounted'
    BY <1>1, <1>2, <1>4 DEF Ordered, NotYetMounted
  <2>6. StartedBefore' /\ LoadsBefore'
    BY <1>1, <1>2, Parts DEF Ordered, StartedBefore, LoadsBefore, IInv, RunType, LoadType
  <2> QED
    BY <2>4, <2>5, <2>6 DEF Ordered
<1>7. ASSUME calm' PROVE AtHand'
  <2>1. AtHand /\ Settled
    BY <1>1, <1>7 DEF Leave, UserActs
  <2>2. /\ \A q \in Runs : Going(q) => bg'[run[q].task] = [run |-> q, running |-> TRUE]
        /\ \A s \in Tasks, q \in Runs : bg'[s].run = q /\ bg'[s].running /\ Going(q) => run[q].task = s
    BY <1>1, <1>2, <2>1, ParkReach
  <2>3. Here'.ctl = NoRun /\ Here'.active = NoTask /\ Here'.task = NoTask
    BY <1>5 DEF Blank
  <2>4. \A q \in Runs : Here'.ctl # q
    BY <2>3 DEF Runs, NoRun
  <2>5. \A q \in Runs : ~Waiting(q)
    BY <1>1, <2>1, Idle
  <2>6. \A n \in 1..MaxOpens : ~LoadsOn(n)
    BY <1>1, <2>1, Idle
  <2>7. \A q \in Runs : Engaged(q)' => Engaged(q)
    BY <1>1, <1>2, Parts DEF Engaged, Ordered, StartedBefore, Going, Waiting, IInv, RunType
  <2>8. InReach' /\ WaitingIsActive' /\ KeptUnderTask' /\ ControlIsShown'
    BY <1>2, <2>2, <2>4, <2>5 DEF InReach, WaitingIsActive, KeptUnderTask, ControlIsShown, Going, Waiting
  <2>9. TasksApart' /\ EngagedHaveRows'
    BY <1>2, <2>1, <2>7 DEF TasksApart, EngagedHaveRows, AtHand, Waiting
  <2>10. OneLoad' /\ LooksUpFirst' /\ FoundIfGoing' /\ FoundIsOfTask'
    BY <1>2, <2>6 DEF OneLoad, LooksUpFirst, FoundIfGoing, FoundIsOfTask, LoadsOn
  <2>11. ActiveOnScreen' /\ ActiveHasRow'
    BY <2>3 DEF ActiveOnScreen, ActiveHasRow
  <2>12. ActiveIsControlled'
    <3>1. \A q \in Runs : Going(q) => run[q].task # NoTask
      BY <1>1, ShellAgentAssumption DEF IInv, AboutTasks, Going
    <3> QED
      BY <1>2, <2>3, <3>1 DEF ActiveIsControlled, Going
  <2>13. ActiveIsRoute'
    <3>1. opened > 0 => loads[opened].view # current + 1
      BY <1>1, Parts, ShellAgentAssumption DEF Ordered, LoadsBefore, IInv, LoadType
    <3> QED
      BY <1>2, <2>3, <3>1 DEF ActiveIsRoute, Route
  <2>14. RemovalsAreLate'
    BY <1>1, <1>2, <2>1, Idle DEF RemovalsAreLate, Going
  <2> QED
    BY <2>8, <2>9, <2>10, <2>11, <2>12, <2>13, <2>14 DEF AtHand
<1> QED
  BY <1>6, <1>7

\* A new request for the task on screen, whose view keeps its task and holds
\* no controller.
LEMMA AskKeepsReach ==
    ASSUME RInv, NEW r \in Runs, Unused(r), NEW k \in {"exec", "talk", "quick"}, Begin(r, k), Here.task # NoTask,
           NEW w \in ViewType, SetView(current, w), w.task = Here.task, w.ctl = Here.ctl,
           w.active \in {Here.active, Here.task}, w.running \in {Here.running, k = "exec"},
           k = "exec" => w.running, UserAsks,
           UNCHANGED <<current, loads, opened, bgVars, storeVars>>
    PROVE  Ordered' /\ (calm' => AtHand')
<1> DEFINE q0 == [task |-> Here.task, kind |-> k, view |-> current, pc |-> "claimed", aborted |-> FALSE]
<1>1. /\ IInv /\ Ordered /\ (calm => AtHand) /\ Here \in ViewType /\ current \in 1..MaxViews
  BY Parts DEF RInv, IInv, Here
<1>2. run'[r] = q0 /\ \A q \in Runs \ {r} : run'[q] = run[q]
  <2>1. run' = [run EXCEPT ![r] = q0]
    BY DEF Begin
  <2> HIDE DEF q0
  <2> QED
    BY <2>1, <1>1, Parts DEF IInv
<1>3. Here' = w
  BY <1>1, Parts DEF SetView, Here, IInv
<1>4. run[r].pc = "none"
  BY DEF Unused
<1>5. \A q \in Runs : Armed(q) <=> Armed(q)'
  BY <1>2, <1>4 DEF Armed
<1>6. Ordered'
  <2>1. \A q \in Runs : w.ctl = q => Armed(q)'
    BY <1>1, <1>5 DEF Ordered, HeldAreArmed, Here
  <2>2. \A q \in Runs : run'[q].pc # "none" => run'[q].view <= current
    BY <1>1, <1>2 DEF Ordered, StartedBefore
  <2>3. /\ \A n \in 1..MaxOpens, q \in Runs : loads'[n].was = q => Armed(q)'
        /\ \A t \in Tasks, q \in Runs : bg'[t].run = q => Armed(q)'
    BY <1>1, <1>5 DEF Ordered, HeldAreArmed, bgVars
  <2>4. current <= current /\ \A n \in 1..MaxOpens : loads'[n].view <= current
                                                       /\ (n > opened' => loads'[n].pc = "none")
    BY <1>1 DEF Ordered, LoadsBefore
  <2> QED
    BY <1>1, <1>5, <2>1, <2>2, <2>3, <2>4, StepOrdered
<1>7. ASSUME calm' PROVE AtHand'
  <2>1. AtHand /\ Settled /\ Here.ctl = NoRun
    BY <1>1, <1>7 DEF UserAsks, Here
  <2>2. /\ \A n \in 1..MaxOpens : ~LoadsOn(n)
        /\ \A q \in Runs : ~Waiting(q) /\ (Engaged(q) => Going(q))
        /\ Here.task = Here.active
        /\ \A q \in Runs : Going(q) => run[q].task # Here.task
        /\ \A s \in Tasks, q \in Runs : removals[s] > 0 /\ Going(q) => run[q].task # s
    BY <1>1, <2>1, Idle DEF Runs, NoRun
  <2>3. \A q \in Runs : Going(q)' <=> (Going(q) /\ q # r)
    BY <1>2, <1>4 DEF Going
  <2>4. \A q \in Runs : /\ Waiting(q)' <=> q = r
                        /\ Engaged(q)' => q = r \/ Going(q)
    BY <1>2, <2>2 DEF Waiting, Engaged, Going
  <2>5. Here'.task = Here.task /\ Here'.active = Here.task /\ \A q \in Runs : Here'.ctl # q
    BY <1>3, <2>1, <2>2 DEF Runs, NoRun
  <2>6. InReach' /\ KeptUnderTask' /\ RemovalsAreLate' /\ ControlIsShown'
    BY <1>2, <2>1, <2>2, <2>3, <2>5 DEF AtHand, InReach, KeptUnderTask, RemovalsAreLate, ControlIsShown, bgVars,
       Runs, NoRun
  <2>7. OneLoad' /\ LooksUpFirst' /\ FoundIfGoing' /\ FoundIsOfTask'
    BY <2>2 DEF OneLoad, LooksUpFirst, FoundIfGoing, FoundIsOfTask, LoadsOn
  <2>8. status[Here.task] # "none"
    BY <2>1, <2>2 DEF AtHand, ActiveHasRow, LoadsOn
  <2>9. WaitingIsActive'
    <3>1. r \in Runs /\ run'[r].view = current /\ run'[r].task = Here.task /\ run'[r].kind = k
          /\ run'[r].pc = "claimed"
      BY <1>2
    <3>2. ~Controls'
      BY <2>5 DEF Controls
    <3>3. k \notin {"talk", "quick"} => Here'.running
      BY <1>3
    <3> QED
      BY <2>4, <2>5, <2>8, <3>1, <3>2, <3>3 DEF WaitingIsActive, storeVars
  <2>10. TasksApart'
    BY <1>2, <2>1, <2>2, <2>4 DEF AtHand, TasksApart, Engaged
  <2>11. ActiveIsRoute' /\ ActiveOnScreen'
    BY <2>1, <2>2, <2>5 DEF AtHand, ActiveIsRoute, Route, ActiveOnScreen
  <2>12. ActiveIsControlled'
    BY <1>2, <2>2, <2>3, <2>5 DEF ActiveIsControlled
  <2>13. EngagedHaveRows' /\ ActiveHasRow'
    BY <1>2, <2>1, <2>4, <2>5, <2>8 DEF AtHand, EngagedHaveRows, ActiveHasRow, storeVars, Engaged, Waiting, Going
  <2> QED
    BY <2>6, <2>7, <2>9, <2>10, <2>11, <2>12, <2>13 DEF AtHand
<1> QED
  BY <1>6, <1>7

LEMMA AsksKeepReach ==
    ASSUME RInv, NEW r \in Runs, Approve(r) \/ \E k \in {"talk", "quick"} : Reply(r, k)
    PROVE  Ordered' /\ (calm' => AtHand')
<1>1. Here \in ViewType /\ Mine \subseteq Tasks
  BY Parts DEF RInv, IInv, Here, Mine, ViewType
<1>2. CASE Approve(r)
  <2> DEFINE w == [Here EXCEPT !.active = Here.task, !.running = TRUE, !.phase = "executing",
                               !.plan.steps = "pending"]
  <2>1. w \in ViewType /\ w.task = Here.task /\ w.ctl = Here.ctl /\ w.active = Here.task /\ w.running = TRUE
    BY <1>1 DEF ViewType
  <2>2. SetView(current, w)
    BY <1>2 DEF Approve, Put
  <2> HIDE DEF w
  <2> QED
    BY <1>2, <2>1, <2>2, AskKeepsReach DEF Approve
<1>3. ASSUME NEW k \in {"talk", "quick"}, Reply(r, k) PROVE Ordered' /\ (calm' => AtHand')
  <2> DEFINE w == [Here EXCEPT !.shown = @ \cup Mine]
  <2>1. w \in ViewType /\ w.task = Here.task /\ w.ctl = Here.ctl /\ w.active = Here.active
        /\ w.running = Here.running
    BY <1>1 DEF ViewType
  <2>2. SetView(current, w)
    BY <1>3 DEF Reply, Put
  <2> HIDE DEF w
  <2> QED
    BY <1>3, <2>1, <2>2, AskKeepsReach DEF Reply
<1> QED
  BY <1>2, <1>3

-----------------------------------------------------------------------------
(* Loads.                                                                  *)

\* A load under way is that of the active task, in the mounted view.
LEMMA LoadHere ==
    ASSUME IInv, Ordered, AtHand, NEW n \in 1..opened, LoadsOn(n)
    PROVE  /\ n = opened /\ n \in 1..MaxOpens /\ loads[n].view = current /\ Here.active = loads[n].task
           /\ loads[n].task \in Tasks /\ \A q \in Runs : ~Waiting(q)
           /\ \A m \in 1..MaxOpens \ {n} : ~LoadsOn(m)
<1>1. n \in 1..MaxOpens /\ loads[n].task \in Tasks
  BY Begun DEF LoadsOn
<1>2. n = opened /\ loads[n].view = current /\ \A q \in Runs : ~Waiting(q)
  BY <1>1 DEF AtHand, OneLoad
<1>3. opened > 0
  BY <1>2, Parts DEF IInv
<1>4. Here.active = loads[n].task
  BY <1>2, <1>3 DEF AtHand, ActiveIsRoute, Route
<1>5. \A m \in 1..MaxOpens \ {n} : ~LoadsOn(m)
  BY <1>2 DEF AtHand, OneLoad
<1> QED
  BY <1>1, <1>2, <1>4, <1>5

LEMMA LoadFoundKeepsReach == ASSUME RInv, NEW n \in 1..opened, LoadFound(n) PROVE Ordered' /\ (calm' => AtHand')
<1> DEFINE t == loads[n].task
           w == IF bg[t].running THEN bg[t].run ELSE NoRun
<1>1. /\ IInv /\ Ordered /\ (calm => AtHand) /\ n \in 1..MaxOpens /\ t \in Tasks /\ loads[n].pc = "meta"
      /\ status[t] # "none" /\ UNCHANGED <<view, current, opened, run, bg, removals, status, calm>>
  BY Begun DEF RInv, LoadFound, bgVars, storeVars
<1>2. /\ loads'[n].view = loads[n].view /\ loads'[n].task = t /\ loads'[n].pc = "status" /\ loads'[n].was = w
      /\ \A m \in 1..MaxOpens \ {n} : loads'[m] = loads[m]
  <2>1. loads' = [loads EXCEPT ![n].pc = "status", ![n].was = w]
    BY DEF LoadFound
  <2> HIDE DEF w
  <2> QED
    BY <1>1, <2>1, Parts DEF IInv, LoadType
<1>3. Ordered'
  <2>1. \A q \in Runs : Armed(q)' <=> Armed(q)
    BY <1>1 DEF Armed
  <2>2. \A q \in Runs : w = q => Armed(q)
    BY <1>1 DEF Ordered, HeldAreArmed, Runs, NoRun
  <2> HIDE DEF w
  <2>3. LoadsBefore' /\ \A m \in 1..MaxOpens, q \in Runs : loads'[m].was = q => Armed(q)
    BY <1>1, <1>2, <2>2, Parts DEF Ordered, LoadsBefore, HeldAreArmed, IInv
  <2> QED
    BY <1>1, <2>1, <2>3 DEF Ordered, NotYetMounted, StartedBefore, HeldAreArmed
<1>4. ASSUME calm' PROVE AtHand'
  <2>1. AtHand /\ Here' = Here
    BY <1>1, <1>4 DEF Here
  <2>2. /\ n = opened /\ loads[n].view = current /\ Here.active = t /\ \A q \in Runs : ~Waiting(q)
        /\ \A m \in 1..MaxOpens \ {n} : ~LoadsOn(m)
    BY <1>1, <2>1, LoadHere DEF LoadsOn
  <2>3. \A q \in Runs : ~(Here.ctl = q /\ Going(q))
    BY <1>1, <2>1 DEF AtHand, LooksUpFirst, Controls
  <2>4. \A q \in Runs : (Going(q)' <=> Going(q)) /\ (Waiting(q)' <=> Waiting(q)) /\ (Engaged(q)' <=> Engaged(q))
    BY <1>1 DEF Going, Waiting, Engaged
  <2>5. ASSUME NEW q \in Runs, Going(q), run[q].task = t PROVE w = q
    <3>1. bg[t] = [run |-> q, running |-> TRUE]
      BY <2>1, <2>3, <2>5 DEF AtHand, InReach
    <3> QED
      BY <3>1
  <2>6. \A q \in Runs : w = q /\ Going(q) => run[q].task = t
    BY <1>1, <2>1 DEF AtHand, KeptUnderTask, Runs, NoRun
  <2> HIDE DEF w
  <2>7. InReach' /\ WaitingIsActive' /\ TasksApart' /\ ControlIsShown' /\ EngagedHaveRows' /\ KeptUnderTask'
        /\ RemovalsAreLate'
    BY <1>1, <2>1, <2>4, <2>2 DEF AtHand, InReach, WaitingIsActive, TasksApart, ControlIsShown, EngagedHaveRows,
       KeptUnderTask, RemovalsAreLate
  <2>8. OneLoad' /\ LooksUpFirst'
    BY <1>1, <1>2, <2>1, <2>2, <2>3, <2>4 DEF OneLoad, LooksUpFirst, LoadsOn, Controls
  <2>9. ActiveIsRoute' /\ ActiveOnScreen' /\ ActiveIsControlled' /\ ActiveHasRow'
    <3>1. Route' = Route
      BY <1>1, <1>2, <2>2 DEF Route
    <3>2. LoadsOn(n)' /\ loads'[n].pc = "status"
      BY <1>2 DEF LoadsOn
    <3> QED
      BY <1>1, <2>1, <2>2, <3>1, <3>2 DEF AtHand, ActiveIsRoute, ActiveOnScreen, ActiveIsControlled, ActiveHasRow
  <2>10. FoundIfGoing' /\ FoundIsOfTask'
    BY <1>1, <1>2, <2>2, <2>4, <2>5, <2>6 DEF FoundIfGoing, FoundIsOfTask, LoadsOn
  <2> QED
    BY <2>7, <2>8, <2>9, <2>10 DEF AtHand
<1> QED
  BY <1>3, <1>4

\* A new task: its first request is made.
LEMMA LoadMissingKeepsReach ==
    ASSUME RInv, NEW n \in 1..opened, NEW r \in Runs, NEW k \in FirstKinds, LoadMissing(n, r, k)
    PROVE  Ordered' /\ (calm' => AtHand')
<1> DEFINE i == loads[n].view
           t == loads[n].task
           u == view[i]
           w == [u EXCEPT !.running = TRUE, !.shown = {}, !.phase = "planning", !.plan = NoPlan]
           q0 == [task |-> t, kind |-> k, view |-> i, pc |-> "early", aborted |-> FALSE]
           l == [loads[n] EXCEPT !.pc = "over", !.was = NoRun, !.final = FALSE]
<1>1. /\ IInv /\ Ordered /\ (calm => AtHand) /\ n \in 1..MaxOpens /\ i \in 1..MaxViews /\ i <= current
      /\ t \in Tasks /\ loads[n].pc = "meta" /\ status[t] = "none" /\ run[r].pc = "none"
      /\ UNCHANGED <<current, opened, bg, removals, status, calm>>
  BY Begun DEF RInv, LoadMissing, bgVars, storeVars, Ordered, LoadsBefore, Unused
<1>2. /\ loads'[n] = l /\ \A m \in 1..MaxOpens \ {n} : loads'[m] = loads[m]
      /\ run'[r] = q0 /\ \A q \in Runs \ {r} : run'[q] = run[q]
  <2>1. loads' = [loads EXCEPT ![n] = l] /\ run' = [run EXCEPT ![r] = q0]
    BY DEF LoadMissing
  <2> HIDE DEF l, q0
  <2> QED
    BY <1>1, <2>1, Parts DEF IInv
<1>3. l.view = i /\ l.task = t /\ l.pc = "over" /\ l.was = NoRun
  BY <1>1, Parts DEF IInv, LoadType
<1>4. w \in ViewType /\ w.ctl = u.ctl /\ w.task = u.task /\ w.active = u.active /\ w.running = TRUE
  <2>1. u \in ViewType
    BY <1>1, Parts DEF IInv
  <2> HIDE DEF u
  <2> QED
    BY <2>1 DEF ViewType, NoPlan
<1>5. SetView(i, w)
  BY DEF LoadMissing
<1> HIDE DEF w, l
<1>6. \A q \in Runs : Armed(q)' <=> Armed(q)
  BY <1>1, <1>2 DEF Armed
<1>7. Ordered'
  <2>1. \A q \in Runs : w.ctl = q => Armed(q)'
    BY <1>1, <1>4, <1>6 DEF Ordered, HeldAreArmed
  <2>2. \A q \in Runs : run'[q].pc # "none" => run'[q].view <= current
    BY <1>1, <1>2 DEF Ordered, StartedBefore
  <2>3. /\ \A m \in 1..MaxOpens, q \in Runs : loads'[m].was = q => Armed(q)'
        /\ \A s \in Tasks, q \in Runs : bg'[s].run = q => Armed(q)'
    BY <1>1, <1>2, <1>3, <1>6 DEF Ordered, HeldAreArmed, Runs, NoRun
  <2>4. \A m \in 1..MaxOpens : loads'[m].view <= current /\ (m > opened' => loads'[m].pc = "none")
    BY <1>1, <1>2, <1>3, Parts DEF Ordered, LoadsBefore, IInv
  <2> QED
    BY <1>1, <1>4, <1>5, <1>6, <2>1, <2>2, <2>3, <2>4, StepOrdered
<1>8. ASSUME calm' PROVE AtHand'
  <2>1. AtHand
    BY <1>1, <1>8
  <2>2. /\ n = opened /\ i = current /\ Here.active = t /\ \A q \in Runs : ~Waiting(q)
        /\ \A m \in 1..MaxOpens \ {n} : ~LoadsOn(m)
    BY <1>1, <2>1, LoadHere DEF LoadsOn
  <2>3. Here' = w /\ u = Here
    BY <1>1, <1>5, <2>2, Parts DEF SetView, Here, IInv
  <2>4. \A q \in Runs : ~(Here.ctl = q /\ Going(q))
    BY <1>1, <2>1 DEF AtHand, LooksUpFirst, Controls
  <2>5. \A q \in Runs : /\ Going(q)' <=> Going(q)
                        /\ Waiting(q)' <=> q = r
                        /\ Engaged(q)' <=> q = r \/ Engaged(q)
    BY <1>1, <1>2, <2>2 DEF Going, Waiting, Engaged
  <2>6. \A q \in Runs : Engaged(q) => run[q].task # t /\ q # r
    BY <1>1, <2>1, <2>2 DEF AtHand, EngagedHaveRows, Engaged, Waiting, Going
  <2>7. \A q \in Runs : Going(q) => Engaged(q)
    BY DEF Engaged
  <2>8. \A m \in 1..MaxOpens : ~LoadsOn(m)'
    BY <1>2, <1>3, <2>2 DEF LoadsOn
  <2>9. InReach' /\ KeptUnderTask' /\ RemovalsAreLate' /\ ControlIsShown'
    BY <1>1, <1>2, <1>4, <2>1, <2>3, <2>4, <2>5, <2>6, <2>7 DEF AtHand, InReach, KeptUnderTask, RemovalsAreLate,
       ControlIsShown
  <2>10. OneLoad' /\ LooksUpFirst' /\ FoundIfGoing' /\ FoundIsOfTask'
    BY <2>8 DEF OneLoad, LooksUpFirst, FoundIfGoing, FoundIsOfTask, LoadsOn
  <2>11. WaitingIsActive'
    BY <1>1, <1>2, <1>4, <2>2, <2>3, <2>4, <2>5 DEF WaitingIsActive, Controls
  <2>12. TasksApart' /\ EngagedHaveRows'
    BY <1>1, <1>2, <2>1, <2>2, <2>5, <2>6 DEF AtHand, TasksApart, EngagedHaveRows
  <2>13. ActiveIsRoute'
    BY <1>1, <1>2, <1>3, <1>4, <2>1, <2>2, <2>3 DEF AtHand, ActiveIsRoute, Route
  <2>14. ActiveOnScreen' /\ ActiveHasRow'
    <3>1. Waiting(r)' /\ run'[r].pc = "early" /\ run'[r].kind \in FirstKinds
      BY <1>2, <2>5
    <3> QED
      BY <3>1 DEF ActiveOnScreen, ActiveHasRow
  <2>15. ActiveIsControlled'
    BY <1>2, <1>4, <2>2, <2>3, <2>5, <2>6, <2>7 DEF ActiveIsControlled
  <2> QED
    BY <2>9, <2>10, <2>11, <2>12, <2>13, <2>14, <2>15 DEF AtHand
<1> QED
  BY <1>7, <1>8

\* After its status: the view holds the run that was found, unless it is aborted.
LEMMA ContinuesKeepsReach ==
    ASSUME RInv, NEW n \in 1..opened, loads[n].pc = "status", NEW v \in ViewType, Continues(n, v),
           v.task = view[loads[n].view].task, v.ctl \in {loads[n].was, NoRun},
           \A q \in Runs : Going(q) /\ loads[n].was = q => v.ctl = q /\ bg'[loads[n].task] = bg[loads[n].task],
           v.ctl # NoRun => v.running,
           bg'[loads[n].task] \in {bg[loads[n].task], NoEntry},
           \A s \in Tasks \ {loads[n].task} : bg'[s] = bg[s] /\ removals'[s] = removals[s]
    PROVE  Ordered' /\ (calm' => AtHand')
<1> DEFINE i == loads[n].view
           t == loads[n].task
           f == status[loads[n].task] \in {"completed", "stopped"}
           w == [v EXCEPT !.active = t]
<1>1. /\ IInv /\ Ordered /\ (calm => AtHand) /\ n \in 1..MaxOpens /\ i \in 1..MaxViews /\ i <= current
      /\ t \in Tasks /\ UNCHANGED <<current, opened, run, status, calm>>
  BY Begun DEF RInv, Continues, storeVars, Ordered, LoadsBefore
<1>2. /\ loads'[n].view = i /\ loads'[n].task = t /\ loads'[n].pc = "rows" /\ loads'[n].was = loads[n].was
      /\ \A m \in 1..MaxOpens \ {n} : loads'[m] = loads[m]
  <2>1. loads' = [loads EXCEPT ![n].pc = "rows", ![n].final = f]
    BY DEF Continues
  <2> HIDE DEF f
  <2> QED
    BY <1>1, <2>1, Parts DEF IInv, LoadType
<1>3. w \in ViewType /\ w.ctl = v.ctl /\ w.task = v.task /\ w.active = t /\ w.running = v.running
  BY <1>1 DEF ViewType
<1>4. SetView(i, w)
  BY DEF Continues
<1> HIDE DEF w
<1>5. \A q \in Runs : Armed(q)' <=> Armed(q)
  BY <1>1 DEF Armed
<1>6. Ordered'
  <2>1. \A q \in Runs : w.ctl = q => Armed(q)'
    BY <1>1, <1>3, <1>5 DEF Ordered, HeldAreArmed, Runs, NoRun
  <2>2. \A q \in Runs : run'[q].pc # "none" => run'[q].view <= current
    BY <1>1 DEF Ordered, StartedBefore
  <2>3. \A m \in 1..MaxOpens, q \in Runs : loads'[m].was = q => Armed(q)'
    BY <1>1, <1>2, <1>5 DEF Ordered, HeldAreArmed
  <2>4. \A s \in Tasks, q \in Runs : bg'[s].run = q => Armed(q)'
    BY <1>1, <1>5 DEF Ordered, HeldAreArmed, NoEntry, Runs, NoRun
  <2>5. \A m \in 1..MaxOpens : loads'[m].view <= current /\ (m > opened' => loads'[m].pc = "none")
    BY <1>1, <1>2, Parts DEF Ordered, LoadsBefore, IInv
  <2> QED
    BY <1>1, <1>3, <1>4, <1>5, <2>1, <2>2, <2>3, <2>4, <2>5, StepOrdered
<1>7. ASSUME calm' PROVE AtHand'
  <2>1. AtHand
    BY <1>1, <1>7
  <2>2. /\ n = opened /\ i = current /\ Here.active = t /\ \A q \in Runs : ~Waiting(q)
        /\ \A m \in 1..MaxOpens \ {n} : ~LoadsOn(m)
    BY <1>1, <2>1, LoadHere DEF LoadsOn
  <2>3. Here' = w /\ Here.task = w.task
    BY <1>1, <1>3, <1>4, <2>2, Parts DEF SetView, Here, IInv
  <2>4. \A q \in Runs : ~(Here.ctl = q /\ Going(q))
    BY <1>1, <2>1 DEF AtHand, LooksUpFirst, Controls
  <2>5. \A q \in Runs : (Going(q)' <=> Going(q)) /\ (Waiting(q)' <=> Waiting(q)) /\ (Engaged(q)' <=> Engaged(q))
    BY <1>1 DEF Going, Waiting, Engaged
  <2>6. \A q \in Runs : Going(q) /\ run[q].task = t => Here'.ctl = q
    BY <1>1, <1>3, <2>1, <2>3 DEF AtHand, FoundIfGoing
  <2>7. \A q \in Runs : Here'.ctl = q /\ Going(q) => run[q].task = t /\ Here'.running
    BY <1>1, <1>3, <2>1, <2>3 DEF AtHand, FoundIsOfTask, Runs, NoRun
  <2>8. InReach'
    <3> SUFFICES ASSUME NEW q \in Runs, Going(q), Here'.ctl # q
                 PROVE  bg'[run[q].task] = [run |-> q, running |-> TRUE]
      BY <1>1, <2>5 DEF InReach
    <3>1. run[q].task \in Tasks \ {t}
      BY <1>1, <2>6 DEF IInv, AboutTasks, Going
    <3>2. bg[run[q].task] = [run |-> q, running |-> TRUE]
      BY <2>1, <2>4 DEF AtHand, InReach
    <3> QED
      BY <3>1, <3>2
  <2>9. KeptUnderTask'
    BY <1>1, <2>1, <2>5 DEF AtHand, KeptUnderTask, NoEntry
  <2>10. RemovalsAreLate'
    BY <1>1, <2>1, <2>4, <2>5, <2>6 DEF AtHand, RemovalsAreLate
  <2>11. ControlIsShown' /\ ActiveIsControlled'
    BY <1>1, <1>3, <2>3, <2>5, <2>6, <2>7 DEF ControlIsShown, ActiveIsControlled
  <2>12. OneLoad' /\ LooksUpFirst' /\ FoundIfGoing' /\ FoundIsOfTask'
    BY <1>1, <1>2, <2>2, <2>5 DEF OneLoad, LooksUpFirst, FoundIfGoing, FoundIsOfTask, LoadsOn
  <2>13. WaitingIsActive' /\ TasksApart' /\ EngagedHaveRows'
    BY <1>1, <2>1, <2>2, <2>5 DEF AtHand, WaitingIsActive, TasksApart, EngagedHaveRows
  <2>14. ActiveIsRoute'
    BY <1>1, <1>2, <1>3, <2>1, <2>2, <2>3 DEF AtHand, ActiveIsRoute, Route
  <2>15. LoadsOn(n)'
    BY <1>2 DEF LoadsOn
  <2>16. ActiveOnScreen'
    BY <1>1, <2>15 DEF ActiveOnScreen
  <2>17. ActiveHasRow'
    <3>1. status[t] # "none"
      BY <1>1, <2>1, <2>2, ShellAgentAssumption DEF AtHand, ActiveHasRow, LoadsOn
    <3> QED
      BY <1>1, <1>3, <2>3, <3>1 DEF ActiveHasRow
  <2> QED
    BY <2>8, <2>9, <2>10, <2>11, <2>12, <2>13, <2>14, <2>16, <2>17 DEF AtHand
<1> QED
  BY <1>6, <1>7

LEMMA LoadsKeepReach ==
    ASSUME RInv, NEW n \in 1..opened, StaysIdle(n) \/ FindsAborted(n) \/ Restores(n)
    PROVE  Ordered' /\ (calm' => AtHand')
<1> DEFINE i == loads[n].view
           t == loads[n].task
           v == view[i]
<1>1. IInv /\ n \in 1..MaxOpens /\ i \in 1..MaxViews /\ v \in ViewType /\ loads[n].pc = "status" /\ t \in Tasks
  BY Begun DEF RInv, StaysIdle, FindsAborted, Restores
<1>2. loads[n].was \in RunOrNone
  BY <1>1, Parts DEF IInv, LoadType
<1>3. CASE StaysIdle(n)
  <2> DEFINE w == [v EXCEPT !.running = FALSE, !.phase = "idle", !.ctl = NoRun, !.poll.task = NoTask]
  <2>1. Continues(n, w) /\ UNCHANGED bgVars /\ loads[n].was = NoRun
    BY <1>3 DEF StaysIdle
  <2> HIDE DEF v
  <2>2. w \in ViewType /\ w.task = v.task /\ w.ctl = NoRun
    BY <1>1 DEF ViewType
  <2> HIDE DEF w
  <2> QED
    BY <1>1, <2>1, <2>2, ContinuesKeepsReach DEF bgVars, Runs, NoRun, v
<1>4. CASE FindsAborted(n)
  <2> DEFINE w == [v EXCEPT !.running = FALSE, !.phase = "idle", !.ctl = NoRun]
  <2>1. Continues(n, w) /\ bg' = [bg EXCEPT ![t] = NoEntry] /\ UNCHANGED removals
        /\ run[loads[n].was].aborted
    BY <1>4 DEF FindsAborted
  <2> HIDE DEF v
  <2>2. w \in ViewType /\ w.task = v.task /\ w.ctl = NoRun
    BY <1>1 DEF ViewType
  <2> HIDE DEF w
  <2>3. bg'[t] = NoEntry /\ \A s \in Tasks \ {t} : bg'[s] = bg[s] /\ removals'[s] = removals[s]
    BY <1>1, <2>1, Parts DEF IInv, BgType
  <2>4. \A q \in Runs : ~(Going(q) /\ loads[n].was = q)
    BY <2>1 DEF Going
  <2> QED
    BY <1>1, <2>1, <2>2, <2>3, <2>4, ContinuesKeepsReach DEF v
<1>5. CASE Restores(n)
  <2> DEFINE w == [v EXCEPT !.running = TRUE, !.phase = "executing", !.ctl = loads[n].was, !.poll.task = t]
  <2>1. Continues(n, w) /\ UNCHANGED bg /\ removals' = [removals EXCEPT ![t] = @ + 1]
    BY <1>5 DEF Restores
  <2> HIDE DEF v, t
  <2>2. w \in ViewType /\ w.task = v.task /\ w.ctl = loads[n].was /\ w.running = TRUE
    BY <1>1, <1>2 DEF ViewType, RunOrNone
  <2> HIDE DEF w
  <2>3. \A s \in Tasks \ {t} : bg'[s] = bg[s] /\ removals'[s] = removals[s]
    BY <1>1, <2>1, Parts DEF IInv
  <2> QED
    BY <1>1, <2>1, <2>2, <2>3, ContinuesKeepsReach DEF v, t
<1> QED
  BY <1>3, <1>4, <1>5

\* The task that was loaded is on screen.
LEMMA LoadRowsKeepsReach == ASSUME RInv, NEW n \in 1..opened, LoadRows(n) PROVE Ordered' /\ (calm' => AtHand')
<1> DEFINE i == loads[n].view
           t == loads[n].task
           u == view[i]
           v == [u EXCEPT !.shown = {t}, !.task = t]
           x == [v EXCEPT !.plan = [of |-> t, steps |-> "pending"], !.phase = "awaiting_approval"]
           w == IF Waits(loads[n]) THEN x ELSE v
           l == [loads[n] EXCEPT !.pc = "over", !.was = NoRun, !.final = FALSE]
<1>1. /\ IInv /\ Ordered /\ (calm => AtHand) /\ n \in 1..MaxOpens /\ i \in 1..MaxViews /\ i <= current
      /\ t \in Tasks /\ loads[n].pc = "rows" /\ u \in ViewType
      /\ UNCHANGED <<current, opened, run, bg, removals, status, calm>>
  BY Begun DEF RInv, LoadRows, bgVars, storeVars, Ordered, LoadsBefore
<1>2. loads'[n] = l /\ \A m \in 1..MaxOpens \ {n} : loads'[m] = loads[m]
  <2>1. loads' = [loads EXCEPT ![n] = l]
    BY DEF LoadRows
  <2> HIDE DEF l
  <2> QED
    BY <1>1, <2>1, Parts DEF IInv
<1>3. l.view = i /\ l.task = t /\ l.pc = "over" /\ l.was = NoRun
  BY <1>1, Parts DEF IInv, LoadType
<1>4. SetView(i, w)
  BY DEF LoadRows
<1> HIDE DEF u, t, l
<1>5. v \in ViewType /\ v.ctl = u.ctl /\ v.task = t /\ v.active = u.active /\ v.running = u.running
  BY <1>1 DEF ViewType
<1> HIDE DEF v
<1>6. x \in ViewType /\ x.ctl = v.ctl /\ x.task = v.task /\ x.active = v.active /\ x.running = v.running
  BY <1>1, <1>5 DEF ViewType
<1> HIDE DEF x
<1>7. w \in ViewType /\ w.ctl = u.ctl /\ w.task = t /\ w.active = u.active /\ w.running = u.running
  BY <1>5, <1>6
<1> HIDE DEF w
<1>8. \A q \in Runs : Armed(q)' <=> Armed(q)
  BY <1>1 DEF Armed
<1>9. Ordered'
  <2>1. \A q \in Runs : w.ctl = q => Armed(q)'
    BY <1>1, <1>7, <1>8 DEF Ordered, HeldAreArmed, u
  <2>2. \A q \in Runs : run'[q].pc # "none" => run'[q].view <= current
    BY <1>1 DEF Ordered, StartedBefore
  <2>3. /\ \A m \in 1..MaxOpens, q \in Runs : loads'[m].was = q => Armed(q)'
        /\ \A s \in Tasks, q \in Runs : bg'[s].run = q => Armed(q)'
    BY <1>1, <1>2, <1>3, <1>8 DEF Ordered, HeldAreArmed, Runs, NoRun
  <2>4. \A m \in 1..MaxOpens : loads'[m].view <= current /\ (m > opened' => loads'[m].pc = "none")
    BY <1>1, <1>2, <1>3, Parts DEF Ordered, LoadsBefore, IInv
  <2> QED
    BY <1>1, <1>4, <1>7, <1>8, <2>1, <2>2, <2>3, <2>4, StepOrdered
<1>10. ASSUME calm' PROVE AtHand'
  <2>1. AtHand
    BY <1>1, <1>10
  <2>2. /\ n = opened /\ i = current /\ Here.active = t /\ \A q \in Runs : ~Waiting(q)
        /\ \A m \in 1..MaxOpens \ {n} : ~LoadsOn(m)
    BY <1>1, <2>1, LoadHere DEF LoadsOn, t
  <2>3. Here' = w /\ u = Here
    BY <1>1, <1>4, <2>2, Parts DEF SetView, Here, IInv, u
  <2>4. \A q \in Runs : (Going(q)' <=> Going(q)) /\ (Waiting(q)' <=> Waiting(q)) /\ (Engaged(q)' <=> Engaged(q))
    BY <1>1 DEF Going, Waiting, Engaged
  <2>5. \A m \in 1..MaxOpens : ~LoadsOn(m)' /\ loads[m].pc \notin {"meta", "status"}
    BY <1>1, <1>2, <1>3, <2>2 DEF LoadsOn
  <2>6. InReach' /\ KeptUnderTask' /\ RemovalsAreLate' /\ ControlIsShown' /\ TasksApart' /\ EngagedHaveRows'
        /\ WaitingIsActive'
    BY <1>1, <1>7, <2>1, <2>2, <2>3, <2>4 DEF AtHand, InReach, KeptUnderTask, RemovalsAreLate, ControlIsShown,
       TasksApart, EngagedHaveRows, WaitingIsActive
  <2>7. OneLoad' /\ LooksUpFirst' /\ FoundIfGoing' /\ FoundIsOfTask'
    BY <2>5 DEF OneLoad, LooksUpFirst, FoundIfGoing, FoundIsOfTask, LoadsOn
  <2>8. ActiveOnScreen'
    BY <1>7, <2>2, <2>3 DEF ActiveOnScreen
  <2>9. ActiveIsRoute'
    BY <1>1, <1>2, <1>3, <1>7, <2>1, <2>2, <2>3 DEF AtHand, ActiveIsRoute, Route, t
  <2>10. ActiveIsControlled' /\ ActiveHasRow'
    BY <1>1, <1>7, <2>1, <2>2, <2>3, <2>4, <2>5 DEF AtHand, ActiveIsControlled, ActiveHasRow
  <2> QED
    BY <2>6, <2>7, <2>8, <2>9, <2>10 DEF AtHand
<1> QED
  BY <1>9, <1>10

-----------------------------------------------------------------------------
(* Requests on their way.                                                  *)

LEMMA ClaimKeepsReach == ASSUME RInv, NEW r \in Runs, Claim(r) PROVE Ordered' /\ (calm' => AtHand')
<1> DEFINE i == run[r].view
           t == run[r].task
           w == [Own(r) EXCEPT !.task = t, !.active = t]
<1>1. /\ IInv /\ Ordered /\ (calm => AtHand) /\ i \in 1..MaxViews /\ i <= current /\ t \in Tasks
      /\ run[r].pc = "early" /\ Own(r) \in ViewType
      /\ UNCHANGED <<current, opened, loads, bg, removals, status, calm>>
  BY Owned DEF RInv, IInv, AboutTasks, Claim, bgVars, storeVars, Ordered, StartedBefore
<1>2. /\ run'[r].pc = "claimed" /\ run'[r].task = t /\ run'[r].view = i /\ run'[r].kind = run[r].kind
      /\ \A q \in Runs \ {r} : run'[q] = run[q]
  BY <1>1, Parts DEF IInv, Claim, Goto, RunType
<1>3. w \in ViewType /\ w.ctl = Own(r).ctl /\ w.task = t /\ w.active = t /\ w.running = Own(r).running
  BY <1>1 DEF ViewType
<1>4. SetView(i, w)
  BY DEF Claim, Show
<1> HIDE DEF w
<1>5. \A q \in Runs : Armed(q)' <=> Armed(q)
  BY <1>1, <1>2 DEF Armed
<1>6. Ordered'
  <2>1. \A q \in Runs : w.ctl = q => Armed(q)'
    BY <1>1, <1>3, <1>5 DEF Ordered, HeldAreArmed, Own
  <2>2. \A q \in Runs : run'[q].pc # "none" => run'[q].view <= current
    BY <1>1, <1>2 DEF Ordered, StartedBefore
  <2>3. /\ \A m \in 1..MaxOpens, q \in Runs : loads'[m].was = q => Armed(q)'
        /\ \A s \in Tasks, q \in Runs : bg'[s].run = q => Armed(q)'
    BY <1>1, <1>5 DEF Ordered, HeldAreArmed
  <2>4. \A m \in 1..MaxOpens : loads'[m].view <= current /\ (m > opened' => loads'[m].pc = "none")
    BY <1>1 DEF Ordered, LoadsBefore
  <2> QED
    BY <1>1, <1>3, <1>4, <1>5, <2>1, <2>2, <2>3, <2>4, StepOrdered
<1>7. ASSUME calm' PROVE AtHand'
  <2>1. AtHand /\ Waiting(r)
    BY <1>1, <1>7 DEF Waiting
  <2>2. i = current /\ t = Here.active /\ ~Controls /\ run[r].kind \in FirstKinds
    BY <1>1, <2>1 DEF AtHand, WaitingIsActive
  <2>3. Here' = w /\ Own(r) = Here
    BY <1>1, <1>4, <2>2, Parts DEF SetView, Here, Own, IInv
  <2>4. \A q \in Runs : (Going(q)' <=> Going(q)) /\ (Waiting(q)' <=> Waiting(q)) /\ (Engaged(q)' <=> Engaged(q))
    BY <1>1, <1>2 DEF Going, Waiting, Engaged
  <2>5. \A q \in Runs : /\ run'[q].task = run[q].task /\ run'[q].view = run[q].view
                        /\ run'[q].kind = run[q].kind /\ (run'[q].pc # run[q].pc => q = r)
    BY <1>2
  <2>6. Here'.ctl = Here.ctl /\ Here'.active = Here.active /\ Here'.running = Here.running
        /\ Here'.task = Here'.active
    BY <1>3, <2>2, <2>3
  <2>7. InReach' /\ KeptUnderTask' /\ RemovalsAreLate' /\ ControlIsShown' /\ TasksApart' /\ EngagedHaveRows'
    BY <1>1, <2>1, <2>4, <2>5, <2>6 DEF AtHand, InReach, KeptUnderTask, RemovalsAreLate, ControlIsShown,
       TasksApart, EngagedHaveRows
  <2>8. WaitingIsActive'
    <3>1. ~Controls'
      BY <2>2, <2>4, <2>6 DEF Controls
    <3> QED
      BY <1>1, <2>1, <2>2, <2>4, <2>5, <2>6, <3>1 DEF AtHand, WaitingIsActive
  <2>9. OneLoad' /\ LooksUpFirst' /\ FoundIfGoing' /\ FoundIsOfTask'
    BY <1>1, <2>1, <2>4, <2>5, <2>6 DEF AtHand, OneLoad, LooksUpFirst, FoundIfGoing, FoundIsOfTask, LoadsOn, Controls
  <2>10. ActiveIsRoute' /\ ActiveOnScreen'
    BY <1>1, <2>1, <2>6 DEF AtHand, ActiveIsRoute, Route, ActiveOnScreen
  <2>11. ActiveIsControlled' /\ ActiveHasRow'
    BY <1>1, <2>1, <2>4, <2>5, <2>6 DEF AtHand, ActiveIsControlled, ActiveHasRow
  <2> QED
    BY <2>7, <2>8, <2>9, <2>10, <2>11 DEF AtHand
<1> QED
  BY <1>6, <1>7

\* A request takes the controller of its view, which shows it as running, and
\* its task has a row by then.
LEMMA ArmKeepsReach ==
    ASSUME RInv, NEW r \in Runs, run[r].pc = "claimed", Goto(r, "open"),
           NEW w \in ViewType, Show(r, w), w.task = Own(r).task, w.active = Own(r).active, w.ctl = r,
           w.running = Own(r).running \/ w.running = TRUE,
           run[r].kind \in {"talk", "quick"} => w.running,
           UNCHANGED <<current, loads, opened, bgVars, calm>>, RowsStay,
           run[r].kind \in FirstKinds => status'[run[r].task] # "none"
    PROVE  Ordered' /\ (calm' => AtHand')
<1> DEFINE i == run[r].view
           t == run[r].task
<1>1. /\ IInv /\ Ordered /\ (calm => AtHand) /\ i \in 1..MaxViews /\ i <= current /\ t \in Tasks
      /\ UNCHANGED <<current, opened, loads, bg, removals, calm>> /\ SetView(i, w)
  BY Owned DEF RInv, IInv, AboutTasks, bgVars, Ordered, StartedBefore, Show
<1>2. /\ run'[r].pc = "open" /\ run'[r].task = t /\ run'[r].view = i /\ run'[r].kind = run[r].kind
      /\ run'[r].aborted = run[r].aborted /\ \A q \in Runs \ {r} : run'[q] = run[q]
  BY <1>1, Parts DEF IInv, Goto, RunType
<1>3. \A q \in Runs : /\ Armed(q)' <=> Armed(q) \/ q = r
                      /\ Armed(q) => q # r
  BY <1>2 DEF Armed
<1>4. Ordered'
  <2>1. \A q \in Runs : w.ctl = q => Armed(q)'
    BY <1>3
  <2>2. \A q \in Runs : run'[q].pc # "none" => run'[q].view <= current
    BY <1>1, <1>2 DEF Ordered, StartedBefore
  <2>3. /\ \A m \in 1..MaxOpens, q \in Runs : loads'[m].was = q => Armed(q)'
        /\ \A s \in Tasks, q \in Runs : bg'[s].run = q => Armed(q)'
    BY <1>1, <1>3 DEF Ordered, HeldAreArmed
  <2>4. \A m \in 1..MaxOpens : loads'[m].view <= current /\ (m > opened' => loads'[m].pc = "none")
    BY <1>1 DEF Ordered, LoadsBefore
  <2> QED
    BY <1>1, <1>3, <2>1, <2>2, <2>3, <2>4, StepOrdered
<1>5. ASSUME calm' PROVE AtHand'
  <2>1. AtHand /\ Waiting(r)
    BY <1>1, <1>5 DEF Waiting
  <2>2. /\ i = current /\ t = Here.active /\ ~Controls
        /\ run[r].kind \notin {"talk", "quick"} => Here.running
        /\ run[r].kind \notin FirstKinds => status[t] # "none"
    BY <2>1 DEF AtHand, WaitingIsActive
  <2>3. Here' = w /\ Own(r) = Here
    BY <1>1, <2>2, Parts DEF SetView, Here, Own, IInv
  <2>4. Here'.ctl = r /\ Here'.active = t /\ Here'.running /\ Here'.task = Here.task
    BY <2>2, <2>3
  <2>5. \A m \in 1..MaxOpens : ~LoadsOn(m)
    BY <2>1 DEF AtHand, OneLoad
  <2>6. \A q \in Runs : /\ Going(q)' => Going(q) \/ q = r
                        /\ Waiting(q)' <=> Waiting(q) /\ q # r
                        /\ Engaged(q)' <=> Engaged(q)
                        /\ run'[q].task = run[q].task
    BY <1>1, <1>2, <2>1, <2>2 DEF Going, Waiting, Engaged
  <2>7. \A q \in Runs \ {r} : Engaged(q) => run[q].task # t
    BY <2>1 DEF AtHand, TasksApart, Engaged
  <2>8. \A q \in Runs \ {r} : ~Waiting(q)
    BY <2>1, <2>2, <2>7 DEF AtHand, WaitingIsActive, Engaged
  <2>9. \A q \in Runs : Going(q) => Here.ctl # q /\ q # r
    BY <2>1, <2>2 DEF Controls, Going, Waiting
  <2>10. InReach'
    BY <1>1, <2>1, <2>4, <2>6, <2>9 DEF AtHand, InReach
  <2>11. KeptUnderTask'
    BY <1>1, <1>3, <2>1, <2>6 DEF AtHand, KeptUnderTask, Ordered, HeldAreArmed
  <2>12. RemovalsAreLate' /\ ControlIsShown' /\ TasksApart'
    BY <1>1, <2>1, <2>4, <2>6, <2>9 DEF AtHand, RemovalsAreLate, ControlIsShown, TasksApart
  <2>13. status'[t] # "none"
    BY <1>1, <2>2 DEF RowsStay
  <2>14. EngagedHaveRows'
    <3> SUFFICES ASSUME NEW q \in Runs, Engaged(q), q # r PROVE status'[run[q].task] # "none"
      BY <2>6, <2>13 DEF EngagedHaveRows
    <3>1. ~Waiting(q) /\ run[q].task \in Tasks
      BY <1>1, <2>8 DEF IInv, AboutTasks, Engaged, Going
    <3> QED
      BY <2>1, <3>1 DEF AtHand, EngagedHaveRows, RowsStay
  <2>15. WaitingIsActive'
    BY <2>6, <2>8 DEF WaitingIsActive
  <2>16. OneLoad' /\ LooksUpFirst' /\ FoundIfGoing' /\ FoundIsOfTask'
    BY <1>1, <2>5 DEF OneLoad, LooksUpFirst, FoundIfGoing, FoundIsOfTask, LoadsOn
  <2>17. ActiveIsRoute'
    BY <1>1, <2>1, <2>2, <2>4 DEF AtHand, ActiveIsRoute, Route
  <2>18. ActiveOnScreen'
    <3>1. \A q \in Runs : run[q].pc # "early"
      BY <2>8 DEF Waiting
    <3> QED
      BY <2>1, <2>2, <2>4, <2>5, <3>1 DEF AtHand, ActiveOnScreen
  <2>19. ActiveIsControlled' /\ ActiveHasRow'
    BY <2>4, <2>6, <2>7, <2>13 DEF ActiveIsControlled, ActiveHasRow, Engaged
  <2> QED
    BY <2>10, <2>11, <2>12, <2>14, <2>15, <2>16, <2>17, <2>18, <2>19 DEF AtHand
<1> QED
  BY <1>4, <1>5

LEMMA ArmsKeepReach ==
    ASSUME RInv, NEW r \in Runs, ArmFirst(r) \/ ArmExec(r) \/ ArmReply(r)
    PROVE  Ordered' /\ (calm' => AtHand')
<1>1. /\ IInv /\ Own(r) \in ViewType /\ run[r].pc = "claimed" /\ run[r].task \in Tasks /\ Goto(r, "open")
      /\ UNCHANGED <<current, loads, opened, bgVars, calm>>
  BY Owned DEF RInv, IInv, AboutTasks, ArmFirst, ArmExec, ArmReply, storeVars
<1>2. CASE ArmFirst(r)
  <2> DEFINE v == [Own(r) EXCEPT !.ctl = r]
             x == [Own(r) EXCEPT !.ctl = r, !.phase = "executing"]
             w == IF run[r].kind = "plan" THEN v ELSE x
  <2>1. v \in ViewType /\ v.ctl = r /\ v.task = Own(r).task /\ v.active = Own(r).active /\ v.running = Own(r).running
    BY <1>1 DEF ViewType
  <2>2. x \in ViewType /\ x.ctl = r /\ x.task = Own(r).task /\ x.active = Own(r).active /\ x.running = Own(r).running
    BY <1>1 DEF ViewType
  <2>3. Show(r, w) /\ run[r].kind \in FirstKinds
    BY <1>2 DEF ArmFirst
  <2> HIDE DEF v, x
  <2>4. RowsStay /\ status'[run[r].task] # "none"
    BY <1>1, <1>2, Parts DEF ArmFirst, RowsStay, IInv, StatusType
  <2>5. run[r].kind \notin {"talk", "quick"}
    BY <2>3 DEF FirstKinds
  <2> HIDE DEF w
  <2>6. w \in ViewType /\ w.ctl = r /\ w.task = Own(r).task /\ w.active = Own(r).active /\ w.running = Own(r).running
    BY <2>1, <2>2 DEF w
  <2> QED
    BY <1>1, <2>3, <2>4, <2>5, <2>6, ArmKeepsReach
<1>3. CASE ArmExec(r)
  <2> DEFINE v == [Own(r) EXCEPT !.ctl = r]
  <2>1. v \in ViewType /\ v.ctl = r /\ v.task = Own(r).task /\ v.active = Own(r).active /\ v.running = Own(r).running
    BY <1>1 DEF ViewType
  <2>2. Show(r, v) /\ RowsStay /\ run[r].kind = "exec"
    BY <1>3 DEF ArmExec, RowsStay
  <2> HIDE DEF v
  <2> QED
    BY <1>1, <2>1, <2>2, ArmKeepsReach DEF FirstKinds
<1>4. CASE ArmReply(r)
  <2> DEFINE p == IF run[r].kind = "quick" THEN "executing" ELSE Own(r).phase
             v == [Own(r) EXCEPT !.ctl = r, !.running = TRUE, !.phase = p]
  <2>1. v \in ViewType /\ v.ctl = r /\ v.task = Own(r).task /\ v.active = Own(r).active /\ v.running = TRUE
    BY <1>1 DEF ViewType
  <2>2. Show(r, v) /\ RowsStay /\ run[r].kind \in {"talk", "quick"}
    BY <1>4 DEF ArmReply, RowsStay, storeVars
  <2> HIDE DEF v
  <2> QED
    BY <1>1, <2>1, <2>2, ArmKeepsReach DEF FirstKinds
<1> QED
  BY <1>2, <1>3, <1>4

\* Every step keeps what is under way in order, and at hand while calm holds.
LEMMA ReachInvariance == Spec => []RInv
<1>1. ASSUME Init, IInv PROVE RInv
  <2>1. Ordered
    BY <1>1, ShellAgentAssumption DEF Init, Ordered, NotYetMounted, StartedBefore, LoadsBefore, HeldAreArmed, Blank,
       NoRequest, NoLoad, NoEntry, Runs, NoRun
  <2>2. /\ Here = Blank /\ \A r \in Runs : run[r].pc = "none"
        /\ \A n \in 1..MaxOpens : loads[n].pc = "none"
        /\ \A t \in Tasks : bg[t] = NoEntry /\ removals[t] = 0
    BY <1>1, ShellAgentAssumption DEF Init, Here, NoRequest, NoLoad
  <2>3. \A r \in Runs : ~Going(r) /\ ~Waiting(r) /\ ~Engaged(r)
    BY <2>2 DEF Going, Waiting, Engaged
  <2>4. /\ InReach /\ OneLoad /\ WaitingIsActive /\ TasksApart /\ ControlIsShown /\ LooksUpFirst
        /\ RemovalsAreLate /\ ActiveIsControlled /\ FoundIfGoing /\ EngagedHaveRows
        /\ KeptUnderTask /\ FoundIsOfTask
    BY <2>2, <2>3 DEF InReach, OneLoad, WaitingIsActive, TasksApart, ControlIsShown, LooksUpFirst,
       RemovalsAreLate, ActiveIsControlled, FoundIfGoing, EngagedHaveRows, KeptUnderTask, FoundIsOfTask, LoadsOn
  <2>5. ActiveIsRoute /\ ActiveOnScreen /\ ActiveHasRow
    BY <1>1, <2>2 DEF Init, ActiveIsRoute, Route, ActiveOnScreen, ActiveHasRow, Blank
  <2> QED
    BY <1>1, <2>1, <2>4, <2>5 DEF RInv, AtHand
<1>2. ASSUME RInv, IInv', [Next]_vars PROVE RInv'
  <2> SUFFICES ASSUME ~Ebbs, ~(Ordered' /\ (calm' => AtHand')) PROVE FALSE
    BY <1>2, EbbsKeep DEF RInv
  <2>1. IInv /\ Ordered
    BY <1>2 DEF RInv
  <2>2. ~User
    BY <1>2, <2>1, UserEbbs, OpenKeepsReach, LeaveKeepsReach, AsksKeepReach DEF User
  <2>3. \A n \in 1..opened : ~Load(n)
    BY <1>2, LoadFoundKeepsReach, LoadMissingKeepsReach, LoadsKeepReach, LoadRowsKeepsReach DEF Load
  <2>4. \A r \in Runs : ~Event(r)
    BY <2>1, EventEbbs, EndEbbs DEF Event
  <2>5. \A r \in Runs : ~Proceed(r)
    BY <1>2, <2>1, EndEbbs, ReloadEbbs, ClaimKeepsReach, ArmsKeepReach DEF Proceed
  <2>6. /\ \A t \in Tasks : ~RemoveLater(t)
        /\ \A i \in 1..MaxViews : ~(StopEnds(i) \/ PollTick(i) \/ PollSees(i) \/ PollGivesUp(i))
    BY <2>1, RemoveLaterEbbs, StopEndsEbbs, PollEbbs
  <2>7. ~UNCHANGED vars
    <3>1. ASSUME UNCHANGED vars PROVE Ebbs
      <4>1. /\ UNCHANGED <<view, current, opened, loads, bgVars, calm>> /\ RunsEbb /\ RowsStay
        BY <3>1 DEF vars, pageVars, bgVars, storeVars, RunsEbb, RowsStay
      <4> QED
        BY <2>1, <4>1, StillEbbs
    <3> QED
      BY <3>1
  <2> QED
    BY <1>2, <2>2, <2>3, <2>4, <2>5, <2>6, <2>7 DEF Next
<1> QED
  BY <1>1, <1>2, Invariance, PTL DEF Spec

\* A live run can be stopped, for any number of tasks, requests, openings and
\* pages: as long as calm holds, the mounted view or the registry has its
\* controller (abortControllerRef in useAgent.ts, background-tasks.ts).
THEOREM RunsReachable == Spec => []RunsStayInReach
<1>1. RInv => RunsStayInReach
  BY DEF RInv, AtHand, InReach, RunsStayInReach, Going, Here
<1> QED
  BY <1>1, ReachInvariance, PTL
=============================================================================
