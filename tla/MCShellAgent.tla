---------------------------- MODULE MCShellAgent ----------------------------
(***************************************************************************)
(* ShellAgent for TLC, in three scenes that bound what the user does and   *)
(* what the streams bring, never what the program does next:               *)
(*   tour    three openings of two tasks, one of them old, in one page;    *)
(*           two runs, which plan and execute without tool calls; the user *)
(*           does nothing more once calm is lost                           *)
(*   return  two openings around an unmounted page; two runs               *)
(*   talk    three openings, one run of any kind                           *)
(***************************************************************************)
EXTENDS ShellAgent

CONSTANTS t1, t2

VARIABLE scene

MCTasks == {t1, t2}

Patient == ~calm => /\ opened' = opened
                    /\ \A r \in Runs : run[r].pc = "none" => run'[r].pc = "none"

Bound == CASE scene = "tour"   -> /\ current = 1
                                  /\ ~view[1].perm /\ view[1].stopping = NoTask
                                  /\ \A r \in Runs : run[r].kind \in {"plan", "exec"}
           [] scene = "return" -> /\ opened <= 2
                                  /\ \A r \in Runs : run[r].kind \in {"plan", "exec"}
           [] scene = "talk"   -> /\ current = 1
                                  /\ \A r \in Runs : r > 1 => run[r].pc = "none"

MCInit == /\ Init /\ scene \in {"tour", "return", "talk"}
          /\ status[t1] = "none"
          /\ status[t2] = IF scene = "return" THEN "none" ELSE "completed"
MCNext == Next /\ scene' = scene /\ Bound' /\ (scene = "tour" => Patient)
MCSpec == MCInit /\ [][MCNext]_<<vars, scene>> /\ Fairness
=============================================================================
