----------------------------- MODULE AtomicJobs -----------------------------
(***************************************************************************)
(* What execute and execute_transaction promise for one logical job,       *)
(* whichever jobs shared its physical transaction: the job becomes durable *)
(* as a whole or not at all; success is reported only for a durable job,   *)
(* failure only for one that is not and never will be; a crash before the  *)
(* answer leaves either outcome.                                           *)
(***************************************************************************)
CONSTANT Jobs

VARIABLES durable,  \* jobs whose effects survive a crash
          answer    \* "none", "ok", "err", or "lost" with the caller in a crash

vars == <<durable, answer>>

Init == durable = {} /\ answer = [j \in Jobs |-> "none"]

\* One physical commit makes any number of unanswered jobs durable.
Commit(S) ==
    /\ S # {} /\ \A j \in S : j \notin durable /\ answer[j] = "none"
    /\ durable' = durable \union S
    /\ UNCHANGED answer

Reply(j) ==
    /\ answer[j] = "none"
    /\ answer' = [answer EXCEPT ![j] = IF j \in durable THEN "ok" ELSE "err"]
    /\ UNCHANGED durable

Lose(S) ==
    /\ S # {} /\ \A j \in S : answer[j] = "none"
    /\ answer' = [j \in Jobs |-> IF j \in S THEN "lost" ELSE answer[j]]
    /\ UNCHANGED durable

Next ==
    \/ \E S \in SUBSET Jobs : Commit(S) \/ Lose(S)
    \/ \E j \in Jobs : Reply(j)

Spec == Init /\ [][Next]_vars

=============================================================================
