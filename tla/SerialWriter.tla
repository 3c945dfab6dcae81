---------------------------- MODULE SerialWriter ----------------------------
(***************************************************************************)
(* What DatabasePool promises to the callers of write, execute and         *)
(* execute_transaction, whatever its queue, its condition variables and    *)
(* its group commit do: admitted jobs form one line, they are answered one *)
(* at a time in the order of admission, each exactly once, and a job in    *)
(* the line is eventually answered.                                        *)
(***************************************************************************)
EXTENDS Sequences, FiniteSets

CONSTANT Threads    \* the threads that call into the pool

VARIABLES line,     \* admitted jobs not answered yet, oldest first
          answered  \* threads whose answer is sent but not yet received

vars == <<line, answered>>

InLine == {line[i] : i \in DOMAIN line}

Init == line = <<>> /\ answered = {}

\* A thread has one job in the pool at a time: write_internal blocks in recv.
Admit(t) ==
    /\ t \notin InLine \union answered
    /\ line' = Append(line, t)
    /\ UNCHANGED answered

Answer ==
    /\ line # <<>>
    /\ line' = Tail(line)
    /\ answered' = answered \union {Head(line)}

Receive(t) ==
    /\ t \in answered
    /\ answered' = answered \ {t}
    /\ UNCHANGED line

Next == Answer \/ \E t \in Threads : Admit(t) \/ Receive(t)

Fairness == WF_vars(Answer) /\ \A t \in Threads : WF_vars(Receive(t))

Safety == Init /\ [][Next]_vars

Spec == Safety /\ Fairness

=============================================================================
