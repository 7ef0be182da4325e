------------------------------ MODULE EpochLog ------------------------------
(***************************************************************************)
(* What the audit log promises: a chain of logs, one for each epoch.  Only *)
(* the last one is written to, an entry is noted once, and the hash of a   *)
(* log is recorded once and only when nothing is written to that log any   *)
(* more.  Nothing is taken out of a log, unless it ended in the second in  *)
(* which another one ended: such a log may vanish, but only as a whole.    *)
(***************************************************************************)
EXTENDS Naturals

CONSTANTS
    Entries,    \* what may be logged
    Epochs      \* numbers of logs, from 1

VARIABLES
    logs,       \* of each epoch: its entries, and the epochs whose hash it records
    last,       \* the epoch of the log in use
    when        \* the second in which each log ended, or 0

Empty == [entries |-> {}, hashes |-> {}]

Init ==
    /\ logs = [e \in Epochs |-> Empty]
    /\ last = 1
    /\ when = [e \in Epochs |-> 0]

\* Another log ended in the second in which this one did.
Shared(e) == when[e] # 0 /\ \E f \in Epochs \ {e} : when[f] = when[e]

Note(x) ==
    /\ \A e \in Epochs : x \notin logs[e].entries
    /\ logs' = [logs EXCEPT ![last].entries = @ \cup {x}]
    /\ UNCHANGED <<last, when>>

Record(h) ==
    /\ h < last
    /\ Shared(h) \/ \A e \in Epochs : h \notin logs[e].hashes
    /\ logs' = [logs EXCEPT ![last].hashes = @ \cup {h}]
    /\ UNCHANGED <<last, when>>

Lose(e) ==
    /\ Shared(e)
    /\ logs' = [logs EXCEPT ![e] = Empty]
    /\ UNCHANGED <<last, when>>

\* The log in use ends in this second, and the next one is used; one that
\* ended in the same second may vanish.
End(s) ==
    /\ last + 1 \in Epochs
    /\ s # 0
    /\ last' = last + 1
    /\ when' = [when EXCEPT ![last] = s]
    /\ \/ UNCHANGED logs
       \/ \E e \in Epochs : when[e] = s /\ logs' = [logs EXCEPT ![e] = Empty]

Next ==
    \/ \E x \in Entries : Note(x)
    \/ \E e \in Epochs : Record(e) \/ Lose(e) \/ End(e)

vars == <<logs, last, when>>

Spec == Init /\ [][Next]_vars
=============================================================================
