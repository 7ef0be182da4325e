------------------------------ MODULE Registry -----------------------------
(***************************************************************************)
(* AdaptiveRegistry (koot/core/bus/registry.py): plugins in processes of   *)
(* their own, the pipes to them, and the threads that dispatch to them.    *)
(*                                                                         *)
(* A pipe is a queue of messages each way; encryption is left out, since   *)
(* every pipe has a key of its own and nothing else writes to it.  dispatch*)
(* sends and receives without a lock and does not look at which answer it  *)
(* received.  A process serves the pipe it was started with for as long as *)
(* it lives, mounted or not.                                               *)
(*                                                                         *)
(* A message is one write, as multiprocessing makes it up to 16 KiB, and   *)
(* two reads: Connection.recv takes the length, then as many bytes.  If    *)
(* another reader comes between, or none comes for the bytes, whatever is  *)
(* read from then on is no message: recv raises, or waits for bytes that   *)
(* nobody sends.                                                           *)
(***************************************************************************)
EXTENDS Naturals, Sequences, FiniteSets

CONSTANTS
    Names,          \* names that plugins are mounted under
    MaxProcesses,   \* bound: processes started
    Threads,        \* threads that dispatch
    MaxCalls        \* bound: calls of dispatch

ASSUME RegistryAssumption ==
    MaxProcesses \in Nat /\ MaxCalls \in Nat /\ IsFiniteSet(Names)

Processes == 1..MaxProcesses
None == 0           \* no process

Shutdown == 0       \* the message {"action": "SHUTDOWN"}; calls are numbered from 1

VARIABLES
    plugins,    \* the process each name stands for
    state,      \* of each process: "new", "up" or "down"
    requests,   \* messages to each process
    answers,    \* messages from it
    call,       \* what each thread dispatched last
    calls,      \* how many were
    closing,    \* shutdown_all: "no", "next", "join", "done", "raised"
    left,       \* the names its loop has still to come to
    joining,    \* the process it waits for
    size,       \* how many plugins there were when the loop began
    signalled,  \* processes that were sent SIGTERM
    torn,       \* pipes with a message that was read in part
    \* history, in no variable of the code
    mixed,      \* processes with overlapping or interrupted calls
    owed        \* processes that shutdown_all found mounted, and that still are

pipes == <<requests, answers>>
calling == <<call, calls, mixed, torn>>
ending == <<closing, left, joining, size, signalled>>
vars == <<plugins, state, pipes, calling, ending, owed>>

Mounted == {n \in Names : plugins[n] # None}
Idle == [st |-> "idle", p |-> None, id |-> 0, got |-> 0]
\* In recv: before the length of a message, or between it and the rest.
Waiting(t) == call[t].st \in {"waiting", "reading"}
Reading(p) == {t \in Threads : call[t].st = "reading" /\ call[t].p = p}

-----------------------------------------------------------------------------
\* mount_plugin, of a new name or over the process that had it before.
Mount(n, p) ==
    /\ state[p] = "new" /\ \A q \in 1..(p - 1) : state[q] # "new"
    /\ state' = [state EXCEPT ![p] = "up"]
    /\ plugins' = [plugins EXCEPT ![n] = p]
    /\ owed' = owed \ {plugins[n]}
    /\ UNCHANGED <<pipes, calling, ending>>

\* dispatch, up to the message: an unknown name or a broken pipe raises.
Send(t, n) ==
    LET p == plugins[n] IN
    /\ ~Waiting(t) /\ calls < MaxCalls
    /\ p # None /\ state[p] = "up"
    /\ calls' = calls + 1
    /\ requests' = [requests EXCEPT ![p] = Append(@, calls')]
    /\ call' = [call EXCEPT ![t] = [st |-> "waiting", p |-> p, id |-> calls', got |-> 0]]
    /\ mixed' = IF \E u \in Threads : Waiting(u) /\ call[u].p = p THEN mixed \union {p} ELSE mixed
    /\ UNCHANGED <<plugins, state, answers, torn, ending, owed>>

\* What is left in the pipe of p is no message any more.
Tear(p) == torn' = torn \union {p} /\ answers' = [answers EXCEPT ![p] = <<>>]

\* The length: of the first answer in the pipe, whosever it is, unless another
\* thread has just read it, and the length is taken from the bytes of the answer.
ReadHeader(t) ==
    LET p == call[t].p IN
    /\ call[t].st = "waiting" /\ answers[p] # <<>>
    /\ call' = [call EXCEPT ![t].st = "reading"]
    /\ IF Reading(p) = {} THEN UNCHANGED <<torn, answers>> ELSE Tear(p)
    /\ UNCHANGED <<plugins, state, requests, calls, mixed, ending, owed>>

\* The bytes.
ReadBody(t) ==
    LET p == call[t].p IN
    /\ call[t].st = "reading" /\ p \notin torn /\ answers[p] # <<>>
    /\ call' = [call EXCEPT ![t].st = "returned", ![t].got = Head(answers[p])]
    /\ answers' = [answers EXCEPT ![p] = Tail(@)]
    /\ UNCHANGED <<plugins, state, requests, calls, mixed, torn, ending, owed>>

\* Bytes that are no message, if there are enough of them: recv raises.
Garbled(t) ==
    /\ Waiting(t) /\ call[t].p \in torn
    /\ call' = [call EXCEPT ![t] = Idle]
    /\ UNCHANGED <<plugins, state, pipes, calls, mixed, torn, ending, owed>>

\* The process is gone and has left no answer: recv raises.
ReceiveEnd(t) ==
    /\ Waiting(t) /\ answers[call[t].p] = <<>> /\ state[call[t].p] = "down"
    /\ call' = [call EXCEPT ![t] = Idle]
    /\ UNCHANGED <<plugins, state, pipes, calls, mixed, torn, ending, owed>>

\* KeyboardInterrupt, or the like, in recv.
Interrupt(t) ==
    LET p == call[t].p IN
    /\ Waiting(t)
    /\ call' = [call EXCEPT ![t] = Idle]
    /\ mixed' = mixed \union {p}
    /\ IF call[t].st = "reading" THEN Tear(p) ELSE UNCHANGED <<torn, answers>>
    /\ UNCHANGED <<plugins, state, requests, calls, ending, owed>>

-----------------------------------------------------------------------------
\* What a process has not read is lost with it; what it answered is not.
End(p) ==
    /\ state' = [state EXCEPT ![p] = "down"]
    /\ requests' = [requests EXCEPT ![p] = <<>>]

\* Faulty variants: an answer is sent twice; a function that raises is not
\* answered.
ServeTwice(p) ==
    /\ state[p] = "up" /\ requests[p] # <<>>
    /\ IF Head(requests[p]) = Shutdown
       THEN End(p) /\ UNCHANGED answers
       ELSE /\ requests' = [requests EXCEPT ![p] = Tail(@)]
            /\ answers' = [answers EXCEPT ![p] = @ \o <<Head(requests[p]), Head(requests[p])>>]
            /\ UNCHANGED state
    /\ UNCHANGED <<plugins, calling, ending, owed>>

ServeSilently(p) ==
    /\ state[p] = "up" /\ requests[p] # <<>>
    /\ IF Head(requests[p]) = Shutdown
       THEN End(p)
       ELSE requests' = [requests EXCEPT ![p] = Tail(@)] /\ UNCHANGED state
    /\ UNCHANGED <<plugins, answers, calling, ending, owed>>

\* _actor_loop: a function that returns or raises is answered either way.  On a
\* torn pipe the answer is bytes among others.
Serve(p) ==
    /\ state[p] = "up" /\ requests[p] # <<>>
    /\ IF Head(requests[p]) = Shutdown
       THEN End(p) /\ UNCHANGED answers
       ELSE /\ requests' = [requests EXCEPT ![p] = Tail(@)]
            /\ answers' = IF p \in torn THEN answers
                          ELSE [answers EXCEPT ![p] = Append(@, Head(requests[p]))]
            /\ UNCHANGED state
    /\ UNCHANGED <<plugins, calling, ending, owed>>

\* SIGTERM, whose default no plugin changes, takes its time.
Terminate(p) ==
    /\ p \in signalled /\ state[p] = "up"
    /\ End(p)
    /\ UNCHANGED <<plugins, answers, calling, ending, owed>>

\* A plugin that exits, or crashes below Python.
Die(p) ==
    /\ state[p] = "up"
    /\ End(p)
    /\ UNCHANGED <<plugins, answers, calling, ending, owed>>

-----------------------------------------------------------------------------
\* shutdown_all
ShutdownBegin ==
    /\ closing = "no"        \* bound: one shutdown
    /\ closing' = "next" /\ left' = Mounted /\ size' = Cardinality(Mounted)
    /\ owed' = {plugins[n] : n \in Mounted}
    /\ UNCHANGED <<plugins, state, pipes, calling, joining, signalled>>

\* A plugin that was mounted meanwhile under a new name ends the loop.
ShutdownRaises ==
    /\ closing = "next" /\ Cardinality(Mounted) # size
    /\ closing' = "raised" /\ left' = {} /\ size' = 0
    /\ UNCHANGED <<plugins, state, pipes, calling, joining, signalled, owed>>

Loop == closing = "next" /\ Cardinality(Mounted) = size

\* Faulty variant: the loop comes back to a broken pipe for ever.
ShutdownSendAgain(n) ==
    LET p == plugins[n] IN
    /\ Loop /\ n \in left
    /\ IF state[p] = "up"
       THEN /\ requests' = [requests EXCEPT ![p] = Append(@, Shutdown)]
            /\ closing' = "join" /\ joining' = p /\ left' = left \ {n}
       ELSE UNCHANGED <<requests, closing, joining, left>>
    /\ UNCHANGED <<plugins, state, answers, calling, size, signalled, owed>>

ShutdownSend(n) ==
    LET p == plugins[n] IN
    /\ Loop /\ n \in left
    /\ left' = left \ {n}
    /\ IF state[p] = "up"
       THEN /\ requests' = [requests EXCEPT ![p] = Append(@, Shutdown)]
            /\ closing' = "join" /\ joining' = p
       ELSE UNCHANGED <<requests, closing, joining>>   \* raises, and is logged
    /\ UNCHANGED <<plugins, state, answers, calling, size, signalled, owed>>

\* Faulty variant: the process is given its two seconds and no more.
ShutdownJoinOnly ==
    /\ closing = "join"
    /\ closing' = "next" /\ joining' = None
    /\ UNCHANGED <<plugins, state, pipes, calling, left, size, signalled, owed>>

\* The process ended, or is sent SIGTERM when two seconds are over; the loop
\* does not wait for it again.
ShutdownJoin ==
    /\ closing = "join"
    /\ closing' = "next" /\ joining' = None
    /\ signalled' = IF state[joining] = "up" THEN signalled \union {joining} ELSE signalled
    /\ UNCHANGED <<plugins, state, pipes, calling, left, size, owed>>

ShutdownDone ==
    /\ Loop /\ left = {}
    /\ closing' = "done" /\ size' = 0
    /\ UNCHANGED <<plugins, state, pipes, calling, left, joining, signalled, owed>>

-----------------------------------------------------------------------------
Init ==
    /\ plugins = [n \in Names |-> None] /\ state = [p \in Processes |-> "new"]
    /\ requests = [p \in Processes |-> <<>>] /\ answers = requests
    /\ call = [t \in Threads |-> Idle] /\ calls = 0
    /\ closing = "no" /\ left = {} /\ joining = None /\ size = 0
    /\ signalled = {} /\ torn = {} /\ mixed = {} /\ owed = {}

ShutdownAll ==
    \/ ShutdownRaises \/ ShutdownJoin \/ ShutdownDone
    \/ \E n \in Names : ShutdownSend(n)

Recv(t) == ReadHeader(t) \/ ReadBody(t) \/ ReceiveEnd(t)

Next ==
    \/ \E n \in Names, p \in Processes : Mount(n, p)
    \/ \E t \in Threads : Recv(t) \/ Garbled(t) \/ Interrupt(t)
    \/ \E t \in Threads, n \in Names : Send(t, n)
    \/ \E p \in Processes : Serve(p) \/ Terminate(p) \/ Die(p)
    \/ ShutdownBegin \/ ShutdownAll

\* Functions of plugins return, threads are scheduled, signals are delivered, and
\* join has a timeout.  Nobody promises the bytes a torn pipe is short of.
Spec ==
    /\ Init /\ [][Next]_vars
    /\ \A t \in Threads : WF_vars(Recv(t))
    /\ \A p \in Processes : WF_vars(Serve(p)) /\ WF_vars(Terminate(p))
    /\ WF_vars(ShutdownAll)

-----------------------------------------------------------------------------
TypeOK ==
    /\ plugins \in [Names -> Processes \union {None}]
    /\ state \in [Processes -> {"new", "up", "down"}]
    /\ requests \in [Processes -> Seq(Nat)] /\ answers \in [Processes -> Seq(Nat)]
    /\ call \in [Threads -> [st : {"idle", "waiting", "reading", "returned"},
                             p : Processes \union {None}, id : Nat, got : Nat]]
    /\ \A t \in Threads : Waiting(t) => call[t].p \in Processes
    /\ calls \in Nat /\ size \in Nat
    /\ closing \in {"no", "next", "join", "done", "raised"}
    /\ left \subseteq Mounted
    /\ joining \in Processes \union {None} /\ (closing = "join" => joining \in Processes)
    /\ signalled \subseteq Processes
    /\ torn \subseteq Processes /\ mixed \subseteq Processes /\ owed \subseteq Processes \union {None}

\* A dispatch returns the answer to its own call, through errors of the plugin,
\* its death, a new plugin under its name and a shutdown, as long as the calls
\* of that process do not overlap and none is interrupted; if they do, each may
\* get the answer of another, and so may every later call.
AnswersMatch ==
    \A t \in Threads :
        call[t].st = "returned" /\ call[t].p \notin mixed => call[t].got = call[t].id

\* When shutdown_all has returned, the processes that were mounted when it was
\* called are down or have been sent SIGTERM, whatever they were doing, unless
\* another one took the name of the process meanwhile.  (If a plugin is mounted
\* under a new name meanwhile it raises instead, and leaves the rest of them.)
ShutdownIsComplete ==
    closing = "done" => \A p \in owed : state[p] = "down" \/ p \in signalled

\* Every call comes to an end, however calls are crossed: what is taken from a
\* thread by another one is made good by the answer to that one, or the process
\* is down and the pipe at its end.  Unless a message was torn, by two threads
\* that read it or by an interrupt: a call may then wait for ever.
EveryCallEnds == \A t \in Threads : Waiting(t) ~> ~Waiting(t) \/ call[t].p \in torn

\* shutdown_all raises, or returns and all it found mounted, and was not replaced
\* meanwhile, goes down, however long a plugin takes.
ShutdownEnds ==
    closing \in {"next", "join"} ~>
        \/ closing = "raised"
        \/ closing = "done" /\ \A p \in owed : state[p] = "down"
=============================================================================
