--------------------------- MODULE DeadManSwitch ---------------------------
(***************************************************************************)
(* NukeProtocol (koot/governance/override/nuke.py): the dead man's switch. *)
(* Operators call arm, heartbeat, disarm and trigger_now from threads of   *)
(* their own; a monitor thread started by arm polls the shared attributes  *)
(* and wipes the target when no heartbeat came in time.  No lock protects  *)
(* the attributes, so a step is one access to one of them.                 *)
(*                                                                         *)
(* Time is relative: "age" is time.time() - last_heartbeat, up to MaxAge,  *)
(* beyond which no armed switch has not expired.  Calls that fail          *)
(* verify_master_authority return at once and are left out.                *)
(***************************************************************************)
EXTENDS Naturals, FiniteSets

CONSTANTS
    Callers,    \* threads that call the protocol's methods
    Monitors,   \* thread objects available to arm
    Timeouts,   \* the timeouts arm is called with
    MaxAge,     \* bound on age
    NoThread    \* _monitor_thread is None

ASSUME SwitchAssumption ==
    /\ MaxAge \in Nat
    /\ Timeouts \subseteq 0 .. MaxAge
    /\ NoThread \notin Monitors

VARIABLES
    armed,      \* is_armed
    stop,       \* _stop_event
    timeout,    \* timeout
    age,        \* time since last_heartbeat
    halted,     \* OverrideMatrix._is_halted
    thread,     \* _monitor_thread
    mon,        \* where each monitor thread stands
    elapsed,    \* the local variable of each monitor
    pc,         \* where each caller stands
    wiped,      \* the target path is gone
    contended   \* history: two calls of arm overlapped

attributes == <<armed, stop, timeout, age, thread>>
vars == <<attributes, halted, mon, elapsed, pc, wiped, contended>>

Watching == {"stop?", "armed?", "halted?", "unarm", "read", "compare", "execute"}
Alive == Watching \cup {"wipe", "exit"}
Arming == {"beat", "set", "clear", "check", "spawn", "start"}
Ready == {"idle", "raised"}

-----------------------------------------------------------------------------
\* NukeProtocol.arm, one attribute at a time.

Goto(c, from, to) ==
    /\ pc[c] = from
    /\ pc' = [pc EXCEPT ![c] = to]

Arm(c, t) ==
    /\ pc[c] \in Ready
    /\ timeout' = t
    /\ pc' = [pc EXCEPT ![c] = "beat"]
    /\ contended' = (contended \/ \E d \in Callers : pc[d] \in Arming)
    /\ UNCHANGED <<armed, stop, age, thread, halted, mon, elapsed, wiped>>

ArmBeat(c) ==
    /\ Goto(c, "beat", "set")
    /\ age' = 0
    /\ UNCHANGED <<armed, stop, timeout, thread, halted, mon, elapsed, wiped, contended>>

ArmSet(c) ==
    /\ Goto(c, "set", "clear")
    /\ armed' = TRUE
    /\ UNCHANGED <<stop, timeout, age, thread, halted, mon, elapsed, wiped, contended>>

ArmClear(c) ==
    /\ Goto(c, "clear", "check")
    /\ stop' = FALSE
    /\ UNCHANGED <<armed, timeout, age, thread, halted, mon, elapsed, wiped, contended>>

IsAlive(m) == m # NoThread /\ mon[m] \in Alive

\* Faulty variant: arm starts a monitor without looking for an old one.
ArmUnchecked(c) ==
    /\ Goto(c, "check", "spawn")
    /\ UNCHANGED <<attributes, halted, mon, elapsed, wiped, contended>>

ArmCheck(c) ==
    /\ Goto(c, "check", IF IsAlive(thread) THEN "idle" ELSE "spawn")
    /\ UNCHANGED <<attributes, halted, mon, elapsed, wiped, contended>>

\* A thread object that was never started is forgotten with its last reference.
ArmSpawn(c) ==
    /\ Goto(c, "spawn", "start")
    /\ \E m \in Monitors :
        /\ mon[m] = "none"
        /\ thread' = m
        /\ mon' = [n \in Monitors |->
                     IF n = m THEN "new" ELSE IF n = thread /\ mon[n] = "new" THEN "none" ELSE mon[n]]
    /\ UNCHANGED <<armed, stop, timeout, age, halted, elapsed, wiped, contended>>

\* self._monitor_thread is read again; a thread can be started only once.
ArmStart(c) ==
    /\ pc[c] = "start"
    /\ \/ /\ mon[thread] = "new"
          /\ mon' = [mon EXCEPT ![thread] = "stop?"]
          /\ pc' = [pc EXCEPT ![c] = "idle"]
       \/ /\ mon[thread] # "new"
          /\ pc' = [pc EXCEPT ![c] = "raised"]
          /\ UNCHANGED mon
    /\ UNCHANGED <<attributes, halted, elapsed, wiped, contended>>

-----------------------------------------------------------------------------
\* heartbeat, disarm, trigger_now and the interlock's halt.

\* A heartbeat of a switch that is not armed returns False.
Heartbeat(c) ==
    /\ pc[c] \in Ready
    /\ armed
    /\ pc' = [pc EXCEPT ![c] = "refresh"]
    /\ UNCHANGED <<attributes, halted, mon, elapsed, wiped, contended>>

Refresh(c) ==
    /\ Goto(c, "refresh", "idle")
    /\ age' = 0
    /\ UNCHANGED <<armed, stop, timeout, thread, halted, mon, elapsed, wiped, contended>>

Disarm(c) ==
    /\ pc[c] \in Ready
    /\ armed' = FALSE
    /\ pc' = [pc EXCEPT ![c] = "disarm"]
    /\ UNCHANGED <<stop, timeout, age, thread, halted, mon, elapsed, wiped, contended>>

DisarmStop(c) ==
    /\ Goto(c, "disarm", "idle")
    /\ stop' = TRUE
    /\ UNCHANGED <<armed, timeout, age, thread, halted, mon, elapsed, wiped, contended>>

\* trigger_now runs _execute_nuke in the caller's thread.
Trigger(c) ==
    /\ pc[c] \in Ready
    /\ armed' = FALSE
    /\ pc' = [pc EXCEPT ![c] = "wipe"]
    /\ UNCHANGED <<stop, timeout, age, thread, halted, mon, elapsed, wiped, contended>>

TriggerWipe(c) ==
    /\ Goto(c, "wipe", "idle")
    /\ wiped' = TRUE
    /\ UNCHANGED <<attributes, halted, mon, elapsed, contended>>

\* OverrideMatrix.trigger_global_halt and reset_halt.
Halt ==
    /\ halted' = ~halted
    /\ UNCHANGED <<attributes, mon, elapsed, pc, wiped, contended>>

-----------------------------------------------------------------------------
\* NukeProtocol._monitor_loop and _execute_nuke.

Move(m, from, to) ==
    /\ mon[m] = from
    /\ mon' = [mon EXCEPT ![m] = to]

\* Faulty variant: the monitor does not ask for the halt.
PollUnhalted(m) ==
    /\ \/ Move(m, "stop?", IF stop THEN "exit" ELSE "armed?")
       \/ Move(m, "armed?", IF armed THEN "read" ELSE "exit")
    /\ UNCHANGED <<attributes, halted, elapsed, pc, wiped, contended>>

\* while not self._stop_event.is_set() ... if not self.is_armed ... if is_halted
Poll(m) ==
    /\ \/ Move(m, "stop?", IF stop THEN "exit" ELSE "armed?")
       \/ Move(m, "armed?", IF armed THEN "halted?" ELSE "exit")
       \/ Move(m, "halted?", IF halted THEN "unarm" ELSE "read")
    /\ UNCHANGED <<attributes, halted, elapsed, pc, wiped, contended>>

Unarm(m) ==
    /\ Move(m, "unarm", "exit")
    /\ armed' = FALSE
    /\ UNCHANGED <<stop, timeout, age, thread, halted, elapsed, pc, wiped, contended>>

ReadElapsed(m) ==
    /\ Move(m, "read", "compare")
    /\ elapsed' = [elapsed EXCEPT ![m] = age]
    /\ UNCHANGED <<attributes, halted, pc, wiped, contended>>

\* Faulty variant: the loop is left after its first round.
CompareOnce(m) ==
    /\ Move(m, "compare", IF elapsed[m] >= timeout THEN "execute" ELSE "exit")
    /\ elapsed' = [elapsed EXCEPT ![m] = 0]
    /\ UNCHANGED <<attributes, halted, pc, wiped, contended>>

\* The half second of sleep before the next round is the time until "stop?".
Compare(m) ==
    /\ Move(m, "compare", IF elapsed[m] >= timeout THEN "execute" ELSE "stop?")
    /\ elapsed' = [elapsed EXCEPT ![m] = 0]
    /\ UNCHANGED <<attributes, halted, pc, wiped, contended>>

\* The emergency callback that runs next is its owner's code, and what it
\* raises is caught.
Execute(m) ==
    /\ Move(m, "execute", "wipe")
    /\ armed' = FALSE
    /\ UNCHANGED <<stop, timeout, age, thread, halted, elapsed, pc, wiped, contended>>

Wipe(m) ==
    /\ Move(m, "wipe", "exit")
    /\ wiped' = TRUE
    /\ UNCHANGED <<attributes, halted, elapsed, pc, contended>>

\* The loop was left; until the thread has ended is_alive() is still true.
Exit(m) ==
    /\ Move(m, "exit", "none")
    /\ UNCHANGED <<attributes, halted, elapsed, pc, wiped, contended>>

Tick ==
    /\ age < MaxAge
    /\ age' = age + 1
    /\ UNCHANGED <<armed, stop, timeout, thread, halted, mon, elapsed, pc, wiped, contended>>

-----------------------------------------------------------------------------
Init ==
    /\ armed = FALSE
    /\ stop = FALSE
    /\ timeout = 0
    /\ age = MaxAge
    /\ halted = FALSE
    /\ thread = NoThread
    /\ mon = [m \in Monitors |-> "none"]
    /\ elapsed = [m \in Monitors |-> 0]
    /\ pc = [c \in Callers |-> "idle"]
    /\ wiped = FALSE
    /\ contended = FALSE

\* What a caller does once it is inside a method.
Proceed(c) ==
    \/ ArmBeat(c) \/ ArmSet(c) \/ ArmClear(c) \/ ArmCheck(c) \/ ArmSpawn(c) \/ ArmStart(c)
    \/ Refresh(c) \/ DisarmStop(c) \/ TriggerWipe(c)

Monitor(m) ==
    \/ Poll(m) \/ Unarm(m) \/ ReadElapsed(m) \/ Compare(m)
    \/ Execute(m) \/ Wipe(m) \/ Exit(m)

Call(c) ==
    \/ \E t \in Timeouts : Arm(c, t)
    \/ Heartbeat(c)
    \/ Disarm(c)
    \/ Trigger(c)

Next ==
    \/ \E c \in Callers : Call(c) \/ Proceed(c)
    \/ \E m \in Monitors : Monitor(m)
    \/ Halt
    \/ Tick

\* Threads are scheduled and time passes; nobody has to call anything.
Fairness ==
    /\ \A c \in Callers : WF_vars(Proceed(c))
    /\ \A m \in Monitors : WF_vars(Monitor(m))
    /\ WF_vars(Tick)

Spec == Init /\ [][Next]_vars /\ Fairness

-----------------------------------------------------------------------------
TypeOK ==
    /\ armed \in BOOLEAN /\ stop \in BOOLEAN /\ halted \in BOOLEAN
    /\ wiped \in BOOLEAN /\ contended \in BOOLEAN
    /\ timeout \in Timeouts \cup {0}
    /\ age \in 0 .. MaxAge
    /\ thread \in Monitors \cup {NoThread}
    /\ mon \in [Monitors -> Alive \cup {"none", "new"}]
    /\ elapsed \in [Monitors -> 0 .. MaxAge]
    /\ pc \in [Callers -> Ready \cup Arming \cup {"refresh", "disarm", "wipe"}]
    /\ \A c \in Callers : pc[c] = "start" => thread # NoThread

\* As long as no two calls of arm overlap there is at most one monitor, and
\* arm never fails to start it: disarm, expiry and halt let the old monitor
\* be seen alive until it is really gone.
OneMonitor ==
    ~contended =>
        /\ \A m, n \in Monitors : mon[m] \in Alive /\ mon[n] \in Alive => m = n
        /\ \A c \in Callers : pc[c] # "raised"

\* The switch is armed, nobody told it to stop or is about to, and a monitor
\* that has not yet decided to end looks at it.
Watched ==
    /\ armed /\ ~stop
    /\ \A c \in Callers : pc[c] # "disarm"
    /\ \E m \in Monitors : mon[m] \in Watching

\* From some time on no heartbeat comes and nobody arms the switch again.
HolderFallsSilent == <>[][\A c \in Callers : ~Refresh(c) /\ ~ArmBeat(c)]_vars

\* A watched switch whose holder falls silent does not stay armed: it fires,
\* or it is disarmed or halted first.
SilenceIsNoticed == HolderFallsSilent => (Watched ~> ~armed)

\* A halt that is not reset takes a watched switch out of service, however
\* many heartbeats keep it alive.
HaltDisarms == <>[]halted => (Watched ~> ~armed)
=============================================================================
