------------------------ MODULE DeadManSwitchProofs ------------------------
(***************************************************************************)
(* Proofs about DeadManSwitch for any callers, timeouts and thread objects *)
(* the scheduler may interleave: its types, and that calls of arm which do *)
(* not overlap never leave two monitors running.                           *)
(***************************************************************************)
EXTENDS DeadManSwitch, TLAPS

LEMMA InitType == Init => TypeOK
<1> SUFFICES ASSUME Init PROVE TypeOK
    OBVIOUS
<1>1. /\ age \in 0 .. MaxAge
      /\ elapsed \in [Monitors -> 0 .. MaxAge]
  BY SwitchAssumption DEF SwitchAssumption, Init
<1>2. /\ mon \in [Monitors -> Alive \cup {"none", "new"}]
      /\ pc \in [Callers -> Ready \cup Arming \cup {"refresh", "disarm", "wipe"}]
      /\ \A c \in Callers : pc[c] # "start"
  BY DEF Init, Ready
<1> QED
  BY <1>1, <1>2 DEF Init, TypeOK

\* The steps of a caller inside a method keep the types.
LEMMA ProceedType ==
    ASSUME TypeOK, NEW c \in Callers, Proceed(c)
    PROVE  TypeOK'
<1> USE SwitchAssumption
    DEF SwitchAssumption, TypeOK, attributes, Goto, Ready, Arming, Alive, Watching
<1>1. CASE ArmBeat(c) \/ Refresh(c)
  BY <1>1 DEF ArmBeat, Refresh
<1>2. CASE ArmSet(c)
  BY <1>2 DEF ArmSet
<1>3. CASE ArmClear(c)
  BY <1>3 DEF ArmClear
<1>4. CASE ArmCheck(c)
  BY <1>4 DEF ArmCheck
<1>5. CASE ArmSpawn(c) \/ ArmStart(c)
  BY <1>5 DEF ArmSpawn, ArmStart
<1>6. CASE DisarmStop(c)
  BY <1>6 DEF DisarmStop
<1>7. CASE TriggerWipe(c)
  BY <1>7 DEF TriggerWipe
<1> QED
  BY <1>1, <1>2, <1>3, <1>4, <1>5, <1>6, <1>7 DEF Proceed

\* So do the beginnings of calls ...
LEMMA CallType ==
    ASSUME TypeOK, NEW c \in Callers, Call(c)
    PROVE  TypeOK'
<1> USE SwitchAssumption DEF SwitchAssumption, TypeOK, attributes, Ready, Arming
<1>1. ASSUME NEW t \in Timeouts, Arm(c, t) PROVE TypeOK'
  BY <1>1 DEF Arm
<1>2. CASE Heartbeat(c) \/ Disarm(c) \/ Trigger(c)
  BY <1>2 DEF Heartbeat, Disarm, Trigger
<1> QED
  BY <1>1, <1>2 DEF Call

\* ... and the steps of a monitor.
LEMMA MonitorType ==
    ASSUME TypeOK, NEW m \in Monitors, Monitor(m)
    PROVE  TypeOK'
<1> USE SwitchAssumption DEF SwitchAssumption, TypeOK, attributes, Move, Alive, Watching
<1>1. CASE Poll(m)
  BY <1>1 DEF Poll
<1>2. CASE ReadElapsed(m) \/ Compare(m)
  BY <1>2 DEF ReadElapsed, Compare
<1>3. CASE Unarm(m) \/ Execute(m) \/ Wipe(m) \/ Exit(m)
  BY <1>3 DEF Unarm, Execute, Wipe, Exit
<1> QED
  BY <1>1, <1>2, <1>3 DEF Monitor

LEMMA TypeStep == TypeOK /\ [Next]_vars => TypeOK'
<1> SUFFICES ASSUME TypeOK, [Next]_vars
             PROVE  TypeOK'
    OBVIOUS
<1>1. CASE Halt
  BY <1>1 DEF Halt, TypeOK, attributes
<1>2. CASE Tick
  BY <1>2, SwitchAssumption DEF SwitchAssumption, Tick, TypeOK
<1>3. CASE UNCHANGED vars
  BY <1>3 DEF vars, attributes, TypeOK
<1> QED
  BY <1>1, <1>2, <1>3, ProceedType, CallType, MonitorType DEF Next

\* Every reachable state of the switch is well typed.
THEOREM TypeCorrect == Spec => []TypeOK
BY InitType, TypeStep, PTL DEF Spec

-----------------------------------------------------------------------------
\* While calls of arm do not overlap, _monitor_thread is the only thread that
\* runs or is about to, and a call that found none alive starts the one it
\* made.
Exclusive ==
    ~contended =>
        /\ \A c, d \in Callers : pc[c] \in Arming /\ pc[d] \in Arming => c = d
        /\ \A m \in Monitors : mon[m] \in Alive \cup {"new"} => m = thread
        /\ \A c \in Callers : pc[c] = "spawn" => ~IsAlive(thread)
        /\ \A c \in Callers : pc[c] = "start" => mon[thread] = "new"
        /\ \A c \in Callers : pc[c] # "raised"

LEMMA ExclusiveProceed ==
    ASSUME TypeOK, Exclusive, NEW c \in Callers, Proceed(c)
    PROVE  Exclusive'
<1> USE SwitchAssumption
    DEF SwitchAssumption, TypeOK, Exclusive, attributes, Goto, IsAlive, Arming, Alive, Watching
<1>1. CASE ArmBeat(c) \/ ArmSet(c) \/ ArmClear(c)
  BY <1>1 DEF ArmBeat, ArmSet, ArmClear
<1>2. CASE ArmCheck(c)
  BY <1>2 DEF ArmCheck
<1>3. CASE ArmSpawn(c)
  <2>1. PICK m \in Monitors :
          /\ mon[m] = "none"
          /\ thread' = m
          /\ mon' = [n \in Monitors |->
                       IF n = m THEN "new" ELSE IF n = thread /\ mon[n] = "new" THEN "none" ELSE mon[n]]
    BY <1>3 DEF ArmSpawn
  <2>2. ASSUME ~contended
        PROVE  /\ mon'[m] = "new"
               /\ \A n \in Monitors : n # m => mon'[n] \notin Alive \cup {"new"}
    BY <1>3, <2>1, <2>2 DEF ArmSpawn
  <2> QED
    BY <1>3, <2>1, <2>2 DEF ArmSpawn
<1>4. CASE ArmStart(c)
  BY <1>4 DEF ArmStart
<1>5. CASE Refresh(c) \/ DisarmStop(c) \/ TriggerWipe(c)
  BY <1>5 DEF Refresh, DisarmStop, TriggerWipe
<1> QED
  BY <1>1, <1>2, <1>3, <1>4, <1>5 DEF Proceed

LEMMA ExclusiveCall ==
    ASSUME TypeOK, Exclusive, NEW c \in Callers, Call(c)
    PROVE  Exclusive'
<1> USE DEF TypeOK, Exclusive, attributes, Ready, IsAlive, Arming, Alive, Watching
<1>1. ASSUME NEW t \in Timeouts, Arm(c, t) PROVE Exclusive'
  BY <1>1 DEF Arm
<1>2. CASE Heartbeat(c) \/ Disarm(c) \/ Trigger(c)
  BY <1>2 DEF Heartbeat, Disarm, Trigger
<1> QED
  BY <1>1, <1>2 DEF Call

\* A monitor's own steps never bring a thread to life.
LEMMA ExclusiveMonitor ==
    ASSUME TypeOK, Exclusive, NEW m \in Monitors, Monitor(m)
    PROVE  Exclusive'
<1>1. /\ mon[m] \in Alive
      /\ \E to \in Alive \cup {"none"} : mon' = [mon EXCEPT ![m] = to]
      /\ UNCHANGED <<pc, thread, contended>>
  BY DEF Monitor, Poll, Unarm, ReadElapsed, Compare, Execute, Wipe, Exit, Move,
         attributes, Alive, Watching
<1> QED
  BY <1>1 DEF TypeOK, Exclusive, IsAlive, Alive, Watching

LEMMA ExclusiveStep == TypeOK /\ Exclusive /\ [Next]_vars => Exclusive'
<1> SUFFICES ASSUME TypeOK, Exclusive, [Next]_vars
             PROVE  Exclusive'
    OBVIOUS
<1>1. CASE Halt \/ Tick \/ UNCHANGED vars
  BY <1>1 DEF Halt, Tick, vars, attributes, Exclusive, IsAlive
<1> QED
  BY <1>1, ExclusiveProceed, ExclusiveCall, ExclusiveMonitor DEF Next

\* One operator at a time never gets two monitors, nor an arm that raises.
THEOREM SingleMonitor == Spec => []OneMonitor
<1>1. Init => Exclusive
  BY DEF Init, Exclusive, Arming, Alive, Watching
<1>2. Exclusive => OneMonitor
  BY DEF Exclusive, OneMonitor
<1> QED
  BY <1>1, <1>2, InitType, TypeStep, ExclusiveStep, PTL DEF Spec
=============================================================================
