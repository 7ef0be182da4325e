--------------------------- MODULE RegistryProofs --------------------------
(***************************************************************************)
(* Proofs about Registry, for any names, threads and numbers of processes  *)
(* and calls.                                                              *)
(*                                                                         *)
(* AnswersMatch speaks of calls that returned; while a process is crossed  *)
(* by no two calls, what is in its pipes is at most one call, that of the  *)
(* thread which waits for it (OneCall), so that nobody tears a message.    *)
(* ShutdownIsComplete speaks of the end of the loop; before it, whatever   *)
(* is still to go down is under a name the loop has yet to come to, or     *)
(* being joined (StillOwed).                                               *)
(***************************************************************************)
EXTENDS Registry, FiniteSetTheorems, SequenceTheorems, TLAPS

Calls(s) == {i \in 1..Len(s) : s[i] # Shutdown}
On(p) == {t \in Threads : Waiting(t) /\ call[t].p = p}

\* What the pipes of a process hold is of the one thread that waits for it.
OneCall(p) ==
    /\ \A t \in On(p), u \in On(p) : t = u
    /\ \A i \in Calls(requests[p]) : \E t \in On(p) : requests[p][i] = call[t].id
    /\ \A i \in Calls(requests[p]), j \in Calls(requests[p]) : i = j
    /\ \/ answers[p] = <<>>
       \/ /\ Len(answers[p]) = 1 /\ Calls(requests[p]) = {}
          /\ \E t \in On(p) : answers[p][1] = call[t].id

Uncrossed == torn \subseteq mixed /\ \A p \in Processes \ mixed : OneCall(p)

\* A process that was not started, or is down, has nothing to read.
Started ==
    /\ \A n \in Mounted : state[plugins[n]] # "new"
    /\ \A p \in Processes : state[p] # "up" => requests[p] = <<>>

Gone(p) == state[p] = "down" \/ p \in signalled

StillOwed ==
    /\ closing \in {"next", "join"} =>
          \A p \in owed \ {joining} : Gone(p) \/ \E n \in left : plugins[n] = p
    /\ closing # "join" => joining = None
    /\ closing = "join" => state[joining] # "new"
    /\ None \notin owed

IndInv == TypeOK /\ Started /\ Uncrossed /\ AnswersMatch /\ StillOwed /\ ShutdownIsComplete

-----------------------------------------------------------------------------
LEMMA AppendTo ==
    ASSUME NEW s \in Seq(Nat), NEW x \in Nat
    PROVE  /\ Append(s, x) \in Seq(Nat) /\ Append(s, x) # <<>>
           /\ x = Shutdown => Calls(Append(s, x)) = Calls(s)
           /\ x # Shutdown => Calls(Append(s, x)) = Calls(s) \union {Len(s) + 1}
           /\ \A i \in Calls(s) : Append(s, x)[i] = s[i]
           /\ Append(s, x)[Len(s) + 1] = x
           /\ s = <<>> => Len(Append(s, x)) = 1
<1>1. /\ Append(s, x) \in Seq(Nat) /\ Len(Append(s, x)) = Len(s) + 1 /\ Len(s) \in Nat
      /\ \A i \in 1..Len(s) : Append(s, x)[i] = s[i]
      /\ Append(s, x)[Len(s) + 1] = x
  OBVIOUS
<1>2. 1..(Len(s) + 1) = (1..Len(s)) \union {Len(s) + 1} /\ Len(s) + 1 \notin 1..Len(s)
  BY <1>1
<1>3. x = Shutdown => Calls(Append(s, x)) = Calls(s)
  BY <1>1, <1>2 DEF Calls
<1>4. x # Shutdown => Calls(Append(s, x)) = Calls(s) \union {Len(s) + 1}
  BY <1>1, <1>2 DEF Calls
<1>5. Append(s, x) # <<>>
  BY <1>1
<1>6. s = <<>> => Len(Append(s, x)) = 1
  BY <1>1
<1> QED
  BY <1>1, <1>3, <1>4, <1>5, <1>6 DEF Calls

LEMMA TailOf ==
    ASSUME NEW s \in Seq(Nat), s # <<>>
    PROVE  /\ Tail(s) \in Seq(Nat) /\ Head(s) \in Nat /\ Head(s) = s[1]
           /\ Head(s) # Shutdown <=> 1 \in Calls(s)
           /\ \A i \in Calls(Tail(s)) : i + 1 \in Calls(s) /\ i + 1 # 1 /\ Tail(s)[i] = s[i + 1]
           /\ Len(s) = 1 => Tail(s) = <<>>
<1>1. /\ Tail(s) \in Seq(Nat) /\ Head(s) \in Nat /\ Head(s) = s[1]
      /\ Len(s) \in Nat /\ Len(s) >= 1 /\ Len(Tail(s)) = Len(s) - 1
      /\ \A i \in 1..(Len(s) - 1) : Tail(s)[i] = s[i + 1]
  OBVIOUS
<1>2. Head(s) # Shutdown <=> 1 \in Calls(s)
  BY <1>1 DEF Calls
<1>3. \A i \in Calls(Tail(s)) : i + 1 \in Calls(s) /\ i + 1 # 1 /\ Tail(s)[i] = s[i + 1]
  BY <1>1 DEF Calls
<1>4. Len(s) = 1 => Tail(s) = <<>>
  <2>1. \A q \in Seq(Nat) : q # <<>> => Len(q) \in Nat \ {0}
    BY EmptySeq
  <2>2. Len(s) = 1 => Len(Tail(s)) \notin Nat \ {0}
    BY <1>1
  <2> QED
    BY <1>1, <2>1, <2>2, Zenon
<1> QED
  BY <1>1, <1>2, <1>3, <1>4

LEMMA Nothing == Calls(<<>>) = {} /\ <<>> \in Seq(Nat) /\ 0 \notin Processes
BY DEF Calls, Processes

LEMMA MountedFinite ==
    /\ IsFiniteSet(Mounted) /\ Cardinality(Mounted) \in Nat
<1>1. IsFiniteSet(Names) /\ Mounted \subseteq Names
  BY RegistryAssumption DEF RegistryAssumption, Mounted
<1>2. IsFiniteSet(Mounted)
  BY <1>1, FS_Subset
<1> QED
  BY <1>2, FS_CardinalityType
-----------------------------------------------------------------------------
LEMMA InitIndInv == Init => IndInv
<1> SUFFICES ASSUME Init PROVE IndInv
  OBVIOUS
<1>1. Mounted = {} /\ \A p : On(p) = {}
  BY DEF Init, Mounted, On, Waiting, Idle
<1>2. TypeOK
  BY <1>1, Nothing DEF Init, TypeOK, Waiting, Idle
<1>3. Started /\ StillOwed /\ ShutdownIsComplete
  BY <1>1 DEF Init, Started, StillOwed, ShutdownIsComplete
<1>4. Uncrossed /\ AnswersMatch
  BY <1>1, Nothing DEF Init, Uncrossed, OneCall, AnswersMatch, Idle
<1> QED
  BY <1>2, <1>3, <1>4 DEF IndInv

\* A process that ends has nothing left to read.
LEMMA EndOf ==
    ASSUME TypeOK, NEW p \in Processes, End(p)
    PROVE  /\ state' \in [Processes -> {"new", "up", "down"}]
           /\ requests' \in [Processes -> Seq(Nat)]
           /\ state'[p] = "down" /\ requests'[p] = <<>>
           /\ \A q \in Processes \ {p} : state'[q] = state[q] /\ requests'[q] = requests[q]
BY Nothing DEF End, TypeOK

CallType == [Threads -> [st : {"idle", "waiting", "reading", "returned"},
                         p : Processes \union {None}, id : Nat, got : Nat]]

LEMMA TearOf ==
    ASSUME TypeOK, NEW p \in Processes, Tear(p) \/ UNCHANGED <<torn, answers>>
    PROVE  answers' \in [Processes -> Seq(Nat)] /\ torn' \subseteq Processes
<1>1. CASE Tear(p)
  BY <1>1, Nothing DEF Tear, TypeOK
<1>2. CASE UNCHANGED <<torn, answers>>
  BY <1>2 DEF TypeOK
<1> QED
  BY <1>1, <1>2

LEMMA NextType == TypeOK /\ [Next]_vars => TypeOK'
<1> SUFFICES ASSUME TypeOK, [Next]_vars PROVE TypeOK'
  OBVIOUS
<1> USE DEF pipes, calling, ending
<1>1. ASSUME NEW n \in Names, NEW p \in Processes, Mount(n, p) PROVE TypeOK'
  <2>1. plugins' \in [Names -> Processes \union {None}] /\ Mounted \subseteq Mounted'
    BY <1>1, Nothing DEF Mount, TypeOK, Mounted, None
  <2>2. state' \in [Processes -> {"new", "up", "down"}]
    BY <1>1 DEF Mount, TypeOK
  <2> QED
    BY <1>1, <2>1, <2>2 DEF Mount, TypeOK, Waiting
<1>2. ASSUME NEW t \in Threads, NEW n \in Names, Send(t, n) PROVE TypeOK'
  <2>1. plugins[n] \in Processes /\ calls' \in Nat
    BY <1>2 DEF Send, TypeOK
  <2>2. requests' \in [Processes -> Seq(Nat)]
    <3>1. requests[plugins[n]] \in Seq(Nat)
      BY <2>1 DEF TypeOK
    <3>2. Append(requests[plugins[n]], calls') \in Seq(Nat)
      BY <2>1, <3>1, AppendTo
    <3> QED
      BY <1>2, <2>1, <3>2 DEF Send, TypeOK
  <2>3. call' \in [Threads -> [st : {"idle", "waiting", "reading", "returned"},
                               p : Processes \union {None}, id : Nat, got : Nat]]
        /\ \A u \in Threads : Waiting(u)' => call'[u].p \in Processes
    BY <1>2, <2>1 DEF Send, TypeOK, Waiting
  <2>4. mixed' \subseteq Processes
    BY <1>2, <2>1 DEF Send, TypeOK
  <2>5. UNCHANGED <<plugins, state, answers, torn, closing, left, joining, size, signalled, owed>>
    BY <1>2 DEF Send
  <2> QED
    BY <2>1, <2>2, <2>3, <2>4, <2>5 DEF TypeOK, Mounted
<1>3. ASSUME NEW t \in Threads, ReadBody(t) PROVE TypeOK'
  <2>1. call[t].p \in Processes
    BY <1>3 DEF ReadBody, TypeOK, Waiting
  <2>2. Head(answers[call[t].p]) \in Nat /\ Tail(answers[call[t].p]) \in Seq(Nat)
    BY <1>3, <2>1, TailOf DEF ReadBody, TypeOK
  <2>3. answers' \in [Processes -> Seq(Nat)]
    BY <1>3, <2>1, <2>2 DEF ReadBody, TypeOK
  <2>4. call' \in CallType /\ \A u \in Threads : Waiting(u)' => call'[u].p \in Processes
    BY <1>3, <2>2 DEF ReadBody, TypeOK, Waiting, CallType
  <2> QED
    BY <1>3, <2>3, <2>4 DEF ReadBody, TypeOK, Mounted, CallType
<1>12. ASSUME NEW t \in Threads, ReadHeader(t) PROVE TypeOK'
  <2>1. call[t].p \in Processes
    BY <1>12 DEF ReadHeader, TypeOK, Waiting
  <2>2. answers' \in [Processes -> Seq(Nat)] /\ torn' \subseteq Processes
    BY <1>12, <2>1, TearOf DEF ReadHeader
  <2>3. call' \in CallType /\ \A u \in Threads : Waiting(u)' => call'[u].p \in Processes
    BY <1>12, <2>1 DEF ReadHeader, TypeOK, Waiting, CallType
  <2> QED
    BY <1>12, <2>2, <2>3 DEF ReadHeader, TypeOK, Mounted, CallType
<1>4. ASSUME NEW t \in Threads, ReceiveEnd(t) \/ Interrupt(t) \/ Garbled(t) PROVE TypeOK'
  <2>1. call' \in CallType /\ \A u \in Threads : Waiting(u)' => call'[u].p \in Processes
    <3>1. call' = [call EXCEPT ![t] = Idle]
      BY <1>4 DEF ReceiveEnd, Interrupt, Garbled
    <3>2. /\ Idle \in [st : {"idle", "waiting", "reading", "returned"},
                       p : Processes \union {None}, id : Nat, got : Nat]
          /\ Idle.st = "idle"
      BY DEF Idle
    <3> HIDE DEF Idle
    <3> QED
      BY <3>1, <3>2 DEF TypeOK, Waiting, CallType
  <2>2. call[t].p \in Processes
    BY <1>4 DEF ReceiveEnd, Interrupt, Garbled, TypeOK
  <2>3. /\ answers' \in [Processes -> Seq(Nat)]
        /\ torn' \subseteq Processes /\ mixed' \subseteq Processes
    <3>1. Tear(call[t].p) \/ UNCHANGED <<torn, answers>>
      BY <1>4 DEF ReceiveEnd, Interrupt, Garbled
    <3>2. mixed' \subseteq mixed \union {call[t].p}
      BY <1>4 DEF ReceiveEnd, Interrupt, Garbled
    <3> QED
      BY <2>2, <3>1, <3>2, TearOf DEF TypeOK
  <2> QED
    BY <1>4, <2>1, <2>3 DEF ReceiveEnd, Interrupt, Garbled, TypeOK, Mounted, CallType
<1>5. ASSUME NEW p \in Processes, Serve(p) PROVE TypeOK'
  <2>1. requests[p] \in Seq(Nat) /\ requests[p] # <<>> /\ answers[p] \in Seq(Nat)
    BY <1>5 DEF Serve, TypeOK
  <2>2. /\ Head(requests[p]) \in Nat /\ Tail(requests[p]) \in Seq(Nat)
        /\ Append(answers[p], Head(requests[p])) \in Seq(Nat)
    BY <2>1, TailOf, AppendTo
  <2>3. /\ state' \in [Processes -> {"new", "up", "down"}]
        /\ requests' \in [Processes -> Seq(Nat)] /\ answers' \in [Processes -> Seq(Nat)]
    <3>1. CASE Head(requests[p]) = Shutdown
      BY <1>5, <3>1, EndOf DEF Serve, TypeOK
    <3>2. CASE Head(requests[p]) # Shutdown
      <4>1. /\ state' = state
            /\ requests' = [requests EXCEPT ![p] = Tail(@)]
            /\ answers' = answers
               \/ answers' = [answers EXCEPT ![p] = Append(@, Head(requests[p]))]
        BY <1>5, <3>2 DEF Serve
      <4>2. answers' \in [Processes -> Seq(Nat)]
        BY <2>2, <4>1 DEF TypeOK
      <4>3. requests' \in [Processes -> Seq(Nat)]
        BY <2>2, <4>1 DEF TypeOK
      <4> QED
        BY <4>1, <4>2, <4>3 DEF TypeOK
    <3> QED
      BY <3>1, <3>2
  <2> QED
    BY <1>5, <2>3 DEF Serve, TypeOK, Mounted, Waiting
<1>6. ASSUME NEW p \in Processes, Die(p) \/ Terminate(p) PROVE TypeOK'
  BY <1>6, EndOf DEF Die, Terminate, TypeOK, Mounted, Waiting
<1>7. CASE ShutdownBegin
  <2>1. {plugins[n] : n \in Mounted} \subseteq Processes \union {None}
    BY DEF TypeOK, Mounted
  <2> QED
    BY <1>7, <2>1, MountedFinite DEF ShutdownBegin, TypeOK, Mounted, Waiting
<1>8. CASE ShutdownRaises \/ ShutdownDone
  BY <1>8 DEF ShutdownRaises, ShutdownDone, Loop, TypeOK, Mounted, Waiting
<1>9. ASSUME NEW n \in Names, ShutdownSend(n) PROVE TypeOK'
  <2>1. plugins[n] \in Processes
    BY <1>9 DEF ShutdownSend, TypeOK, Mounted
  <2>2. Append(requests[plugins[n]], Shutdown) \in Seq(Nat)
    BY <2>1, AppendTo DEF TypeOK, Shutdown
  <2>3. requests' \in [Processes -> Seq(Nat)]
    BY <1>9, <2>1, <2>2 DEF ShutdownSend, TypeOK
  <2> QED
    BY <1>9, <2>1, <2>3 DEF ShutdownSend, Loop, TypeOK, Mounted, Waiting
<1>10. CASE ShutdownJoin
  <2>1. joining \in Processes
    BY <1>10 DEF ShutdownJoin, TypeOK
  <2> QED
    BY <1>10, <2>1 DEF ShutdownJoin, TypeOK, Mounted, Waiting
<1>11. CASE UNCHANGED vars
  BY <1>11 DEF vars, TypeOK, Mounted, Waiting
<1> QED
  BY <1>1, <1>2, <1>3, <1>4, <1>5, <1>6, <1>7, <1>8, <1>9, <1>10, <1>11, <1>12
     DEF Next, Recv, ShutdownAll
-----------------------------------------------------------------------------
LEMMA NextStarted == TypeOK /\ Started /\ [Next]_vars => Started'
<1> SUFFICES ASSUME TypeOK, Started, [Next]_vars PROVE Started'
  OBVIOUS
<1> USE DEF Started, pipes, calling, ending
<1>1. ASSUME NEW n \in Names, NEW p \in Processes, Mount(n, p) PROVE Started'
  <2>1. /\ state' = [state EXCEPT ![p] = "up"] /\ plugins' = [plugins EXCEPT ![n] = p]
        /\ requests' = requests /\ state[p] = "new"
    BY <1>1 DEF Mount
  <2>2. ASSUME NEW m \in Mounted' PROVE state'[plugins'[m]] # "new"
    <3>1. m \in Names /\ plugins'[m] # None
      BY DEF Mounted
    <3>2. CASE m = n
      BY <2>1, <3>2 DEF TypeOK
    <3>3. CASE m # n
      <4>1. plugins'[m] = plugins[m] /\ m \in Mounted
        BY <2>1, <3>1, <3>3 DEF TypeOK, Mounted
      <4>2. plugins[m] \in Processes /\ state[plugins[m]] # "new"
        BY <4>1 DEF TypeOK, Mounted
      <4> QED
        BY <2>1, <4>1, <4>2 DEF TypeOK
    <3> QED
      BY <3>2, <3>3
  <2>3. \A q \in Processes : state'[q] # "up" => requests'[q] = <<>>
    BY <2>1 DEF TypeOK
  <2> QED
    BY <2>2, <2>3
<1>2. ASSUME NEW t \in Threads, NEW n \in Names, Send(t, n) PROVE Started'
  BY <1>2 DEF Send, TypeOK, Mounted
<1>3. ASSUME NEW p \in Processes, End(p), plugins' = plugins PROVE Started'
  <2>1. \A q \in Processes : \/ state'[q] = "down" /\ requests'[q] = <<>>
                             \/ state'[q] = state[q] /\ requests'[q] = requests[q]
    BY <1>3, EndOf
  <2>2. Mounted' = Mounted /\ \A n \in Mounted : plugins[n] \in Processes
    BY <1>3 DEF TypeOK, Mounted
  <2> QED
    BY <1>3, <2>1, <2>2
<1>4. ASSUME NEW p \in Processes, Serve(p) PROVE Started'
  <2>1. CASE Head(requests[p]) = Shutdown
    BY <1>3, <1>4, <2>1 DEF Serve
  <2>2. CASE Head(requests[p]) # Shutdown
    BY <1>4, <2>2 DEF Serve, TypeOK, Mounted
  <2> QED
    BY <2>1, <2>2
<1>5. ASSUME NEW n \in Names, ShutdownSend(n) PROVE Started'
  BY <1>5 DEF ShutdownSend, TypeOK, Mounted
<1>6. CASE UNCHANGED <<plugins, state, requests>>
  BY <1>6 DEF Mounted
<1> QED
  BY <1>1, <1>2, <1>3, <1>4, <1>5, <1>6
     DEF Next, Recv, ShutdownAll, ReadHeader, ReadBody, Garbled, ReceiveEnd, Interrupt, Die,
         Terminate, ShutdownBegin, ShutdownRaises, ShutdownJoin, ShutdownDone, vars

\* What was down stays down, whatever happens around the loop.
LEMMA NextOwed ==
    TypeOK /\ Started /\ StillOwed /\ ShutdownIsComplete /\ [Next]_vars
        => StillOwed' /\ ShutdownIsComplete'
<1> SUFFICES ASSUME TypeOK, Started, StillOwed, ShutdownIsComplete, [Next]_vars
             PROVE  StillOwed' /\ ShutdownIsComplete'
  OBVIOUS
<1> USE Nothing DEF StillOwed, ShutdownIsComplete, Gone, pipes, calling, ending
<1>1. ASSUME NEW n \in Names, NEW p \in Processes, Mount(n, p)
      PROVE  StillOwed' /\ ShutdownIsComplete'
  <2>1. \A q \in Processes : /\ state[q] = "down" => state'[q] = "down"
                           /\ state[q] # "new" => state'[q] # "new"
    BY <1>1 DEF Mount, TypeOK
  <2>2. \A q \in owed', m \in left : plugins[m] = q => plugins'[m] = q
    BY <1>1 DEF Mount, TypeOK, Mounted
  <2>3. owed \subseteq Processes \union {None} /\ (closing = "join" => joining \in Processes)
    BY DEF TypeOK
  <2> QED
    BY <1>1, <2>1, <2>2, <2>3 DEF Mount
<1>2. ASSUME NEW p \in Processes, End(p), UNCHANGED <<plugins, closing, left, joining, signalled, owed>>
      PROVE  StillOwed' /\ ShutdownIsComplete'
  <2>1. \A q \in Processes : state'[q] = "down" \/ state'[q] = state[q]
    BY <1>2, EndOf
  <2>2. owed \subseteq Processes /\ (closing = "join" => joining \in Processes)
    BY DEF TypeOK
  <2> QED
    BY <1>2, <2>1, <2>2
<1>3. CASE UNCHANGED <<state, plugins, closing, left, joining, signalled, owed>>
  BY <1>3
<1>4. ASSUME NEW p \in Processes, Serve(p) PROVE StillOwed' /\ ShutdownIsComplete'
  BY <1>2, <1>3, <1>4 DEF Serve
<1>5. CASE ShutdownBegin
  <2>1. \A p \in owed' : \E n \in left' : plugins'[n] = p
    BY <1>5 DEF ShutdownBegin
  <2>2. None \notin owed'
    BY <1>5 DEF ShutdownBegin, Mounted
  <2>3. joining' = None
    BY <1>5 DEF ShutdownBegin, TypeOK
  <2> QED
    BY <1>5, <2>1, <2>2, <2>3 DEF ShutdownBegin
<1>6. CASE ShutdownRaises
  BY <1>6 DEF ShutdownRaises
<1>7. ASSUME NEW n \in Names, ShutdownSend(n) PROVE StillOwed' /\ ShutdownIsComplete'
  <2>1. n \in Mounted /\ plugins[n] \in Processes /\ state[plugins[n]] \in {"up", "down"}
    BY <1>7 DEF ShutdownSend, TypeOK, Mounted, Started
  <2> QED
    BY <1>7, <2>1 DEF ShutdownSend, Loop
<1>8. CASE ShutdownJoin
  <2>1. joining \in Processes /\ state[joining] \in {"up", "down"}
    BY <1>8 DEF ShutdownJoin, TypeOK
  <2>2. /\ state' = state /\ signalled \subseteq signalled'
        /\ state'[joining] = "down" \/ joining \in signalled'
    BY <1>8, <2>1 DEF ShutdownJoin
  <2> QED
    BY <1>8, <2>2 DEF ShutdownJoin
<1>9. CASE ShutdownDone
  BY <1>9 DEF ShutdownDone, Loop
<1> QED
  BY <1>1, <1>2, <1>3, <1>4, <1>5, <1>6, <1>7, <1>8, <1>9
     DEF Next, Recv, ShutdownAll, Send, ReadHeader, ReadBody, Garbled, ReceiveEnd, Interrupt,
         Die, Terminate, vars
-----------------------------------------------------------------------------
\* Calls that are not in the pipe any more, or were never.
LEMMA Drained ==
    ASSUME NEW q \in Processes, On(q)' = On(q), call' = call, OneCall(q),
           requests'[q] = <<>> \/ (requests'[q] = requests[q]), answers'[q] = answers[q]
    PROVE  OneCall(q)'
<1>1. CASE requests'[q] = requests[q]
  BY <1>1 DEF OneCall
<1>2. CASE requests'[q] = <<>>
  BY <1>2, Nothing DEF OneCall
<1> QED
  BY <1>1, <1>2

LEMMA SendCall ==
    ASSUME TypeOK, Uncrossed, NEW t \in Threads, NEW n \in Names, Send(t, n)
    PROVE  Uncrossed'
<1>1. PICK p \in Processes :
      /\ p = plugins[n] /\ calls \in Nat /\ calls' = calls + 1 /\ calls' # Shutdown
      /\ requests' = [requests EXCEPT ![p] = Append(@, calls')] /\ answers' = answers
      /\ call' = [call EXCEPT ![t] = [st |-> "waiting", p |-> p, id |-> calls', got |-> 0]]
      /\ mixed \subseteq mixed' /\ (p \in mixed' \/ \A u \in Threads : ~(Waiting(u) /\ call[u].p = p))
      /\ ~Waiting(t)
  <2>1. plugins[n] \in Processes /\ calls \in Nat /\ calls' = calls + 1
    BY DEF Send, TypeOK
  <2>2. calls' # Shutdown
    BY <2>1 DEF Shutdown
  <2>3. /\ requests' = [requests EXCEPT ![plugins[n]] = Append(@, calls')] /\ answers' = answers
        /\ call' = [call EXCEPT ![t] = [st |-> "waiting", p |-> plugins[n],
                                       id |-> calls', got |-> 0]]
        /\ ~Waiting(t)
    BY DEF Send
  <2>4. /\ mixed \subseteq mixed'
        /\ plugins[n] \in mixed' \/ \A u \in Threads : ~(Waiting(u) /\ call[u].p = plugins[n])
    <3>1. mixed' = IF \E u \in Threads : Waiting(u) /\ call[u].p = plugins[n]
                   THEN mixed \union {plugins[n]} ELSE mixed
      BY DEF Send
    <3> QED
      BY <3>1
  <2> QED
    BY <2>1, <2>2, <2>3, <2>4
<1>2. call'[t].st = "waiting" /\ call'[t].p = p /\ call'[t].id = calls'
      /\ \A u \in Threads \ {t} : call'[u] = call[u]
  BY <1>1 DEF TypeOK
<1>3. ASSUME NEW q \in Processes \ mixed', q # p PROVE OneCall(q)'
  <2>1. On(q)' = On(q) /\ \A u \in On(q) : call'[u].id = call[u].id
    BY <1>1, <1>2, <1>3 DEF On, Waiting
  <2>2. requests'[q] = requests[q] /\ answers'[q] = answers[q] /\ OneCall(q)
    BY <1>1, <1>3 DEF TypeOK, Uncrossed
  <2> QED
    BY <2>1, <2>2 DEF OneCall
<1>4. ASSUME p \notin mixed' PROVE OneCall(p)'
  <2>1. On(p) = {} /\ OneCall(p)
    BY <1>1, <1>4 DEF On, Uncrossed
  <2>2. On(p)' = {t}
    BY <1>1, <1>2, <2>1 DEF On, Waiting
  <2>3. answers[p] = <<>> /\ Calls(requests[p]) = {} /\ requests[p] \in Seq(Nat)
    BY <1>1, <2>1 DEF OneCall, TypeOK
  <2>4. requests'[p] = Append(requests[p], calls') /\ answers'[p] = <<>>
    BY <1>1, <2>3 DEF TypeOK
  <2>5. /\ Calls(requests'[p]) = {Len(requests[p]) + 1}
        /\ requests'[p][Len(requests[p]) + 1] = calls'
    <3>1. calls' \in Nat /\ calls' # Shutdown
      BY <1>1
    <3> QED
      BY <2>3, <2>4, <3>1, AppendTo
  <2> QED
    BY <1>2, <2>2, <2>4, <2>5 DEF OneCall
<1>5. torn' \subseteq mixed'
  BY <1>1 DEF Send, Uncrossed
<1> QED
  BY <1>3, <1>4, <1>5 DEF Uncrossed

\* Where no calls cross nobody reads a length while another one is at the bytes.
LEMMA HeaderCall ==
    ASSUME TypeOK, Uncrossed, AnswersMatch, NEW t \in Threads, ReadHeader(t)
    PROVE  Uncrossed' /\ AnswersMatch'
<1>1. PICK p \in Processes :
      /\ p = call[t].p /\ call[t].st = "waiting" /\ Waiting(t)
      /\ call' = [call EXCEPT ![t].st = "reading"]
      /\ requests' = requests /\ mixed' = mixed
      /\ IF Reading(p) = {} THEN torn' = torn /\ answers' = answers ELSE Tear(p)
  BY DEF ReadHeader, TypeOK, Waiting
<1>2. /\ call'[t].st = "reading" /\ call'[t].p = p /\ call'[t].id = call[t].id
      /\ \A u \in Threads \ {t} : call'[u] = call[u]
  BY <1>1 DEF TypeOK
<1>3. \A q : On(q)' = On(q) /\ \A u \in On(q) : call'[u].id = call[u].id
  BY <1>1, <1>2 DEF On, Waiting
<1>4. ASSUME p \notin mixed PROVE Reading(p) = {}
  <2>1. OneCall(p) /\ t \in On(p) /\ Reading(p) \subseteq On(p)
    BY <1>1, <1>4 DEF Uncrossed, On, Reading, Waiting
  <2>2. \A u \in Reading(p) : u = t /\ call[u].st = "reading"
    BY <2>1 DEF OneCall, Reading
  <2> QED
    BY <1>1, <2>2
<1>5. torn' \subseteq mixed'
  BY <1>1, <1>4 DEF Uncrossed, Tear
<1>6. ASSUME NEW q \in Processes \ mixed PROVE OneCall(q)'
  <2>1. answers'[q] = answers[q]
    BY <1>1, <1>4, <1>6 DEF Tear, TypeOK
  <2>2. OneCall(q) /\ requests'[q] = requests[q]
    BY <1>1, <1>6 DEF Uncrossed
  <2> QED
    BY <1>3, <2>1, <2>2 DEF OneCall
<1>7. AnswersMatch'
  BY <1>1, <1>2 DEF AnswersMatch
<1> QED
  BY <1>1, <1>5, <1>6, <1>7 DEF Uncrossed

LEMMA BodyCall ==
    ASSUME TypeOK, Uncrossed, AnswersMatch, NEW t \in Threads, ReadBody(t)
    PROVE  Uncrossed' /\ AnswersMatch'
<1>1. PICK p \in Processes :
      /\ p = call[t].p /\ Waiting(t) /\ answers[p] # <<>> /\ answers[p] \in Seq(Nat)
      /\ call' = [call EXCEPT ![t].st = "returned", ![t].got = Head(answers[p])]
      /\ answers' = [answers EXCEPT ![p] = Tail(@)]
      /\ requests' = requests /\ mixed' = mixed /\ torn' = torn
  BY DEF ReadBody, TypeOK, Waiting
<1>2. /\ call'[t].st = "returned" /\ call'[t].p = p /\ call'[t].id = call[t].id
      /\ call'[t].got = Head(answers[p])
      /\ \A u \in Threads \ {t} : call'[u] = call[u]
  BY <1>1 DEF TypeOK
<1>3. ASSUME NEW q \in Processes \ mixed, q # p PROVE OneCall(q)'
  <2>1. t \notin On(q)
    BY <1>1, <1>3 DEF On
  <2>2. On(q)' = On(q) /\ \A u \in On(q) : call'[u].id = call[u].id
    BY <1>1, <1>2, <2>1 DEF On, Waiting
  <2>3. requests'[q] = requests[q] /\ answers'[q] = answers[q] /\ OneCall(q)
    BY <1>1, <1>3 DEF TypeOK, Uncrossed
  <2> QED
    BY <2>2, <2>3 DEF OneCall
<1>4. ASSUME p \notin mixed PROVE OneCall(p)' /\ Head(answers[p]) = call[t].id
  <2>1. OneCall(p) /\ t \in On(p)
    BY <1>1, <1>4 DEF On, Uncrossed
  <2>2. /\ Len(answers[p]) = 1 /\ Calls(requests[p]) = {}
        /\ answers[p][1] = call[t].id /\ On(p) = {t}
    BY <1>1, <2>1 DEF OneCall
  <2>3. Tail(answers[p]) = <<>> /\ Head(answers[p]) = call[t].id
    <3>1. answers[p] \in Seq(Nat) /\ answers[p] # <<>>
      BY <1>1
    <3>2. Tail(answers[p]) = <<>> /\ Head(answers[p]) = answers[p][1]
      BY <2>2, <3>1, TailOf
    <3> QED
      BY <2>2, <3>2
  <2>4. On(p)' = {}
    <3>1. \A u \in Threads \ {t} : ~(Waiting(u) /\ call[u].p = p)
      BY <2>2 DEF On
    <3>2. \A u \in Threads : ~(Waiting(u)' /\ call'[u].p = p)
      BY <1>2, <3>1 DEF Waiting
    <3> QED
      BY <3>2 DEF On
  <2>5. answers'[p] = <<>> /\ requests'[p] = requests[p]
    BY <1>1, <2>3 DEF TypeOK
  <2>6. Calls(requests'[p]) = {}
    BY <2>2, <2>5
  <2>7. OneCall(p)'
    BY <2>4, <2>5, <2>6 DEF OneCall
  <2> QED
    BY <2>3, <2>7
<1>5. AnswersMatch'
  <2>1. ASSUME NEW u \in Threads, call'[u].st = "returned", call'[u].p \notin mixed
        PROVE  call'[u].got = call'[u].id
    <3>1. CASE u = t
      BY <1>2, <1>4, <2>1, <3>1
    <3>2. CASE u # t
      BY <1>2, <2>1, <3>2 DEF AnswersMatch
    <3> QED
      BY <3>1, <3>2
  <2> QED
    BY <1>1, <2>1 DEF AnswersMatch
<1> QED
  BY <1>1, <1>3, <1>4, <1>5 DEF Uncrossed

LEMMA EndCall ==
    ASSUME TypeOK, Started, Uncrossed, NEW t \in Threads, ReceiveEnd(t) \/ Interrupt(t) \/ Garbled(t)
    PROVE  Uncrossed'
<1>1. PICK p \in Processes :
      /\ p = call[t].p /\ Waiting(t)
      /\ call' = [call EXCEPT ![t] = Idle]
      /\ requests' = requests /\ mixed \subseteq mixed' /\ torn' \subseteq torn \union mixed'
      /\ \A q \in Processes \ {p} : answers'[q] = answers[q]
      /\ p \in mixed' \/ (answers[p] = <<>> /\ answers' = answers /\ state[p] = "down")
  <2>1. call[t].p \in Processes
    BY DEF ReceiveEnd, Interrupt, Garbled, TypeOK
  <2> QED
    BY <2>1 DEF ReceiveEnd, Interrupt, Garbled, Tear, pipes, TypeOK, Uncrossed
<1>2. call'[t].st = "idle" /\ \A u \in Threads \ {t} : call'[u] = call[u]
  BY <1>1 DEF TypeOK, Idle
<1>3. ASSUME NEW q \in Processes \ mixed', q # p PROVE OneCall(q)'
  <2>1. t \notin On(q)
    BY <1>1, <1>3 DEF On
  <2>2. On(q)' = On(q) /\ \A u \in On(q) : call'[u].id = call[u].id
    BY <1>1, <1>2, <2>1 DEF On, Waiting
  <2>3. requests'[q] = requests[q] /\ answers'[q] = answers[q] /\ OneCall(q)
    BY <1>1, <1>3 DEF Uncrossed
  <2> QED
    BY <2>2, <2>3 DEF OneCall
<1>4. ASSUME p \notin mixed' PROVE OneCall(p)'
  <2>1. answers[p] = <<>> /\ requests[p] = <<>> /\ OneCall(p)
    BY <1>1, <1>4 DEF Started, Uncrossed
  <2>2. On(p)' \subseteq On(p)
    BY <1>1, <1>2 DEF On, Waiting
  <2>3. \A u \in On(p)', v \in On(p)' : u = v
    BY <2>1, <2>2 DEF OneCall
  <2>4. answers'[p] = <<>> /\ Calls(requests'[p]) = {}
    BY <1>1, <1>4, <2>1, Nothing
  <2> QED
    BY <2>3, <2>4 DEF OneCall
<1> QED
  BY <1>1, <1>3, <1>4 DEF Uncrossed

\* The steps of a process, and of the loop that ends it.
LEMMA ServeCall ==
    ASSUME TypeOK, Uncrossed, NEW p \in Processes, Serve(p), Head(requests[p]) # Shutdown
    PROVE  Uncrossed'
<1>1. /\ requests[p] # <<>> /\ requests[p] \in Seq(Nat) /\ answers[p] \in Seq(Nat)
      /\ requests' = [requests EXCEPT ![p] = Tail(@)]
      /\ \A q \in Processes \ {p} : answers'[q] = answers[q]
      /\ p \notin mixed => answers' = [answers EXCEPT ![p] = Append(@, Head(requests[p]))]
      /\ call' = call /\ mixed' = mixed /\ torn' = torn
  BY DEF Serve, calling, TypeOK, Uncrossed
<1>2. \A q : On(q)' = On(q)
  BY <1>1 DEF On, Waiting
<1>3. ASSUME NEW q \in Processes \ mixed, q # p PROVE OneCall(q)'
  BY <1>1, <1>2, <1>3 DEF Uncrossed, OneCall, TypeOK
<1>4. ASSUME p \notin mixed PROVE OneCall(p)'
  <2>1. OneCall(p) /\ 1 \in Calls(requests[p]) /\ Head(requests[p]) = requests[p][1]
        /\ Head(requests[p]) \in Nat
    BY <1>1, <1>4, TailOf DEF Uncrossed
  <2>2. answers[p] = <<>>
    BY <2>1 DEF OneCall
  <2>3. Calls(Tail(requests[p])) = {}
    BY <1>1, <2>1, TailOf DEF OneCall
  <2>4. requests'[p] = Tail(requests[p]) /\ answers'[p] = Append(answers[p], Head(requests[p]))
    BY <1>1, <1>4 DEF TypeOK
  <2>5. Len(answers'[p]) = 1 /\ answers'[p][1] = requests[p][1]
    <3>1. Len(answers[p]) + 1 = 1
      BY <2>2
    <3> QED
      BY <1>1, <2>1, <2>2, <2>4, <3>1, AppendTo
  <2>6. \E t \in On(p) : answers'[p][1] = call[t].id
    BY <2>1, <2>5 DEF OneCall
  <2> QED
    BY <1>1, <1>2, <2>1, <2>3, <2>4, <2>5, <2>6 DEF OneCall
<1> QED
  BY <1>1, <1>3, <1>4 DEF Uncrossed

LEMMA CloseCall ==
    ASSUME TypeOK, Uncrossed, NEW n \in Names, ShutdownSend(n)
    PROVE  Uncrossed'
<1>1. PICK p \in Processes :
      /\ call' = call /\ mixed' = mixed /\ torn' = torn /\ answers' = answers
      /\ \/ requests' = requests
         \/ requests' = [requests EXCEPT ![p] = Append(@, Shutdown)]
  <2>1. plugins[n] \in Processes
    BY DEF ShutdownSend, TypeOK, Mounted
  <2>2. \/ requests' = requests
        \/ requests' = [requests EXCEPT ![plugins[n]] = Append(@, Shutdown)]
    BY DEF ShutdownSend
  <2>3. call' = call /\ mixed' = mixed /\ torn' = torn /\ answers' = answers
    BY DEF ShutdownSend, calling
  <2> QED
    BY <2>1, <2>2, <2>3
<1>2. \A q : On(q)' = On(q)
  BY <1>1 DEF On, Waiting
<1>3. ASSUME NEW q \in Processes \ mixed, requests'[q] = requests[q] PROVE OneCall(q)'
  <2>1. OneCall(q) /\ On(q)' = On(q) /\ answers'[q] = answers[q] /\ call' = call
    BY <1>1, <1>2 DEF Uncrossed
  <2> QED
    BY <1>3, <2>1 DEF OneCall
<1>4. ASSUME p \notin mixed, requests' = [requests EXCEPT ![p] = Append(@, Shutdown)]
      PROVE  OneCall(p)'
  <2>1. requests[p] \in Seq(Nat) /\ requests'[p] = Append(requests[p], Shutdown) /\ OneCall(p)
    BY <1>1, <1>4 DEF TypeOK, Uncrossed
  <2>2. Calls(requests'[p]) = Calls(requests[p])
        /\ \A i \in Calls(requests[p]) : requests'[p][i] = requests[p][i]
    <3>1. Shutdown \in Nat
      BY DEF Shutdown
    <3>2. /\ Calls(Append(requests[p], Shutdown)) = Calls(requests[p])
          /\ \A i \in Calls(requests[p]) : Append(requests[p], Shutdown)[i] = requests[p][i]
      BY <2>1, <3>1, AppendTo
    <3> QED
      BY <2>1, <3>2
  <2> QED
    BY <1>1, <1>2, <2>1, <2>2 DEF OneCall
<1> QED
  <2>1. CASE requests' = requests
    BY <1>1, <1>3, <2>1 DEF Uncrossed
  <2>2. CASE requests' = [requests EXCEPT ![p] = Append(@, Shutdown)]
    <3>1. \A q \in Processes : q # p => requests'[q] = requests[q]
      BY <2>2 DEF TypeOK
    <3> QED
      BY <1>1, <1>3, <1>4, <2>2, <3>1 DEF Uncrossed
  <2> QED
    BY <1>1, <2>1, <2>2

\* What a process had not read is lost with it.
LEMMA LoseCall ==
    ASSUME TypeOK, Uncrossed, NEW p \in Processes, End(p), UNCHANGED <<answers, call, mixed, torn>>
    PROVE  Uncrossed'
<1>1. ASSUME NEW q \in Processes \ mixed PROVE OneCall(q)'
  <2>1. requests'[q] = <<>> \/ requests'[q] = requests[q]
    BY EndOf
  <2>2. On(q)' = On(q) /\ OneCall(q)
    BY DEF On, Waiting, Uncrossed
  <2> QED
    BY <2>1, <2>2, Drained
<1> QED
  BY <1>1 DEF Uncrossed

LEMMA NextUncrossed ==
    TypeOK /\ Started /\ Uncrossed /\ AnswersMatch /\ [Next]_vars
        => Uncrossed' /\ AnswersMatch'
<1> SUFFICES ASSUME TypeOK, Started, Uncrossed, AnswersMatch, [Next]_vars
             PROVE  Uncrossed' /\ AnswersMatch'
  OBVIOUS
<1> USE DEF pipes, calling, ending
<1>1. ASSUME UNCHANGED <<call, mixed>> PROVE AnswersMatch'
  BY <1>1 DEF AnswersMatch
<1>2. CASE UNCHANGED <<requests, answers, call, mixed, torn>>
  <2>1. ASSUME NEW q \in Processes \ mixed PROVE OneCall(q)'
    BY <1>2, Drained DEF Uncrossed, On, Waiting
  <2> QED
    BY <1>1, <1>2, <2>1 DEF Uncrossed
<1>3. ASSUME NEW t \in Threads, NEW n \in Names, Send(t, n) PROVE Uncrossed' /\ AnswersMatch'
  <2>1. /\ call'[t].st = "waiting" /\ \A u \in Threads \ {t} : call'[u] = call[u]
        /\ mixed \subseteq mixed'
    BY <1>3 DEF Send, TypeOK
  <2> QED
    BY <1>3, <2>1, SendCall DEF AnswersMatch
<1>4. ASSUME NEW t \in Threads, ReadHeader(t) \/ ReadBody(t) PROVE Uncrossed' /\ AnswersMatch'
  BY <1>4, HeaderCall, BodyCall
<1>5. ASSUME NEW t \in Threads, ReceiveEnd(t) \/ Interrupt(t) \/ Garbled(t)
      PROVE  Uncrossed' /\ AnswersMatch'
  <2>1. /\ call' = [call EXCEPT ![t] = Idle] /\ Idle.st = "idle"
        /\ mixed \subseteq mixed'
    BY <1>5 DEF ReceiveEnd, Interrupt, Garbled, Idle
  <2>2. call'[t].st = "idle" /\ \A u \in Threads \ {t} : call'[u] = call[u]
    BY <2>1 DEF TypeOK
  <2> QED
    BY <1>5, <2>1, <2>2, EndCall DEF AnswersMatch
<1>6. ASSUME NEW p \in Processes, End(p), UNCHANGED <<answers, call, mixed, torn>>
      PROVE  Uncrossed' /\ AnswersMatch'
  BY <1>1, <1>6, LoseCall
<1>7. ASSUME NEW p \in Processes, Serve(p) PROVE Uncrossed' /\ AnswersMatch'
  <2>1. CASE Head(requests[p]) = Shutdown
    BY <1>6, <1>7, <2>1 DEF Serve
  <2>2. CASE Head(requests[p]) # Shutdown
    BY <1>1, <1>7, <2>2, ServeCall DEF Serve
  <2> QED
    BY <2>1, <2>2
<1>8. ASSUME NEW p \in Processes, Die(p) \/ Terminate(p) PROVE Uncrossed' /\ AnswersMatch'
  BY <1>6, <1>8 DEF Die, Terminate
<1>9. ASSUME NEW n \in Names, ShutdownSend(n) PROVE Uncrossed' /\ AnswersMatch'
  BY <1>1, <1>9, CloseCall DEF ShutdownSend
<1> QED
  BY <1>2, <1>3, <1>4, <1>5, <1>7, <1>8, <1>9
     DEF Next, Recv, ShutdownAll, Mount, ShutdownBegin, ShutdownRaises, ShutdownJoin,
         ShutdownDone, vars
-----------------------------------------------------------------------------
\* IndInv holds throughout: mounting, calls, deaths and the shutdown keep what
\* the three results below need.
THEOREM RegistryInductive == Spec => []IndInv
<1>1. Init => IndInv
  BY InitIndInv
<1>2. IndInv /\ [Next]_vars => IndInv'
  BY NextType, NextStarted, NextOwed, NextUncrossed DEF IndInv
<1> QED
  BY <1>1, <1>2, PTL DEF Spec

\* Every variable keeps its type; what the loop has left to come to is mounted.
THEOREM RegistryTypeCorrect == Spec => []TypeOK
<1>1. IndInv => TypeOK
  BY DEF IndInv
<1> QED
  BY <1>1, RegistryInductive, PTL

\* A dispatch returns the answer to its own call as long as the calls of that
\* process neither overlap nor are interrupted, however many threads dispatch to
\* however many plugins.
THEOREM Matched == Spec => []AnswersMatch
<1>1. IndInv => AnswersMatch
  BY DEF IndInv
<1> QED
  BY <1>1, RegistryInductive, PTL

\* When shutdown_all has returned, what it found mounted and nothing replaced is
\* down or has been sent SIGTERM, for any number of plugins.
THEOREM ShutdownComplete == Spec => []ShutdownIsComplete
<1>1. IndInv => ShutdownIsComplete
  BY DEF IndInv
<1> QED
  BY <1>1, RegistryInductive, PTL
=============================================================================
