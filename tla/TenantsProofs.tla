--------------------------- MODULE TenantsProofs ---------------------------
(***************************************************************************)
(* Proofs about Tenants for any certificates, tenants and connections.     *)
(* The table keeps its promises by itself; what a drop leaves behind       *)
(* follows from what the writers it still holds cover (Covered) and from   *)
(* what "shut" certificates have in common (Shut).                         *)
(***************************************************************************)
EXTENDS Tenants, TLAPS

\* While its sessions are dropped, a tenant's open connections are among the
\* writers that are still to be closed, so that clearing the registry at the
\* end forgets nobody.
Covered ==
    ~raced => \A t \in dropping : \A k \in Conns :
        Open(k) /\ TenantOf[cert[k]] = t => k \in writers[t]

\* A certificate is being shut, or was shut, only while it is locked.
Shut ==
    \A c \in Certs :
        /\ shut[c] # "no" => ram[c] = "locked"
        /\ shut[c] = "closing" => TenantOf[c] \in dropping

IndInv ==
    /\ TypeOK
    /\ StatusIsDurable
    /\ SessionsTracked
    /\ Covered
    /\ Shut
    /\ LockThenSever

-----------------------------------------------------------------------------
LEMMA InitIndInv == Init => IndInv
<1> SUFFICES ASSUME Init PROVE IndInv
    OBVIOUS
<1>1. TypeOK
  BY TenantsAssumption DEF TenantsAssumption, Init, TypeOK, Entries
<1>2. StatusIsDurable /\ Shut
  BY DEF Init, StatusIsDurable, Shut
<1>3. \A k \in Conns : ~Open(k)
  BY DEF Init, Open
<1> QED
  BY <1>1, <1>2, <1>3 DEF Init, IndInv, SessionsTracked, Covered, LockThenSever

\* The methods of the ledger keep the types ...
LEMMA LedgerType == TypeOK /\ Ledger => TypeOK'
<1> SUFFICES ASSUME TypeOK, Ledger PROVE TypeOK'
    OBVIOUS
<1> USE TenantsAssumption DEF TenantsAssumption, TypeOK, gateway, history, Entries
<1>1. ASSUME NEW c \in Certs, NEW e \in {"open", "locked"}, NEW saved \in BOOLEAN,
             Set(c, e, saved)
      PROVE  TypeOK'
  BY <1>1 DEF Set, Save, Report, StillShut
<1>2. CASE \E c \in Certs : AddTenant(c)
  BY <1>1, <1>2 DEF AddTenant
<1>3. CASE \E c \in Certs, e \in {"open", "locked"} : UpdateTenantStatus(c, e)
  BY <1>1, <1>3 DEF UpdateTenantStatus
<1>4. CASE SealOther
  BY <1>4 DEF SealOther
<1> QED
  BY <1>2, <1>3, <1>4 DEF Ledger

\* ... and so do the override ...
LEMMA OverrideType == TypeOK /\ Override => TypeOK'
<1> SUFFICES ASSUME TypeOK, NEW t \in Tenants,
                    Freeze(t) \/ FreezeUnknown(t) \/ FreezeWithoutLedger(t)
             PROVE  TypeOK'
    BY DEF Override
<1> USE TenantsAssumption
    DEF TenantsAssumption, TypeOK, table, gateway, history, Entries, CertsOf, StillShut
<1>1. CASE Freeze(t)
  BY <1>1 DEF Freeze
<1>2. CASE FreezeUnknown(t)
  BY <1>2 DEF FreezeUnknown
<1>3. CASE FreezeWithoutLedger(t)
  BY <1>3 DEF FreezeWithoutLedger
<1> QED
  BY <1>1, <1>2, <1>3

\* ... the gateway, and a crash.
LEMMA GatewayType == TypeOK /\ (Gateway \/ Crash) => TypeOK'
<1> SUFFICES ASSUME TypeOK, Gateway \/ Crash PROVE TypeOK'
    OBVIOUS
<1> USE TenantsAssumption DEF TenantsAssumption, TypeOK, table, history
<1>1. ASSUME NEW k \in Conns, NEW c \in Certs, Admit(k, c) PROVE TypeOK'
  BY <1>1 DEF Admit
<1>2. ASSUME NEW k \in Conns, Disconnect(k) PROVE TypeOK'
  BY <1>2 DEF Disconnect
<1>3. ASSUME NEW t \in Tenants, DropFirst(t) PROVE TypeOK'
  BY <1>3 DEF DropFirst, Sever
<1>4. ASSUME NEW t \in Tenants, DropNobody(t) PROVE TypeOK'
  BY <1>4 DEF DropNobody
<1>5. ASSUME NEW t \in Tenants, DropNext(t) PROVE TypeOK'
  BY <1>5 DEF DropNext, Sever
<1>6. ASSUME NEW t \in Tenants, DropEnd(t) PROVE TypeOK'
  BY <1>6 DEF DropEnd
<1>7. CASE Crash
  BY <1>7 DEF Crash, StillShut
<1> QED
  BY <1>1, <1>2, <1>3, <1>4, <1>5, <1>6, <1>7 DEF Gateway

LEMMA TypeStep == TypeOK /\ [Next]_vars => TypeOK'
<1> SUFFICES ASSUME TypeOK, UNCHANGED vars PROVE TypeOK'
    BY LedgerType, OverrideType, GatewayType DEF Next
<1> QED
  BY DEF TypeOK, vars, table, gateway, history

-----------------------------------------------------------------------------
\* The two tables differ from what was reported only where a call raised: a
\* seal copies one to the other, and so does a reload.
LEMMA StatusStep == TypeOK /\ StatusIsDurable /\ [Next]_vars => StatusIsDurable'
<1> SUFFICES ASSUME TypeOK, StatusIsDurable, [Next]_vars PROVE StatusIsDurable'
    OBVIOUS
<1> USE DEF TypeOK, StatusIsDurable
<1>1. ASSUME NEW c \in Certs, NEW e \in {"open", "locked"}, NEW saved \in BOOLEAN,
             Set(c, e, saved)
      PROVE  StatusIsDurable'
  BY <1>1 DEF Set, Save, Report
<1>2. CASE Ledger
  BY <1>1, <1>2 DEF Ledger, AddTenant, UpdateTenantStatus, SealOther, history
<1>3. CASE Override
  <2> SUFFICES ASSUME NEW t \in Tenants,
                      Freeze(t) \/ FreezeUnknown(t) \/ FreezeWithoutLedger(t)
               PROVE  StatusIsDurable'
      BY <1>3 DEF Override
  <2>1. CASE Freeze(t)
    BY <2>1 DEF Freeze, CertsOf
  <2>2. CASE FreezeUnknown(t) \/ FreezeWithoutLedger(t)
    BY <2>2 DEF FreezeUnknown, FreezeWithoutLedger, table, history
  <2> QED
    BY <2>1, <2>2
<1>4. CASE Gateway
  BY <1>4
     DEF Gateway, Admit, Disconnect, DropFirst, DropNobody, DropNext, DropEnd, table, history
<1>5. CASE Crash
  BY <1>5 DEF Crash
<1>6. CASE UNCHANGED vars
  BY <1>6 DEF vars, table, history
<1> QED
  BY <1>2, <1>3, <1>4, <1>5, <1>6 DEF Next

-----------------------------------------------------------------------------
\* What the properties of the gateway rest on, together.
Guarded == SessionsTracked /\ Covered /\ Shut /\ LockThenSever

\* The ledger and the override leave the gateway and its connections alone.
LEMMA GuardedLedger == TypeOK /\ Guarded /\ (Ledger \/ Override) => Guarded'
<1> SUFFICES ASSUME TypeOK, Guarded, Ledger \/ Override PROVE Guarded'
    OBVIOUS
<1>1. UNCHANGED <<at, cert, sessions, dropping, writers, raced>>
  BY DEF Ledger, Override, AddTenant, UpdateTenantStatus, Set, SealOther, Freeze,
         FreezeUnknown, FreezeWithoutLedger, gateway, history
<1>2. StillShut \/ UNCHANGED <<ram, shut>>
  BY DEF Ledger, Override, AddTenant, UpdateTenantStatus, Set, SealOther, Freeze,
         FreezeUnknown, FreezeWithoutLedger, table, history
<1>3. ram' \in [Certs -> Entries]
  BY LedgerType, OverrideType DEF TypeOK
<1>4. SessionsTracked' /\ Covered'
  BY <1>1 DEF Guarded, SessionsTracked, Covered, Open
<1>5. Shut'
  BY <1>1, <1>2, <1>3 DEF TypeOK, Guarded, Shut, StillShut
<1>6. \A c \in Certs : shut'[c] = "shut" => shut[c] = "shut"
  BY <1>2 DEF TypeOK, StillShut
<1>7. \A k \in Conns : Open(k) => cert[k] \in Certs
  BY DEF TypeOK, Open
<1>8. LockThenSever'
  BY <1>1, <1>6, <1>7 DEF Guarded, LockThenSever, Open
<1> QED
  BY <1>4, <1>5, <1>8 DEF Guarded

\* A new connection has a certificate that is not shut, and its tenant's
\* sessions are not being dropped, or the race has happened.
LEMMA GuardedAdmit ==
    ASSUME TypeOK, Guarded, NEW k \in Conns, NEW c \in Certs, Admit(k, c)
    PROVE  Guarded'
<1> USE TenantsAssumption DEF TenantsAssumption, TypeOK, Admit, Guarded
<1>1. SessionsTracked'
  BY DEF SessionsTracked, Open
<1>2. Covered'
  BY DEF Covered, Open
<1>3. Shut'
  BY DEF Shut, table
<1>4. shut[c] = "no"
  BY DEF Shut
<1>5. LockThenSever'
  BY <1>4 DEF LockThenSever, Open
<1> QED
  BY <1>1, <1>2, <1>3, <1>5

\* A connection that ends is nobody's concern any more.
LEMMA GuardedDisconnect ==
    ASSUME TypeOK, Guarded, NEW k \in Conns, Disconnect(k)
    PROVE  Guarded'
<1> USE TenantsAssumption DEF TenantsAssumption, TypeOK, Disconnect, Guarded, history, table
<1>1. \A j \in Conns : Open(j)' => j # k /\ Open(j) /\ cert'[j] = cert[j]
  BY DEF Open
<1>2. SessionsTracked'
  BY <1>1 DEF SessionsTracked, Open
<1>3. Covered'
  BY <1>1 DEF Covered
<1>4. Shut' /\ LockThenSever'
  BY <1>1 DEF Shut, LockThenSever
<1> QED
  BY <1>2, <1>3, <1>4

\* The first writer is closed, the others are held: they cover the tenant.
LEMMA GuardedDropFirst ==
    ASSUME TypeOK, Guarded, NEW t \in Tenants, DropFirst(t)
    PROVE  Guarded'
<1> USE TenantsAssumption DEF TenantsAssumption, TypeOK, Guarded
<1>1. PICK j \in sessions[t] : Sever(j) /\ writers' = [writers EXCEPT ![t] = sessions[t] \ {j}]
  BY DEF DropFirst
<1>2. \A k \in Conns : Open(k)' => k # j /\ Open(k)
  BY <1>1 DEF Sever, Open
<1>3. SessionsTracked'
  BY <1>2 DEF DropFirst, SessionsTracked
<1>4. Covered'
  BY <1>1, <1>2 DEF DropFirst, SessionsTracked, Covered
<1>5. Shut'
  BY DEF DropFirst, Shut, Locked, CertsOf, table
<1>6. LockThenSever'
  BY <1>2 DEF DropFirst, LockThenSever, Open
<1> QED
  BY <1>3, <1>4, <1>5, <1>6

\* Without a session in the registry the tenant has no open connection.
LEMMA GuardedDropNobody ==
    ASSUME TypeOK, Guarded, NEW t \in Tenants, DropNobody(t)
    PROVE  Guarded'
<1> USE TenantsAssumption DEF TenantsAssumption, TypeOK, Guarded, DropNobody, table
<1>1. SessionsTracked' /\ Covered'
  BY DEF SessionsTracked, Covered, Open
<1>2. Shut'
  BY DEF Shut, Locked, CertsOf
<1>3. LockThenSever'
  BY DEF SessionsTracked, LockThenSever, Locked, CertsOf, Open
<1> QED
  BY <1>1, <1>2, <1>3

LEMMA GuardedDropNext ==
    ASSUME TypeOK, Guarded, NEW t \in Tenants, DropNext(t)
    PROVE  Guarded'
<1> USE TenantsAssumption DEF TenantsAssumption, TypeOK, Guarded, history, table
<1>1. PICK j \in writers[t] : Sever(j) /\ writers' = [writers EXCEPT ![t] = @ \ {j}]
  BY DEF DropNext
<1>2. \A k \in Conns : Open(k)' => k # j /\ Open(k)
  BY <1>1 DEF Sever, Open
<1>3. SessionsTracked' /\ Shut' /\ LockThenSever'
  BY <1>2 DEF DropNext, SessionsTracked, Shut, LockThenSever
<1>4. Covered'
  BY <1>1, <1>2 DEF DropNext, Covered
<1> QED
  BY <1>3, <1>4

\* No writer is left to close, so nobody is open whom clear forgets.
LEMMA GuardedDropEnd ==
    ASSUME TypeOK, Guarded, NEW t \in Tenants, DropEnd(t)
    PROVE  Guarded'
<1> USE TenantsAssumption DEF TenantsAssumption, TypeOK, Guarded, DropEnd, table
<1>1. ~raced => \A k \in Conns : Open(k) => TenantOf[cert[k]] # t
  BY DEF Covered
<1>2. SessionsTracked'
  BY <1>1 DEF SessionsTracked, Open
<1>3. Covered'
  BY DEF Covered, Open
<1>4. Shut'
  BY DEF Shut, CertsOf
<1>5. LockThenSever'
  BY <1>1 DEF LockThenSever, CertsOf, Open
<1> QED
  BY <1>2, <1>3, <1>4, <1>5

\* Nobody is connected to a daemon that was started again.
LEMMA GuardedCrash == TypeOK /\ Guarded /\ Crash => Guarded'
<1> SUFFICES ASSUME TypeOK, Guarded, Crash PROVE Guarded'
    OBVIOUS
<1>1. \A k \in Conns : ~Open(k)'
  BY DEF Crash, Open
<1>2. Shut'
  BY DEF TypeOK, Crash, Shut
<1> QED
  BY <1>1, <1>2 DEF Guarded, SessionsTracked, Covered, LockThenSever

LEMMA GuardedStep == TypeOK /\ Guarded /\ [Next]_vars => Guarded'
<1> SUFFICES ASSUME TypeOK, Guarded, Gateway \/ UNCHANGED vars PROVE Guarded'
    BY GuardedLedger, GuardedCrash DEF Next
<1>1. CASE UNCHANGED vars
  BY <1>1 DEF vars, table, gateway, history, Guarded, SessionsTracked, Covered, Shut,
              LockThenSever, Open
<1>2. CASE Gateway
  BY <1>2, GuardedAdmit, GuardedDisconnect, GuardedDropFirst, GuardedDropNobody,
     GuardedDropNext, GuardedDropEnd DEF Gateway
<1> QED
  BY <1>1, <1>2

-----------------------------------------------------------------------------
\* Types, promises and what guards the gateway hold in every reachable state.
THEOREM Inductive == Spec => []IndInv
<1>1. IndInv /\ [Next]_vars => IndInv'
  BY TypeStep, StatusStep, GuardedStep DEF IndInv, Guarded
<1> QED
  BY InitIndInv, <1>1, PTL DEF Spec

\* Every reachable state is well typed; in particular the registry holds only
\* connections of the tenant itself whose handler has not ended.
THEOREM TypeCorrect == Spec => []TypeOK
<1>1. IndInv => TypeOK
  BY DEF IndInv
<1> QED
  BY Inductive, <1>1, PTL

\* A status the ledger reported is on disk and in memory until a later call
\* for the same certificate raises.
THEOREM StatusDurable == Spec => []StatusIsDurable
<1>1. IndInv => StatusIsDurable
  BY DEF IndInv
<1> QED
  BY Inductive, <1>1, PTL

\* The registry knows every connection that is served, as long as nobody is
\* admitted while the sessions of his tenant are dropped.
THEOREM RegistryComplete == Spec => []SessionsTracked
<1>1. IndInv => SessionsTracked
  BY DEF IndInv
<1> QED
  BY Inductive, <1>1, PTL

\* Under the same condition a certificate that was locked before a drop, and
\* stays locked, has no open connection after it.
THEOREM LockedOut == Spec => []LockThenSever
<1>1. IndInv => LockThenSever
  BY DEF IndInv
<1> QED
  BY Inductive, <1>1, PTL
=============================================================================
