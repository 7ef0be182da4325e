----------------------------- MODULE KeyProofs ------------------------------
(***************************************************************************)
(* Proofs about Unlock, from the password to the key, for any passwords,   *)
(* machines and callbacks, and about Enclave, where keys are kept, for any *)
(* blocks, pages and limit.                                                *)
(*                                                                         *)
(* OwnerIsAdmitted compares the machine of an unlock with that of the      *)
(* birth: keys are equal exactly when password, signature and cost class   *)
(* are (SameKeys), and what was written at the birth is the key of one     *)
(* machine and password (OneBirth, OneOutcome). NukeReachesLedger needs    *)
(* that a run of the callbacks comes to the shredder (NukeGoesOn).         *)
(*                                                                         *)
(* KeysArePinned speaks of blocks that contain a key; the page has to be   *)
(* locked before, so the invariant speaks of every block from mlock on,    *)
(* and says that exactly the held ones contain a key.                      *)
(***************************************************************************)
EXTENDS Unlock, Enclave, FiniteSetTheorems, TLAPS

\* A machine signs in one way or not at all, and like another one exactly when
\* it has the same TPM and hostname or, without a TPM, the same machine-id.
LEMMA OneSignature ==
    ASSUME NEW m \in Machines
    PROVE  IF m.tpm THEN Signatures(m) = {<<"tpm", m.name>>}
           ELSE \/ m.id = {} /\ Signatures(m) = {}
                \/ \E i : m.id = {i} /\ Signatures(m) = {<<"os", i>>}
<1>1. m.tpm \in BOOLEAN /\ (m.id = {} \/ \E i : m.id = {i})
  BY DEF Machines
<1>2. CASE m.tpm
  BY <1>2 DEF Signatures
<1>3. CASE ~m.tpm
  <2>1. Signatures(m) = {<<"os", i>> : i \in m.id}
    BY <1>3 DEF Signatures
  <2>2. CASE m.id = {}
    <3>1. Signatures(m) = {}
      BY <2>1, <2>2
    <3> QED
      BY <1>3, <2>2, <3>1
  <2>3. ASSUME NEW i, m.id = {i} PROVE Signatures(m) = {<<"os", i>>}
    BY <2>1, <2>3
  <2> QED
    BY <1>1, <1>3, <2>2, <2>3
<1> QED
  BY <1>1, <1>2, <1>3

LEMMA SameSignature ==
    ASSUME NEW m \in Machines, NEW n \in Machines, Signatures(n) # {}
    PROVE  Signatures(m) = Signatures(n) <=>
             m.tpm = n.tpm /\ IF m.tpm THEN m.name = n.name ELSE m.id = n.id
<1>1. m.tpm \in BOOLEAN /\ n.tpm \in BOOLEAN
  BY DEF Machines
<1>2. CASE m.tpm /\ n.tpm
  <2>1. Signatures(m) = {<<"tpm", m.name>>} /\ Signatures(n) = {<<"tpm", n.name>>}
    BY <1>2, OneSignature
  <2>2. <<"tpm", m.name>> = <<"tpm", n.name>> <=> m.name = n.name
    OBVIOUS
  <2>3. Signatures(m) = Signatures(n) <=> m.name = n.name
    BY <2>1, <2>2, Zenon
  <2> QED
    BY <1>1, <1>2, <2>3
<1>3. CASE m.tpm /\ ~n.tpm
  <2>1. PICK i : Signatures(m) = {<<"tpm", m.name>>} /\ Signatures(n) = {<<"os", i>>}
    BY <1>3, OneSignature
  <2>2. <<"tpm", m.name>> # <<"os", i>>
    OBVIOUS
  <2> QED
    BY <1>3, <2>1, <2>2
<1>4. CASE ~m.tpm /\ n.tpm
  <2>1. Signatures(n) = {<<"tpm", n.name>>}
    BY <1>4, OneSignature
  <2>2. Signatures(m) = {} \/ \E i : Signatures(m) = {<<"os", i>>}
    BY <1>4, OneSignature
  <2>3. \A i : <<"tpm", n.name>> # <<"os", i>>
    OBVIOUS
  <2> QED
    BY <1>4, <2>1, <2>2, <2>3
<1>5. CASE ~m.tpm /\ ~n.tpm
  <2>1. PICK i : n.id = {i} /\ Signatures(n) = {<<"os", i>>}
    BY <1>5, OneSignature
  <2>2. \/ m.id = {} /\ Signatures(m) = {}
        \/ \E j : m.id = {j} /\ Signatures(m) = {<<"os", j>>}
    BY <1>5, OneSignature
  <2>3. CASE m.id = {} /\ Signatures(m) = {}
    BY <1>5, <2>1, <2>3
  <2>4. ASSUME NEW j, m.id = {j}, Signatures(m) = {<<"os", j>>}
        PROVE  Signatures(m) = Signatures(n) <=> m.id = n.id
    <3>1. <<"os", i>> = <<"os", j>> <=> i = j
      OBVIOUS
    <3>2. m.id = n.id <=> i = j
      BY <2>1, <2>4, Zenon
    <3>3. Signatures(m) = Signatures(n) <=> i = j
      BY <2>1, <2>4, <3>1, Zenon
    <3> QED
      BY <3>2, <3>3
  <2>5. Signatures(m) = Signatures(n) <=> m.id = n.id
    BY <1>5, <2>1, <2>2, <2>3, <2>4
  <2> QED
    BY <1>1, <1>5, <2>5
<1> QED
  BY <1>1, <1>2, <1>3, <1>4, <1>5

LEMMA SameCost ==
    ASSUME NEW m \in Machines, NEW n \in Machines
    PROVE  Cost(m.ram) = Cost(n.ram) <=>
             (m.ram <= 2 <=> n.ram <= 2) /\ (m.ram <= 8 <=> n.ram <= 8)
<1>1. m.ram \in Nat /\ n.ram \in Nat
  BY UnlockAssumption DEF Machines, UnlockAssumption
<1>2. ASSUME NEW r \in Nat PROVE
        \/ r <= 2 /\ r <= 8 /\ Cost(r) = "65536/2"
        \/ ~(r <= 2) /\ r <= 8 /\ Cost(r) = "262144/4"
        \/ ~(r <= 2) /\ ~(r <= 8) /\ Cost(r) = "524288/8"
  BY DEF Cost
<1>3. "65536/2" # "262144/4" /\ "65536/2" # "524288/8" /\ "262144/4" # "524288/8"
  OBVIOUS
<1> HIDE DEF Cost
<1> QED
  BY <1>1, <1>2, <1>3

\* A machine and a password give one key or none.
LEMMA OneKey ==
    ASSUME NEW m \in Machines, NEW p
    PROVE  \/ Keys(m, p) = {} /\ Signatures(m) = {}
           \/ \E t : /\ Signatures(m) = {t}
                     /\ Keys(m, p) = {[password |-> p, cost |-> Cost(m.ram),
                                       factor |-> [signature |-> t, cost |-> Cost(m.ram)]]}
<1>1. Signatures(m) = {} \/ \E t : Signatures(m) = {t}
  BY OneSignature
<1>2. CASE Signatures(m) = {}
  <2>1. Factors(m) = {}
    BY <1>2 DEF Factors
  <2> QED
    BY <1>2, <2>1 DEF Keys
<1>3. ASSUME NEW t, Signatures(m) = {t}
      PROVE  Keys(m, p) = {[password |-> p, cost |-> Cost(m.ram),
                            factor |-> [signature |-> t, cost |-> Cost(m.ram)]]}
  <2>1. Factors(m) = {[signature |-> t, cost |-> Cost(m.ram)]}
    BY <1>3 DEF Factors
  <2> QED
    BY <2>1 DEF Keys
<1> QED
  BY <1>1, <1>2, <1>3

\* Two machines give the same keys exactly when they are alike.
LEMMA SameKeys ==
    ASSUME NEW m \in Machines, NEW n \in Machines, NEW p, NEW q, Keys(n, q) # {}
    PROVE  Keys(m, p) = Keys(n, q) <=> p = q /\ Alike(m, n)
<1>1. PICK s : /\ Signatures(n) = {s}
               /\ Keys(n, q) = {[password |-> q, cost |-> Cost(n.ram),
                                 factor |-> [signature |-> s, cost |-> Cost(n.ram)]]}
  BY OneKey
<1>2. Alike(m, n) <=> Signatures(m) = Signatures(n) /\ Cost(m.ram) = Cost(n.ram)
  BY <1>1, SameSignature, SameCost DEF Alike
<1>3. CASE Signatures(m) = {}
  <2>1. Keys(m, p) = {} 
    BY <1>3, OneKey
  <2> QED
    BY <1>1, <1>2, <1>3, <2>1
<1>4. CASE Signatures(m) # {}
  <2>1. PICK t : /\ Signatures(m) = {t}
                 /\ Keys(m, p) = {[password |-> p, cost |-> Cost(m.ram),
                                   factor |-> [signature |-> t, cost |-> Cost(m.ram)]]}
    BY <1>4, OneKey
  <2> DEFINE mine == [password |-> p, cost |-> Cost(m.ram),
                      factor |-> [signature |-> t, cost |-> Cost(m.ram)]]
             other == [password |-> q, cost |-> Cost(n.ram),
                       factor |-> [signature |-> s, cost |-> Cost(n.ram)]]
  <2>2. mine = other <=> p = q /\ t = s /\ Cost(m.ram) = Cost(n.ram)
    OBVIOUS
  <2>3. Keys(m, p) = {mine} /\ Keys(n, q) = {other}
    BY <1>1, <2>1
  <2> HIDE DEF mine, other
  <2>4. Keys(m, p) = Keys(n, q) <=> mine = other
    BY <2>3
  <2>5. Signatures(m) = Signatures(n) <=> t = s
    BY <1>1, <2>1
  <2> QED
    BY <1>2, <2>2, <2>4, <2>5
<1> QED
  BY <1>3, <1>4
-----------------------------------------------------------------------------
\* There is one birth at most, it gave a key, and the vault is sealed with that
\* key as long as there is a vault.
Births == [password : Passwords, on : Machines]

OneBirth ==
    \/ born = {} /\ vault = {} /\ outcome = {}
    \/ \E b \in Births :
          /\ born = {b} /\ Keys(b.on, b.password) # {}
          /\ vault = {} \/ vault = Keys(b.on, b.password)

OneOutcome == outcome = {} \/ \E o : outcome = {o}

\* The callbacks were all run when the process ends, and the vault is gone once
\* the ledger was shredded.
NukeGoesOn ==
    /\ exited => nuking = Callbacks
    /\ nuking >= Shredder /\ Shredder \notin Failing => vault = {}

Typed ==
    /\ machine \in Machines /\ enclave \in BOOLEAN /\ session \in BOOLEAN
    /\ outcome \subseteq [password : Passwords, on : Machines, result : Results]
    /\ id \subseteq {0} /\ duressMode \in BOOLEAN /\ exited \in BOOLEAN
    /\ nuking \in 0..Callbacks /\ changes \in Nat

UnlockInv == Typed /\ OneBirth /\ OneOutcome /\ NukeGoesOn /\ OwnerIsAdmitted

LEMMA Numbers == Callbacks \in Nat /\ Shredder \in Nat /\ 1 <= Shredder /\ Shredder <= Callbacks
BY UnlockAssumption DEF UnlockAssumption

LEMMA UnlockInitInv == Init => UnlockInv
<1> SUFFICES ASSUME Init PROVE UnlockInv
  OBVIOUS
<1>1. Typed
  <2>1. 0 \in 0..Callbacks
    BY Numbers
  <2>2. machine \in Machines /\ enclave \in BOOLEAN /\ nuking = 0
    BY DEF Init
  <2>3. /\ session \in BOOLEAN /\ duressMode \in BOOLEAN /\ exited \in BOOLEAN
        /\ changes \in Nat /\ outcome = {} /\ id = {}
    BY DEF Init
  <2> QED
    BY <2>1, <2>2, <2>3 DEF Typed
<1>2. OneBirth /\ OneOutcome /\ OwnerIsAdmitted
  BY DEF Init, OneBirth, OneOutcome, OwnerIsAdmitted
<1>3. NukeGoesOn
  BY Numbers DEF Init, NukeGoesOn
<1> QED
  BY <1>1, <1>2, <1>3 DEF UnlockInv

LEMMA NextTyped == Typed /\ [Next]_vars => Typed'
<1> SUFFICES ASSUME Typed, [Next]_vars PROVE Typed'
  OBVIOUS
<1> USE Numbers DEF Typed, daemon, pipeline
<1>1. ASSUME NEW m \in Machines, MachineChanges(m) PROVE Typed'
  BY <1>1 DEF MachineChanges
<1>2. ASSUME NEW pw \in Passwords, Birth(pw) PROVE Typed'
  BY <1>2 DEF Birth
<1>3. ASSUME NEW pw \in Passwords, Unlock(pw) PROVE Typed'
  BY <1>3 DEF Unlock, Results
<1>4. ASSUME NEW pw \in Passwords, Derive(pw) PROVE Typed'
  BY <1>4 DEF Derive
<1>5. ASSUME NEW pw \in Passwords, Nuke(pw) PROVE Typed'
  BY <1>5 DEF Nuke
<1>6. CASE Restart \/ NukeExits \/ GoCold
  BY <1>6 DEF Restart, NukeExits, GoCold
<1>7. CASE UNCHANGED vars
  BY <1>7 DEF vars
<1> QED
  BY <1>1, <1>2, <1>3, <1>4, <1>5, <1>6, <1>7 DEF Next

\* The steps that neither create nor unlock a vault.
LEMMA NextNuke == UnlockInv /\ [Next]_vars => NukeGoesOn'
<1> SUFFICES ASSUME UnlockInv, [Next]_vars PROVE NukeGoesOn'
  OBVIOUS
<1> USE Numbers DEF UnlockInv, Typed, NukeGoesOn, daemon, pipeline
<1>1. ASSUME NEW pw \in Passwords, Birth(pw) PROVE NukeGoesOn'
  BY <1>1 DEF Birth, OneBirth
<1>2. ASSUME NEW pw \in Passwords, Nuke(pw) PROVE NukeGoesOn'
  BY <1>2 DEF Nuke
<1>3. CASE NukeExits
  BY <1>3 DEF NukeExits
<1>4. CASE UNCHANGED <<exited, nuking, vault>>
  BY <1>4
<1> QED
  BY <1>1, <1>2, <1>3, <1>4
     DEF Next, MachineChanges, Unlock, Derive, Restart, GoCold, vars

LEMMA NextBirth == UnlockInv /\ [Next]_vars => OneBirth' /\ OneOutcome'
<1> SUFFICES ASSUME UnlockInv, [Next]_vars PROVE OneBirth' /\ OneOutcome'
  OBVIOUS
<1> USE DEF UnlockInv, OneBirth, OneOutcome, daemon, pipeline
<1>1. ASSUME NEW pw \in Passwords, Birth(pw) PROVE OneBirth' /\ OneOutcome'
  <2> DEFINE b == [password |-> pw, on |-> machine]
  <2>1. b \in Births /\ b.on = machine /\ b.password = pw
    BY DEF Births, Typed
  <2>2. born' = {b} /\ outcome' = outcome /\ \E k \in Keys(machine, pw) : vault' = {k}
    BY <1>1 DEF Birth
  <2>3. vault' = Keys(machine, pw) /\ Keys(machine, pw) # {}
    BY <2>2, OneKey DEF Typed
  <2> HIDE DEF b
  <2> QED
    BY <2>1, <2>2, <2>3
<1>2. ASSUME NEW pw \in Passwords, Unlock(pw) PROVE OneBirth' /\ OneOutcome'
  BY <1>2 DEF Unlock
<1>3. ASSUME NEW pw \in Passwords, Nuke(pw) PROVE OneBirth' /\ OneOutcome'
  BY <1>3 DEF Nuke
<1>4. CASE UNCHANGED <<born, outcome, vault>>
  BY <1>4
<1> QED
  BY <1>1, <1>2, <1>3, <1>4
     DEF Next, MachineChanges, Derive, Restart, NukeExits, GoCold, vars

LEMMA UnlockAdmits ==
    ASSUME UnlockInv, NEW pw \in Passwords, Unlock(pw)
    PROVE  OwnerIsAdmitted'
<1> USE DEF UnlockInv
<1>1. PICK b \in Births : born = {b} /\ Keys(b.on, b.password) # {} /\ vault = Keys(b.on, b.password)
  BY DEF Unlock, OneBirth
<1> DEFINE right == Keys(machine, pw) = vault
           o == [password |-> pw, on |-> machine,
                 result |-> IF right /\ enclave THEN "success"
                            ELSE IF right \/ Keys(machine, pw) = {} THEN "internal"
                            ELSE "invalid"]
<1>2. outcome' = {o} /\ born' = {b} /\ enclave' = enclave
  BY <1>1 DEF Unlock
<1>3. right <=> pw = b.password /\ Alike(machine, b.on)
  BY <1>1, SameKeys DEF Births, Typed
<1>4. /\ o.password = pw /\ o.on = machine
      /\ o.result = "success" <=> right /\ enclave
      /\ o.result = "invalid" => ~right
  OBVIOUS
<1> HIDE DEF right, o
<1> QED
  BY <1>2, <1>3, <1>4 DEF OwnerIsAdmitted

LEMMA NextAdmits == UnlockInv /\ [Next]_vars => OwnerIsAdmitted'
<1> SUFFICES ASSUME UnlockInv, [Next]_vars PROVE OwnerIsAdmitted'
  OBVIOUS
<1> USE DEF UnlockInv, daemon, pipeline
<1>1. ASSUME NEW pw \in Passwords, Birth(pw) PROVE OwnerIsAdmitted'
  BY <1>1 DEF Birth, OneBirth, OwnerIsAdmitted
<1>2. CASE UNCHANGED <<outcome, born, enclave>>
  BY <1>2 DEF OwnerIsAdmitted
<1> QED
  BY <1>1, <1>2, UnlockAdmits
     DEF Next, MachineChanges, Derive, Nuke, Restart, NukeExits, GoCold, vars

\* The strengthening is an invariant of the specification.
THEOREM UnlockInductive == Spec => []UnlockInv
<1>1. UnlockInv /\ [Next]_vars => UnlockInv'
  BY NextTyped, NextNuke, NextBirth, NextAdmits DEF UnlockInv
<1> QED
  BY <1>1, UnlockInitInv, PTL DEF Spec

\* Every reachable state of daemon and pipeline is well typed.
THEOREM UnlockTypeCorrect == Spec => []TypeOK
<1>1. UnlockInv => TypeOK
  <2> SUFFICES ASSUME UnlockInv PROVE TypeOK
    OBVIOUS
  <2>1. /\ vault = {} \/ \E k : vault = {k}
        /\ outcome = {} \/ \E o : outcome = {o}
        /\ born = {} \/ \E b \in Births : born = {b}
    <3>1. \A b \in Births : Keys(b.on, b.password) = {} \/ \E k : Keys(b.on, b.password) = {k}
      BY OneKey DEF Births
    <3> QED
      BY <3>1 DEF UnlockInv, OneBirth, OneOutcome
  <2>2. Cardinality(vault) <= 1 /\ Cardinality(outcome) <= 1 /\ Cardinality(born) <= 1
    <3>1. ASSUME NEW S, S = {} \/ \E x : S = {x} PROVE Cardinality(S) <= 1
      <4>1. \A x : Cardinality({x}) = 1
        BY FS_Singleton
      <4>2. Cardinality({}) = 0
        BY FS_EmptySet
      <4>3. Cardinality(S) = 0 \/ Cardinality(S) = 1
        BY <3>1, <4>1, <4>2
      <4> QED
        BY <4>3
    <3> QED
      BY <2>1, <3>1
  <2>3. born \subseteq Births
    BY <2>1
  <2> QED
    BY <2>2, <2>3 DEF UnlockInv, Typed, TypeOK, Births
<1> QED
  BY <1>1, UnlockInductive, PTL

\* The owner is admitted exactly by a machine alike (vault.unlock).
THEOREM Admitted == Spec => []OwnerIsAdmitted
<1>1. UnlockInv => OwnerIsAdmitted
  BY DEF UnlockInv
<1> QED
  BY <1>1, UnlockInductive, PTL

\* The terminal password reaches the ledger (derive_and_lock_key).
THEOREM NukeReaches == Spec => []NukeReachesLedger
<1>1. UnlockInv => NukeReachesLedger
  BY Numbers DEF UnlockInv, NukeGoesOn, NukeReachesLedger
<1> QED
  BY <1>1, UnlockInductive, PTL
-----------------------------------------------------------------------------
\* Enclave

Locked == {"mlock", "held"}

HeldHaveKeys == key = {b \in Blocks : at[b] = "held"}

LockedArePinned ==
    \A b \in Blocks : at[b] \in Locked => PageOf[b] \in pinned \/ b \in exposed

EnclaveInv == EnclaveTypeOK /\ HeldHaveKeys /\ LockedArePinned /\ PinsAreReturned

-----------------------------------------------------------------------------
LEMMA EnclaveInitInv == EnclaveInit => EnclaveInv
<1> SUFFICES ASSUME EnclaveInit PROVE EnclaveInv
  OBVIOUS
<1>1. EnclaveTypeOK
  BY DEF EnclaveInit, EnclaveTypeOK, Stages
<1>2. HeldHaveKeys /\ LockedArePinned /\ PinsAreReturned
  BY DEF EnclaveInit, HeldHaveKeys, LockedArePinned, Locked, PinsAreReturned
<1> QED
  BY <1>1, <1>2 DEF EnclaveInv

LEMMA EnclaveTypeStep == EnclaveTypeOK /\ [EnclaveNext]_enclaveVars => EnclaveTypeOK'
<1> SUFFICES ASSUME EnclaveTypeOK, [EnclaveNext]_enclaveVars PROVE EnclaveTypeOK'
  OBVIOUS
<1> USE EnclaveAssumption DEF EnclaveTypeOK, Stages, Step, Neighbours
<1>1. ASSUME NEW b \in Blocks,
             Malloc(b) \/ MlockFails(b) \/ Memmove(b) \/ SecureWipe(b) \/ Free(b)
      PROVE EnclaveTypeOK'
  BY <1>1 DEF Malloc, MlockFails, Memmove, SecureWipe, Free
<1>2. ASSUME NEW b \in Blocks, Mlock(b) \/ Munlock(b) PROVE EnclaveTypeOK'
  BY <1>2 DEF Mlock, Munlock
<1>3. CASE UNCHANGED enclaveVars
  BY <1>3 DEF enclaveVars
<1> QED
  BY <1>1, <1>2, <1>3 DEF EnclaveNext

\* A step of one block; what becomes of the others is in pinned and exposed.
LEMMA BlockStep ==
    ASSUME EnclaveInv, NEW b \in Blocks,
           \/ Malloc(b) \/ Mlock(b) \/ MlockFails(b) \/ Memmove(b)
           \/ SecureWipe(b) \/ Munlock(b) \/ Free(b)
    PROVE HeldHaveKeys' /\ LockedArePinned' /\ PinsAreReturned'
<1> USE EnclaveAssumption DEF EnclaveInv, EnclaveTypeOK, Step
<1>1. HeldHaveKeys'
  BY DEF HeldHaveKeys, Malloc, Mlock, MlockFails, Memmove, SecureWipe, Munlock, Free
<1>2. LockedArePinned'
  <2>1. CASE Malloc(b) \/ MlockFails(b) \/ Memmove(b) \/ SecureWipe(b) \/ Free(b)
    BY <2>1 DEF LockedArePinned, Locked, Malloc, MlockFails, Memmove, SecureWipe, Free
  <2>2. CASE Mlock(b)
    BY <2>2 DEF LockedArePinned, Locked, Mlock
  <2>3. CASE Munlock(b)
    BY <2>3 DEF LockedArePinned, Locked, Munlock, Neighbours
  <2> QED
    BY <2>1, <2>2, <2>3
<1>3. PinsAreReturned'
  <2>1. CASE Malloc(b) \/ MlockFails(b) \/ Memmove(b) \/ SecureWipe(b) \/ Free(b)
    BY <2>1 DEF PinsAreReturned, Malloc, MlockFails, Memmove, SecureWipe, Free
  <2>2. CASE Mlock(b)
    BY <2>2 DEF PinsAreReturned, Mlock
  <2>3. CASE Munlock(b)
    BY <2>3 DEF PinsAreReturned, Munlock
  <2> QED
    BY <2>1, <2>2, <2>3
<1> QED
  BY <1>1, <1>2, <1>3

LEMMA NextIndInv == EnclaveInv /\ [EnclaveNext]_enclaveVars => EnclaveInv'
<1> SUFFICES ASSUME EnclaveInv, [EnclaveNext]_enclaveVars PROVE EnclaveInv'
  OBVIOUS
<1>1. EnclaveTypeOK'
  BY EnclaveTypeStep DEF EnclaveInv
<1>2. HeldHaveKeys' /\ LockedArePinned' /\ PinsAreReturned'
  <2>1. CASE UNCHANGED enclaveVars
    BY <2>1 DEF EnclaveInv, enclaveVars, HeldHaveKeys, LockedArePinned, PinsAreReturned
  <2> QED
    BY <2>1, BlockStep DEF EnclaveNext
<1> QED
  BY <1>1, <1>2 DEF EnclaveInv

\* The strengthening is an invariant of the specification.
THEOREM EnclaveInductive == EnclaveSpec => []EnclaveInv
  BY EnclaveInitInv, NextIndInv, PTL DEF EnclaveSpec

\* memory_lock.c: every block is in one of the stages of its two functions.
THEOREM EnclaveTypeCorrect == EnclaveSpec => []EnclaveTypeOK
<1>1. EnclaveInv => EnclaveTypeOK
  BY DEF EnclaveInv
<1> QED
  BY <1>1, EnclaveInductive, PTL

\* A key is in locked memory (mlock of allocate_secure_key) for as long as it
\* exists, unless a neighbour was destroyed, in any interleaving of calls.
THEOREM Pinned == EnclaveSpec => []KeysArePinned
<1>1. EnclaveInv => KeysArePinned
  BY DEF EnclaveInv, HeldHaveKeys, LockedArePinned, Locked, KeysArePinned
<1> QED
  BY <1>1, EnclaveInductive, PTL

\* No page stays locked without a block in use (munlock of destroy_secure_key).
THEOREM Returned == EnclaveSpec => []PinsAreReturned
<1>1. EnclaveInv => PinsAreReturned
  BY DEF EnclaveInv
<1> QED
  BY <1>1, EnclaveInductive, PTL
=============================================================================
