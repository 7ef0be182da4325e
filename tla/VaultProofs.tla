---------------------------- MODULE VaultProofs ----------------------------
(***************************************************************************)
(* Proofs about Vault for any aliases, secrets and passwords.  The         *)
(* inductive invariant has two parts beside the types: what the files and  *)
(* the session of one vault have in common (Birth), and what the decrypted *)
(* map knows of the acknowledged changes (Promises).                       *)
(***************************************************************************)
EXTENDS Vault, TLAPS

Early == {"checked", "salted", "sealing", "swapping"}
Shredding == {"shredLedger", "shredTmp"}

\* Everything sealed or decrypted belongs to the one vault that init_koot.py
\* created with "password"; while the script runs there is no other vault.
Birth ==
    /\ ledger # NoFile => salt
    /\ ledger \in Sealed => ledger.key = password
    /\ session # NoSession => salt /\ session.key = password
    /\ init \in Early => ledger = NoFile /\ session = NoSession
    /\ init \in Early => (salt <=> init # "checked")
    /\ init = "swapping" => tmp = [key |-> password, db |-> Blank]
    /\ step = "swap" => tmp = session

\* What the client may expect to find under an alias whose add was reported.
Promised(k) == {acked[k]} \cup unacked[k]

\* The decrypted map keeps the promises too, so sealing it is harmless.
Promises ==
    /\ AddsAreDurable
    /\ \A k \in Keys :
        session # NoSession /\ acked[k] \in Values => session.db[k] \in Promised(k)
    /\ step \in {"seal", "swap"} => session.db[req.key] = req.value
    /\ step \in Shredding => \A k \in Keys : NoValue \in unacked[k]

IndInv == TypeOK /\ Birth /\ Promises

-----------------------------------------------------------------------------
\* Values that stand for "nothing" are none of the things they stand in for.
LEMMA Distinct ==
    /\ NoValue \notin Values
    /\ NoFile \notin Sealed /\ Noise \notin Sealed /\ NoSession \notin Sealed
    /\ NoFile # Noise
    /\ NoRequest \notin Requests
BY VaultAssumption DEF VaultAssumption, Requests

LEMMA BlankContents == Blank \in Contents
BY DEF Blank, Contents

LEMMA InitIndInv == Init => IndInv
BY Distinct, BlankContents
   DEF Init, IndInv, TypeOK, Birth, Promises, AddsAreDurable, DiskValue,
       Promised, Steps, Running, Ended, Early, Shredding, Blank

\* No step of either process leaves the types.
LEMMA TypeStep == TypeOK /\ [Next]_vars => TypeOK'
<1> SUFFICES ASSUME TypeOK, [Next]_vars
             PROVE  TypeOK'
    OBVIOUS
<1> USE Distinct DEF TypeOK, Steps, Running, Ended
<1>1. ASSUME Script
      PROVE  TypeOK'
  <2> USE DEF disk, daemon, history
  <2>1. ASSUME NEW p \in Passwords, InitCheck(p) PROVE TypeOK'
    BY <2>1 DEF InitCheck
  <2>2. CASE InitRefuse
    BY <2>2 DEF InitRefuse
  <2>3. CASE InitSalt
    BY <2>3 DEF InitSalt
  <2>4. CASE InitLedger
    BY <2>4 DEF InitLedger
  <2>5. CASE InitWriteTmp
    BY <2>5, BlankContents DEF InitWriteTmp, Sealed
  <2>6. CASE InitSwap
    BY <2>6 DEF InitSwap
  <2>7. CASE InitDone
    BY <2>7 DEF InitDone
  <2>8. CASE InitDies
    BY <2>8 DEF InitDies, TornTmp
  <2> QED
    BY <1>1, <2>1, <2>2, <2>3, <2>4, <2>5, <2>6, <2>7, <2>8 DEF Script
<1>2. ASSUME Daemon
      PROVE  TypeOK'
  <2> USE DEF disk, script, history
  <2>1. ASSUME NEW p \in Passwords, Unlock(p) PROVE TypeOK'
    BY <2>1 DEF Unlock, Opens
  <2>2. ASSUME NEW k \in Keys, NEW v \in Values \cup {NoValue}, session # NoSession,
               step = "idle", Change(k, v)
        PROVE  TypeOK'
    <3>1. session' \in Sealed
      BY <2>2 DEF Change, Sealed, Contents
    <3>2. req' \in Requests
      BY <2>2 DEF Change, Requests
    <3>3. unacked' \in [Keys -> SUBSET (Values \cup {NoValue})]
      BY <2>2 DEF Change
    <3> QED
      BY <2>2, <3>1, <3>2, <3>3 DEF Change
  <2>3. ASSUME NEW k \in Keys, NEW v \in Values, Add(k, v) PROVE TypeOK'
    BY <2>2, <2>3 DEF Add
  <2>4. ASSUME NEW k \in Keys, Delete(k) PROVE TypeOK'
    BY <2>2, <2>4 DEF Delete
  <2>5. ASSUME NEW k \in Keys, DeleteAbsent(k) PROVE TypeOK'
    BY <2>5 DEF DeleteAbsent, daemon, Contents
  <2>6. CASE WriteTmp
    BY <2>6 DEF WriteTmp
  <2>7. CASE Swap
    <3>1. acked' \in Contents /\ unacked' \in [Keys -> SUBSET (Values \cup {NoValue})]
      BY <2>7 DEF Swap, Contents, Requests
    <3> QED
      BY <2>7, <3>1 DEF Swap
  <2>8. CASE SealFails
    BY <2>8 DEF SealFails, TornTmp
  <2>9. CASE Nuke
    BY <2>9 DEF Nuke
  <2>10. CASE ShredLedger
    BY <2>10 DEF ShredLedger
  <2>11. CASE ShredTmp
    BY <2>11 DEF ShredTmp
  <2>12. CASE NukeLocked
    BY <2>12 DEF NukeLocked, daemon
  <2>13. CASE Crash
    BY <2>13 DEF Crash, TornTmp
  <2> QED
    BY <1>2, <2>1, <2>3, <2>4, <2>5, <2>6, <2>7, <2>8, <2>9, <2>10, <2>11,
       <2>12, <2>13 DEF Daemon
<1>3. CASE WipeLocked
  BY <1>3 DEF WipeLocked, Wipe, daemon, script, Contents, Blank
<1>4. CASE UNCHANGED vars
  BY <1>4 DEF vars, disk, daemon, script, history
<1> QED
  BY <1>1, <1>2, <1>3, <1>4 DEF Next

\* One vault, one password: a new vault is born only where no session and no
\* ledger of an older one is left.
LEMMA BirthStep == TypeOK /\ Birth /\ [Next]_vars => Birth'
<1> SUFFICES ASSUME TypeOK, Birth, [Next]_vars
             PROVE  Birth'
    OBVIOUS
<1> USE Distinct DEF TypeOK, Birth, Early, Steps, Running, Ended
<1>1. ASSUME Script
      PROVE  Birth'
  <2> USE DEF disk, daemon, history
  <2>1. ASSUME NEW p \in Passwords, InitCheck(p) PROVE Birth'
    BY <2>1 DEF InitCheck
  <2>2. CASE InitRefuse
    BY <2>2 DEF InitRefuse
  <2>3. CASE InitSalt
    BY <2>3 DEF InitSalt
  <2>4. CASE InitLedger
    BY <2>4 DEF InitLedger
  <2>5. CASE InitWriteTmp
    BY <2>5 DEF InitWriteTmp
  <2>6. CASE InitSwap
    BY <2>6 DEF InitSwap
  <2>7. CASE InitDone
    BY <2>7 DEF InitDone
  <2>8. CASE InitDies
    BY <2>8 DEF InitDies, TornTmp
  <2> QED
    BY <1>1, <2>1, <2>2, <2>3, <2>4, <2>5, <2>6, <2>7, <2>8 DEF Script
<1>2. ASSUME Daemon
      PROVE  Birth'
  <2> USE DEF disk, script, history
  <2>1. ASSUME NEW p \in Passwords, Unlock(p) PROVE Birth'
    BY <2>1 DEF Unlock, Opens
  <2>2. ASSUME NEW k \in Keys, NEW v \in Values \cup {NoValue}, session # NoSession,
               step = "idle", Change(k, v)
        PROVE  Birth'
    <3>1. session'.key = session.key /\ session' # NoSession
      BY <2>2 DEF Change, Sealed, Contents
    <3> QED
      BY <2>2, <3>1 DEF Change
  <2>3. ASSUME NEW k \in Keys, NEW v \in Values, Add(k, v) PROVE Birth'
    BY <2>2, <2>3 DEF Add
  <2>4. ASSUME NEW k \in Keys, Delete(k) PROVE Birth'
    BY <2>2, <2>4 DEF Delete
  <2>5. ASSUME NEW k \in Keys, DeleteAbsent(k) PROVE Birth'
    BY <2>5 DEF DeleteAbsent, daemon
  <2>6. CASE WriteTmp
    BY <2>6 DEF WriteTmp
  <2>7. CASE Swap
    BY <2>7 DEF Swap
  <2>8. CASE SealFails
    BY <2>8 DEF SealFails, TornTmp
  <2>9. CASE Nuke
    BY <2>9 DEF Nuke
  <2>10. CASE ShredLedger
    BY <2>10 DEF ShredLedger
  <2>11. CASE ShredTmp
    BY <2>11 DEF ShredTmp
  <2>12. CASE NukeLocked
    BY <2>12 DEF NukeLocked, daemon
  <2>13. CASE Crash
    BY <2>13 DEF Crash, TornTmp
  <2> QED
    BY <1>2, <2>1, <2>3, <2>4, <2>5, <2>6, <2>7, <2>8, <2>9, <2>10, <2>11,
       <2>12, <2>13 DEF Daemon
<1>3. CASE WipeLocked
  BY <1>3 DEF WipeLocked, Wipe, daemon, script
<1>4. CASE UNCHANGED vars
  BY <1>4 DEF vars, disk, daemon, script, history
<1> QED
  BY <1>1, <1>2, <1>3, <1>4 DEF Next

\* What a step leaves alone cannot break a promise.
LEMMA PromisesKept ==
    ASSUME TypeOK, Promises, UNCHANGED <<ledger, session, acked, unacked>>,
           step' = step \/ step' = "idle",
           step' = step => req' = req
    PROVE  Promises'
BY DEF Promises, AddsAreDurable, DiskValue, Promised, Shredding, TypeOK, Steps

\* A promise made to a client is kept by the disk and by the decrypted map,
\* so neither a seal nor a reload can lose an acknowledged add.
LEMMA PromisesStep == TypeOK /\ Birth /\ Promises /\ [Next]_vars => Promises'
<1> SUFFICES ASSUME TypeOK, Birth, Promises, [Next]_vars
             PROVE  Promises'
    OBVIOUS
<1> USE Distinct
<1>1. ASSUME Script
      PROVE  Promises'
  <2> USE DEF disk, daemon, history
  <2>1. ASSUME NEW p \in Passwords, InitCheck(p) PROVE Promises'
    BY <2>1, PromisesKept DEF InitCheck
  <2>2. CASE InitRefuse \/ InitSalt \/ InitLedger \/ InitWriteTmp \/ InitDone \/ InitDies
    BY <2>2, PromisesKept
       DEF InitRefuse, InitSalt, InitLedger, InitWriteTmp, InitDone, InitDies
  <2>3. CASE InitSwap
    <3>1. ledger = NoFile /\ session = NoSession
      BY <2>3 DEF InitSwap, Birth, Early
    <3>2. \A k \in Keys : DiskValue(k)' = DiskValue(k)
      BY <2>3, <3>1 DEF InitSwap, Birth, DiskValue, Blank
    <3> QED
      BY <2>3, <3>1, <3>2 DEF InitSwap, Promises, AddsAreDurable, Promised, TypeOK, Shredding
  <2> QED
    BY <1>1, <2>1, <2>2, <2>3 DEF Script
<1>2. ASSUME Daemon
      PROVE  Promises'
  <2> USE DEF disk, script, history
  <2>1. ASSUME NEW p \in Passwords, Unlock(p) PROVE Promises'
    BY <2>1 DEF Unlock, Opens, TypeOK, Promises, AddsAreDurable, DiskValue, Promised, Shredding
  <2>2. ASSUME NEW k \in Keys, NEW v \in Values \cup {NoValue}, session # NoSession,
               step = "idle", Change(k, v)
        PROVE  Promises'
    <3>1. \A a \in Keys : unacked'[a] = IF a = k THEN unacked[a] \cup {v} ELSE unacked[a]
      BY <2>2 DEF Change, TypeOK
    <3>2. \A a \in Keys : session'.db[a] = IF a = k THEN v ELSE session.db[a]
      BY <2>2 DEF Change, TypeOK, Sealed, Contents
    <3>3. AddsAreDurable'
      BY <2>2, <3>1 DEF Change, Promises, AddsAreDurable, DiskValue
    <3>4. \A a \in Keys : acked'[a] \in Values => session'.db[a] \in Promised(a)'
      BY <2>2, <3>1, <3>2 DEF Change, Promises, Promised
    <3>5. session'.db[req'.key] = req'.value
      BY <2>2, <3>2 DEF Change
    <3> QED
      BY <2>2, <3>3, <3>4, <3>5 DEF Change, Promises, Shredding
  <2>3. ASSUME NEW k \in Keys, NEW v \in Values, Add(k, v) PROVE Promises'
    BY <2>2, <2>3 DEF Add
  <2>4. ASSUME NEW k \in Keys, Delete(k) PROVE Promises'
    BY <2>2, <2>4 DEF Delete
  <2>5. ASSUME NEW k \in Keys, DeleteAbsent(k) PROVE Promises'
    BY <2>5 DEF DeleteAbsent, daemon, TypeOK, Contents, Promises, AddsAreDurable,
                DiskValue, Promised, Shredding
  <2>6. CASE WriteTmp
    BY <2>6 DEF WriteTmp, Promises, AddsAreDurable, DiskValue, Promised, Shredding
  <2>7. CASE Swap
    <3>1. ledger' = session /\ session \in Sealed /\ session' = session
      BY <2>7 DEF Swap, Birth, TypeOK
    <3>2. \A a \in Keys : DiskValue(a)' = session.db[a]
      BY <3>1 DEF DiskValue
    <3>3. \A a \in Keys : acked'[a] \in Values => session.db[a] \in Promised(a)'
      BY <2>7, <3>1 DEF Swap, Promises, Promised, TypeOK, Contents, Requests
    <3> QED
      BY <2>7, <3>1, <3>2, <3>3 DEF Swap, Promises, AddsAreDurable, Promised, Shredding
  <2>8. CASE SealFails
    BY <2>8, PromisesKept DEF SealFails
  <2>9. CASE Nuke
    BY <2>9 DEF Nuke, Promises, AddsAreDurable, DiskValue, Promised, Shredding, TypeOK
  <2>10. CASE ShredLedger
    <3>1. \A k \in Keys : NoValue \in unacked[k]
      BY <2>10 DEF ShredLedger, Promises, Shredding
    <3>2. \A k \in Keys : DiskValue(k)' \in {DiskValue(k), NoValue}
      BY <2>10 DEF ShredLedger, DiskValue
    <3> QED
      BY <2>10, <3>1, <3>2 DEF ShredLedger, Promises, AddsAreDurable, Promised
  <2>11. CASE ShredTmp
    BY <2>11 DEF ShredTmp, Promises, AddsAreDurable, DiskValue, Shredding
  <2>12. CASE NukeLocked
    BY <2>12, PromisesKept DEF NukeLocked, daemon
  <2>13. CASE Crash
    BY <2>13 DEF Crash, Promises, AddsAreDurable, DiskValue, Shredding
  <2> QED
    BY <1>2, <2>1, <2>3, <2>4, <2>5, <2>6, <2>7, <2>8, <2>9, <2>10, <2>11,
       <2>12, <2>13 DEF Daemon
<1>3. CASE WipeLocked
  BY <1>3 DEF WipeLocked, Wipe, daemon, script, Promises, AddsAreDurable, Blank, Shredding
<1>4. CASE UNCHANGED vars
  BY <1>4, PromisesKept DEF vars, disk, daemon, script, history
<1> QED
  BY <1>1, <1>2, <1>3, <1>4 DEF Next

\* The three parts together are inductive.
THEOREM Inductive == Spec => []IndInv
<1>1. IndInv /\ [Next]_vars => IndInv'
  BY TypeStep, BirthStep, PromisesStep DEF IndInv
<1> QED
  BY <1>1, InitIndInv, PTL DEF Spec

\* Every reachable state is well typed and every served request has a session.
THEOREM TypeCorrect == Spec => []TypeOK
<1>1. IndInv => TypeOK
  BY DEF IndInv
<1> QED
  BY <1>1, Inductive, PTL

\* The ledger on disk always opens with the password it was created with.
THEOREM AlwaysOpens == Spec => []OpensWithBirthPassword
<1>1. IndInv => OpensWithBirthPassword
  BY Distinct DEF IndInv, Birth, OpensWithBirthPassword
<1> QED
  BY <1>1, Inductive, PTL

\* An acknowledged add survives crashes, failed seals and reloads.
THEOREM AddsDurable == Spec => []AddsAreDurable
<1>1. IndInv => AddsAreDurable
  BY DEF IndInv, Promises
<1> QED
  BY <1>1, Inductive, PTL

-----------------------------------------------------------------------------
\* The abstract state of SealedStore that a state of the vault stands for.
Map == IF ledger \in Sealed THEN ledger.db ELSE NoFile
View == IF session = NoSession THEN NoSession ELSE session.db
Condemned == step \in Shredding

LEMMA RefinementInit == Init => Store!Init
BY Distinct DEF Init, Store!Init

\* A decrypted map is neither "closed" nor "no file".
LEMMA ViewIsMap ==
    ASSUME TypeOK
    PROVE  /\ session # NoSession => session.db \in Contents /\ session.db # NoSession
           /\ ledger \in Sealed => ledger.db \in Contents /\ ledger.db # NoFile
BY VaultAssumption DEF VaultAssumption, TypeOK, Sealed

\* Every step of the vault is a step of SealedStore or leaves its state alone.
LEMMA RefinementStep == IndInv /\ [Next]_vars => [Store!Next]_(Store!vars)
<1> SUFFICES ASSUME IndInv, [Next]_vars
             PROVE  Store!Next \/ UNCHANGED <<Map, View, Condemned>>
    BY DEF Store!vars, Map, View, Condemned, Shredding
<1> USE Distinct, ViewIsMap DEF IndInv, TypeOK, Steps, Shredding, Map, View, Condemned
<1>1. ASSUME Script
      PROVE  Store!Next \/ UNCHANGED <<Map, View, Condemned>>
  <2> USE DEF disk, daemon, history
  <2>1. ASSUME NEW p \in Passwords, InitCheck(p)
        PROVE  UNCHANGED <<Map, View, Condemned>>
    BY <2>1 DEF InitCheck
  <2>2. CASE InitRefuse \/ InitSalt \/ InitLedger \/ InitWriteTmp \/ InitDone \/ InitDies
    BY <2>2 DEF InitRefuse, InitSalt, InitLedger, InitWriteTmp, InitDone, InitDies
  <2>3. CASE InitSwap
    <3>1. /\ ledger = NoFile /\ session = NoSession
          /\ tmp = [key |-> password, db |-> Blank]
      BY <2>3 DEF InitSwap, Birth, Early
    <3>2. tmp \in Sealed
      BY <3>1, BlankContents DEF Sealed
    <3>3. Store!Birth
      BY <2>3, <3>1, <3>2 DEF InitSwap, Store!Birth, Blank, Store!Blank
    <3> QED
      BY <3>3 DEF Store!Next
  <2> QED
    BY <1>1, <2>1, <2>2, <2>3 DEF Script
<1>2. ASSUME Daemon
      PROVE  Store!Next \/ UNCHANGED <<Map, View, Condemned>>
  <2> USE DEF disk, script, history
  <2>1. ASSUME NEW p \in Passwords, Unlock(p) PROVE Store!Next
    <3>1. Store!Open
      BY <2>1 DEF Unlock, Opens, Store!Open
    <3> QED
      BY <3>1 DEF Store!Next
  <2>2. ASSUME NEW k \in Keys, NEW v \in Values \cup {NoValue}, session # NoSession,
               step = "idle", Change(k, v)
        PROVE  Store!Next
    <3>1. session' # NoSession /\ session'.db = [session.db EXCEPT ![k] = v]
      BY <2>2 DEF Change, Sealed, Contents
    <3>2. Store!Change(k, v)
      BY <2>2, <3>1 DEF Change, Store!Change
    <3> QED
      BY <3>2 DEF Store!Next
  <2>3. ASSUME NEW k \in Keys, NEW v \in Values, Add(k, v) PROVE Store!Next
    BY <2>2, <2>3 DEF Add
  <2>4. ASSUME NEW k \in Keys, Delete(k) PROVE Store!Next
    BY <2>2, <2>4 DEF Delete
  <2>5. ASSUME NEW k \in Keys, DeleteAbsent(k)
        PROVE  UNCHANGED <<Map, View, Condemned>>
    BY <2>5 DEF DeleteAbsent, daemon
  <2>6. CASE WriteTmp \/ NukeLocked
    BY <2>6 DEF WriteTmp, NukeLocked, daemon
  <2>7. CASE Swap
    <3>1. Store!Seal
      BY <2>7 DEF Swap, Birth, Store!Seal
    <3> QED
      BY <3>1 DEF Store!Next
  <2>8. CASE SealFails
    BY <2>8 DEF SealFails
  <2>9. CASE Nuke
    <3>1. Store!Condemn
      BY <2>9 DEF Nuke, Store!Condemn
    <3> QED
      BY <3>1 DEF Store!Next
  <2>10. CASE ShredLedger
    <3>1. Store!Destroy \/ UNCHANGED <<Map, View, Condemned>>
      BY <2>10 DEF ShredLedger, Store!Destroy
    <3> QED
      BY <3>1 DEF Store!Next
  <2>11. CASE ShredTmp \/ Crash
    <3>1. Store!Close
      BY <2>11 DEF ShredTmp, Crash, Store!Close
    <3> QED
      BY <3>1 DEF Store!Next
  <2> QED
    BY <1>2, <2>1, <2>3, <2>4, <2>5, <2>6, <2>7, <2>8, <2>9, <2>10, <2>11 DEF Daemon
<1>3. CASE WipeLocked
  <2>1. Store!Discard
    BY <1>3 DEF WipeLocked, Wipe, daemon, script, Store!Discard
  <2> QED
    BY <2>1 DEF Store!Next
<1>4. CASE UNCHANGED vars
  BY <1>4 DEF vars, disk, daemon, script, history
<1> QED
  BY <1>1, <1>2, <1>3, <1>4 DEF Next

\* The vault shows its client nothing but what SealedStore allows.
THEOREM Refinement == Spec => ImplementsSealedStore
<1>1. Init => Store!Init
  BY RefinementInit
<1>2. IndInv /\ [Next]_vars => [Store!Next]_(Store!vars)
  BY RefinementStep
<1> QED
  BY <1>1, <1>2, Inductive, PTL DEF Spec, ImplementsSealedStore, Store!Spec
=============================================================================
