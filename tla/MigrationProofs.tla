-------------------------- MODULE MigrationProofs --------------------------
(***************************************************************************)
(* Proofs about Migration for any chunks, versions and number of edits.    *)
(* That a retry repairs what a lost sync has left follows from what the    *)
(* copied chunks and the others have in common while the source holds      *)
(* still (Settled); the hash tree only has to be a function of the leaves. *)
(*                                                                         *)
(* What the tree itself promises is proved from its definition: levels     *)
(* whose upper levels agree agree themselves, down from equal roots        *)
(* (LevelsAgree), trees of as many leaves are of the same height           *)
(* (SameHeight), and a climb is on the path of its leaf on one level       *)
(* exactly when it was on the level below (Binds).                         *)
(***************************************************************************)
EXTENDS Migration, WellFoundedInduction, TLAPS

Listed(manifest) == DOMAIN manifest.hashes

\* The source keeps, of the version it lists, each chunk or none.
SourceExact ==
    \A id \in Listed(srcManifest) :
        srcChunks[id] = Missing \/ HashChunk(srcChunks[id]) = srcManifest.hashes[id]

\* While the source holds still, a chunk of the destination is one the source
\* lists when it was copied since the last commit, and one the destination
\* lists otherwise; what differs is copied or about to be.
Settled ==
    ~drifted =>
        /\ pc = "copy" => /\ held = srcManifest
                          /\ Delta(held, dstManifest) \subseteq todo \union copied
        /\ pc = "copy" \/ copied # {} =>
              /\ srcManifest # NoManifest
              /\ dstManifest = NoManifest \/ srcManifest.root # dstManifest.root
        /\ \A id \in copied : /\ id \in Listed(srcManifest)
                              /\ HashChunk(dstChunks[id]) = srcManifest.hashes[id]
        /\ \A id \in Listed(dstManifest) \ copied :
              HashChunk(dstChunks[id]) = dstManifest.hashes[id]
        /\ result = "true" /\ pc = "idle" => copied = {}

IndInv ==
    /\ TypeOK
    /\ pc = "copy" => todo \subseteq Listed(held)
    /\ SourceExact
    /\ Settled

-----------------------------------------------------------------------------
\* A manifest lists chunk numbers, and the version it was made of matches it.
LEMMA LeavesOf ==
    ASSUME NEW f \in Files
    PROVE  /\ f \in Seq(Chunks) /\ DOMAIN f = 1..Len(f) /\ 1..Len(f) \subseteq Ids
           /\ Listed(Manifest(f)) = 1..Len(f)
           /\ \A id \in 1..Len(f) : Manifest(f).hashes[id] = HashChunk(f[id])
<1>1. f \in Seq(Chunks) /\ Len(f) \in 1..MaxLen /\ MaxLen \in Nat
  BY MigrationAssumption DEF MigrationAssumption
<1>2. DOMAIN f = 1..Len(f) /\ 1..Len(f) \subseteq Ids
  BY <1>1 DEF Ids
<1>3. Manifest(f).hashes = Leaves(f)
  BY DEF Manifest
<1>4. DOMAIN Leaves(f) = 1..Len(f) /\ \A id \in 1..Len(f) : Leaves(f)[id] = HashChunk(f[id])
  BY DEF Leaves
<1> QED
  BY <1>1, <1>2, <1>3, <1>4 DEF Listed

LEMMA NothingListed ==
    Listed(NoManifest) = {} /\ NothingStored \in [Ids -> Chunks \union {Missing}]
BY DEF Listed, NoManifest, NothingStored

LEMMA ManifestListed == \A m \in Manifests : Listed(m) \subseteq Ids
BY LeavesOf, NothingListed DEF Manifests

LEMMA VersionExact ==
    ASSUME NEW f \in Files
    PROVE  /\ Stored(f) \in [Ids -> Chunks \union {Missing}]
           /\ \A id \in Listed(Manifest(f)) :
                 HashChunk(Stored(f)[id]) = Manifest(f).hashes[id]
<1>1. Stored(f) \in [Ids -> Chunks \union {Missing}]
  BY LeavesOf DEF Stored
<1>2. \A id \in 1..Len(f) : Stored(f)[id] = f[id]
  BY LeavesOf DEF Stored
<1> QED
  BY <1>1, <1>2, LeavesOf

LEMMA InitIndInv == Init => IndInv
<1> SUFFICES ASSUME Init PROVE IndInv
    OBVIOUS
<1>1. TypeOK
  BY VersionExact, NothingListed DEF Init, TypeOK, Manifests
<1>2. \A id \in Listed(dstManifest) : HashChunk(dstChunks[id]) = dstManifest.hashes[id]
  BY VersionExact, NothingListed DEF Init
<1> QED
  BY <1>1, <1>2, NothingListed DEF Init, IndInv, SourceExact, Settled

-----------------------------------------------------------------------------
LEMMA NextType == TypeOK /\ [Next]_vars => TypeOK'
<1> SUFFICES ASSUME TypeOK, [Next]_vars PROVE TypeOK'
    OBVIOUS
<1> USE DEF TypeOK, source, destination
<1>1. CASE UNCHANGED vars
  BY <1>1 DEF vars
<1>2. ASSUME NEW f \in Files, Publish(f) PROVE TypeOK'
  BY <1>2, VersionExact DEF Publish, Edit, Manifests
<1>3. ASSUME NEW id \in Ids, Lose(id) PROVE TypeOK'
  BY <1>3 DEF Lose, Edit
<1>4. ASSUME NEW id \in Ids, Copy(id) PROVE TypeOK'
  BY <1>4 DEF Copy, IsNext
<1>5. CASE Begin
  BY <1>5, ManifestListed DEF Begin, Delta, Listed
<1>6. CASE \/ NotFound \/ Bypass \/ Commit \/ Die
           \/ \E id \in Ids : CopyFails(id)
  BY <1>6 DEF NotFound, Bypass, Commit, Die, CopyFails, Return, Manifests
<1> QED
  BY <1>1, <1>2, <1>3, <1>4, <1>5, <1>6 DEF Next

LEMMA NextSource == IndInv /\ [Next]_vars => SourceExact'
<1> SUFFICES ASSUME IndInv, [Next]_vars PROVE SourceExact'
    OBVIOUS
<1> USE DEF IndInv, SourceExact
<1>1. ASSUME NEW f \in Files, Publish(f) PROVE SourceExact'
  BY <1>1, VersionExact DEF Publish
<1>2. ASSUME NEW id \in Ids, Lose(id) PROVE SourceExact'
  <2>1. srcManifest' = srcManifest /\ srcManifest \in Manifests
    BY <1>2 DEF Lose, TypeOK
  <2>2. \A i \in Ids : srcChunks'[i] = srcChunks[i] \/ srcChunks'[i] = Missing
    BY <1>2 DEF Lose, TypeOK
  <2> QED
    BY <2>1, <2>2, ManifestListed
<1>3. CASE UNCHANGED source
  BY <1>3 DEF source
<1>4. CASE UNCHANGED vars
  BY <1>4 DEF vars, source
<1> QED
  BY <1>1, <1>2, <1>3, <1>4
     DEF Next, Copy, CopyFails, NotFound, Bypass, Begin, Commit, Die

LEMMA NextTodo == IndInv /\ [Next]_vars => (pc = "copy" => todo \subseteq Listed(held))'
<1> SUFFICES ASSUME IndInv, [Next]_vars, pc' = "copy" PROVE todo' \subseteq Listed(held')
    BY DEF Listed
<1> USE DEF IndInv
<1>1. CASE Begin
  BY <1>1 DEF Begin, Delta, Listed
<1>2. CASE UNCHANGED <<pc, held>> /\ todo' \subseteq todo
  BY <1>2
<1> QED
  BY <1>1, <1>2 DEF Next, vars, Publish, Lose, Edit, Copy, CopyFails, NotFound, Bypass,
     Commit, Die, Return

-----------------------------------------------------------------------------
\* Settled, one action at a time.
LEMMA SettledPublish ==
    ASSUME IndInv, NEW f \in Files, Publish(f)
    PROVE  Settled'
BY DEF IndInv, Settled, Publish, Edit, destination

LEMMA SettledLose ==
    ASSUME IndInv, NEW id \in Ids, Lose(id)
    PROVE  Settled'
BY DEF IndInv, Settled, Lose, Edit, destination

LEMMA SettledBegin ==
    ASSUME IndInv, Begin
    PROVE  Settled'
BY DEF IndInv, TypeOK, Settled, Begin, source, destination

LEMMA SettledCopy ==
    ASSUME IndInv, NEW id \in Ids, Copy(id)
    PROVE  Settled'
<1> SUFFICES ASSUME ~drifted PROVE Settled'
    BY DEF Settled, Copy
<1> USE DEF IndInv, TypeOK, Settled, Copy, IsNext, source
<1>1. /\ id \in Listed(srcManifest)
      /\ HashChunk(srcChunks[id]) = srcManifest.hashes[id]
  BY DEF SourceExact
<1>2. \A i \in copied' : /\ i \in Listed(srcManifest')
                         /\ HashChunk(dstChunks'[i]) = srcManifest'.hashes[i]
  <2>1. dstChunks'[id] = srcChunks[id]
    OBVIOUS
  <2>2. \A i \in copied \ {id} : dstChunks'[i] = dstChunks[i]
    OBVIOUS
  <2> QED
    BY <1>1, <2>1, <2>2
<1>3. \A i \in Listed(dstManifest') \ copied' :
          HashChunk(dstChunks'[i]) = dstManifest'.hashes[i]
  BY ManifestListed
<1>4. Delta(held', dstManifest') \subseteq todo' \union copied'
  OBVIOUS
<1> QED
  BY <1>2, <1>3, <1>4

LEMMA SettledCommit ==
    ASSUME IndInv, Commit
    PROVE  Settled'
<1> SUFFICES ASSUME ~drifted PROVE Settled'
    BY DEF Settled, Commit
<1> USE DEF IndInv, Settled, Commit, Return
<1>1. ASSUME NEW id \in Listed(held)
      PROVE  HashChunk(dstChunks[id]) = held.hashes[id]
  <2>1. CASE id \in copied
    BY <2>1
  <2>2. CASE id \notin copied
    <3>1. id \notin Delta(held, dstManifest)
      BY <2>2
    <3>2. id \in Listed(dstManifest) /\ dstManifest.hashes[id] = held.hashes[id]
      BY <3>1, <1>1 DEF Delta, Listed
    <3> QED
      BY <2>2, <3>2
  <2> QED
    BY <2>1, <2>2
<1> QED
  BY <1>1 DEF Listed

\* A sync that stops early leaves what it copied to the next one.
LEMMA SettledStop ==
    ASSUME IndInv, NotFound \/ Bypass \/ Die \/ \E id \in Ids : CopyFails(id)
    PROVE  Settled'
BY DEF IndInv, Settled, NotFound, Bypass, Die, CopyFails, IsNext, Return, source, destination

LEMMA Inductive == IndInv /\ [Next]_vars => IndInv'
<1> SUFFICES ASSUME IndInv, [Next]_vars PROVE IndInv'
    OBVIOUS
<1>1. TypeOK' /\ SourceExact' /\ (pc = "copy" => todo \subseteq Listed(held))'
  BY NextType, NextSource, NextTodo DEF IndInv
<1>2. CASE UNCHANGED vars
  BY <1>1, <1>2 DEF IndInv, Settled, vars, source, destination
<1>3. CASE Next
  BY <1>1, <1>3, SettledPublish, SettledLose, SettledBegin, SettledCopy, SettledCommit,
     SettledStop DEF Next, IndInv
<1> QED
  BY <1>2, <1>3

LEMMA Invariance == Spec => []IndInv
<1> QED
  BY InitIndInv, Inductive, PTL DEF Spec

-----------------------------------------------------------------------------
\* The hash tree.  The theorems of induction take an operator as a parameter;
\* Induct is their consequence for the numbers of a set.

\* The order of the numbers, as a relation.
Less == {p \in Nat \X Nat : p[1] < p[2]}

LEMMA LessIsWellFounded == IsWellFoundedOn(Less, Nat)
<1>1. Less = OpToRel(<, Nat)
  BY DEF Less, OpToRel
<1> QED
  BY <1>1, NatLessThanWellFounded

\* Induction over a set of numbers, from the least one that is not in it.
LEMMA Induct ==
    ASSUME NEW S, 0 \in S, \A n \in Nat : n \in S => n + 1 \in S
    PROVE  Nat \subseteq S
<1> SUFFICES ASSUME Nat \ S # {} PROVE FALSE
    OBVIOUS
<1>2. PICK x \in Nat \ S : \A y \in Nat \ S : <<y, x>> \notin Less
  <2>1. Nat \ S \subseteq Nat
    OBVIOUS
  <2> QED
    BY LessIsWellFounded, <2>1, WFMin
<1>3. x # 0 /\ x - 1 \in Nat
  BY <1>2
<1>4. <<x - 1, x>> \in Less
  BY <1>3 DEF Less
<1> QED
  BY <1>2, <1>3, <1>4

\* The least number of a set.
LEMMA Least ==
    ASSUME NEW S, S \subseteq Nat, S # {}
    PROVE  \E x \in S : \A y \in S : x <= y
<1>2. PICK x \in S : \A y \in S : <<y, x>> \notin Less
  BY LessIsWellFounded, WFMin
<1>3. ASSUME NEW y \in S PROVE x <= y
  <2>1. ~(y < x)
    <3> SUFFICES ASSUME y < x PROVE <<y, x>> \in Less
        BY <1>2
    <3> QED
      BY DEF Less
  <2> QED
    BY <2>1
<1> QED
  BY <1>3

-----------------------------------------------------------------------------
\* Digests are equal only if what was hashed is.
LEMMA Hashes ==
    /\ \A c : \A d : HashChunk(c) = HashChunk(d) <=> c = d
    /\ \A l, r, m, n : HashPair(l, r) = HashPair(m, n) <=> l = m /\ r = n
    /\ \A c : HashChunk(c) # NoHash
    /\ \A l, r : HashPair(l, r) # NoHash
<1>1. \A c, d : Sha256(c) = Sha256(d) <=> c = d
  BY DEF Sha256
<1>2. \A l, r, m, n : <<l, r>> = <<m, n>> <=> l = m /\ r = n
  OBVIOUS
<1>3. \A c : Sha256(c) # NoHash
  BY DEF Sha256, NoHash
<1> QED
  BY <1>1, <1>2, <1>3 DEF HashChunk, HashPair

LEMMA SamePair ==
    ASSUME NEW l, NEW r, NEW m, NEW n, HashPair(l, r) = HashPair(m, n)
    PROVE  l = m /\ r = n
BY Hashes

\* The length of a level that is given by its places.
LEMMA LevelLen ==
    ASSUME NEW n \in Nat, NEW s, DOMAIN s = 1..n
    PROVE Len(s) = n
<1>1. \A m \in Nat : 1..m = 1..n => m = n
  OBVIOUS
<1> QED
  BY <1>1

\* The node of the next level over the j-th pair.
Pair(s, j) == HashPair(s[2*j - 1], s[IF 2*j <= Len(s) THEN 2*j ELSE 2*j - 1])

LEMMA Up ==
    ASSUME NEW s, Len(s) \in Nat
    PROVE  /\ Len(LevelUp(s)) = (Len(s) + 1) \div 2
           /\ \A j \in 1..Len(LevelUp(s)) : LevelUp(s)[j] = Pair(s, j)
<1> DEFINE n == (Len(s) + 1) \div 2
<1>1. LevelUp(s) = [j \in 1..n |-> Pair(s, j)]
  BY DEF LevelUp, Pair
<1>2. n \in Nat
  OBVIOUS
<1> HIDE DEF n
<1>3. DOMAIN LevelUp(s) = 1..n
  BY <1>1
<1>4. Len(LevelUp(s)) = n
  BY <1>2, <1>3, LevelLen
<1> QED
  BY <1>1, <1>4 DEF n

\* The recursion of Levels has a solution, the one that Levels is.
LEMMA LevelsDef ==
    ASSUME NEW leaves, Len(leaves) \in Nat
    PROVE  Levels(leaves) =
              [n \in 0..Len(leaves) |-> IF n = 0 THEN leaves ELSE LevelUp(Levels(leaves)[n - 1])]
<1> DEFINE From(g, k) == g = [n \in 0..k |-> IF n = 0 THEN leaves ELSE LevelUp(g[n - 1])]
           S == {k \in Nat : \E g : From(g, k)}
<1>1. 0 \in S
  <2>1. From([n \in 0..0 |-> leaves], 0)
    OBVIOUS
  <2> QED
    BY <2>1
<1>2. ASSUME NEW k \in Nat, k \in S PROVE k + 1 \in S
  <2>1. PICK g : From(g, k)
    BY <1>2
  <2> DEFINE h == [n \in 0..k + 1 |-> IF n <= k THEN g[n] ELSE LevelUp(g[k])]
  <2>2. From(h, k + 1)
    <3> SUFFICES ASSUME NEW n \in 0..k + 1
                 PROVE  h[n] = IF n = 0 THEN leaves ELSE LevelUp(h[n - 1])
        OBVIOUS
    <3>1. CASE n = 0
      BY <3>1, <2>1
    <3>2. CASE n \in 1..k
      <4>1. h[n] = g[n] /\ h[n - 1] = g[n - 1]
        BY <3>2
      <4>2. g[n] = LevelUp(g[n - 1])
        BY <3>2, <2>1
      <4> QED
        BY <3>2, <4>1, <4>2
    <3>3. CASE n = k + 1
      <4>1. h[n] = LevelUp(g[k]) /\ h[n - 1] = g[k]
        BY <3>3
      <4> QED
        BY <3>3, <4>1
    <3> QED
      BY <3>1, <3>2, <3>3
  <2> HIDE DEF From, h
  <2> QED
    BY <2>2
<1>3. \E g : From(g, Len(leaves))
  <2> HIDE DEF From
  <2>1. Nat \subseteq S
    <3> HIDE DEF S
    <3> QED
      BY <1>1, <1>2, Induct
  <2> QED
    BY <2>1
<1>4. Levels(leaves) = CHOOSE g : From(g, Len(leaves))
  BY DEF Levels
<1>5. From(Levels(leaves), Len(leaves))
  <2> HIDE DEF From
  <2> QED
    BY <1>3, <1>4
<1> QED
  BY <1>5

\* The table of nodes, level by level.
LEMMA LevelStep ==
    ASSUME NEW A, Len(A) \in Nat
    PROVE  /\ Levels(A)[0] = A
           /\ \A n \in 1..Len(A) : Levels(A)[n] = LevelUp(Levels(A)[n - 1])
<1> DEFINE L == Levels(A)
<1>1. L = [n \in 0..Len(A) |-> IF n = 0 THEN A ELSE LevelUp(L[n - 1])]
  BY LevelsDef
<1> HIDE DEF L
<1>2. L[0] = A /\ \A n \in 1..Len(A) : L[n] = LevelUp(L[n - 1])
  BY <1>1
<1> QED
  BY <1>2 DEF L

\* Every level is shorter than the one below it, until there is one node.
LEMMA Shrinks ==
    ASSUME NEW A, Len(A) \in Nat \ {0}
    PROVE  \A n \in 0..Len(A) : /\ Len(Levels(A)[n]) \in Nat \ {0}
                                /\ Len(Levels(A)[n]) = 1 \/ Len(Levels(A)[n]) <= Len(A) - n
<1> DEFINE L == Levels(A)
           Fits(n) == /\ Len(L[n]) \in Nat \ {0}
                      /\ Len(L[n]) = 1 \/ Len(L[n]) <= Len(A) - n
           S == {n \in Nat : n <= Len(A) => Fits(n)}
<1>1. L[0] = A /\ \A n \in 1..Len(A) : L[n] = LevelUp(L[n - 1])
  BY LevelStep
<1> HIDE DEF L
<1>2. 0 \in S
  BY <1>1
<1>3. ASSUME NEW n \in Nat, n \in S PROVE n + 1 \in S
  <2> SUFFICES ASSUME n + 1 <= Len(A) PROVE Fits(n + 1)
      OBVIOUS
  <2>1. L[n + 1] = LevelUp(L[n]) /\ Fits(n)
    BY <1>1, <1>3
  <2>2. Len(L[n + 1]) = (Len(L[n]) + 1) \div 2
    BY <2>1, Up
  <2>3. ASSUME NEW l \in Nat \ {0}
        PROVE  /\ (l + 1) \div 2 \in Nat \ {0}
               /\ (l + 1) \div 2 = 1 \/ (l + 1) \div 2 <= l - 1
               /\ l = 1 => (l + 1) \div 2 = 1
    OBVIOUS
  <2> DEFINE l == Len(L[n])
             m == Len(L[n + 1])
  <2>4. l \in Nat \ {0} /\ m = (l + 1) \div 2 /\ (l = 1 \/ l <= Len(A) - n)
    BY <2>1, <2>2
  <2>5. m \in Nat \ {0} /\ (m = 1 \/ m <= l - 1) /\ (l = 1 => m = 1)
    BY <2>3, <2>4
  <2> HIDE DEF l, m
  <2>6. m \in Nat \ {0} /\ (m = 1 \/ m <= Len(A) - (n + 1))
    BY <2>4, <2>5
  <2> QED
    BY <2>6 DEF m
<1>4. Nat \subseteq S
  <2> HIDE DEF S
  <2> QED
    BY <1>2, <1>3, Induct
<1> QED
  BY <1>4 DEF L

\* build ends with one node, at the first level that has no more.
LEMMA Top ==
    ASSUME NEW A, Len(A) \in Nat \ {0}
    PROVE  /\ MaxLevel(A) \in 0..Len(A)
           /\ Len(Levels(A)[MaxLevel(A)]) = 1
           /\ MaxLevel(A) > 0 => Len(Levels(A)[MaxLevel(A) - 1]) > 1
<1> DEFINE L == Levels(A)
           S == {n \in 0..Len(A) : Len(L[n]) = 1}
           IsTop(n) == Len(L[n]) = 1 /\ (n > 0 => Len(L[n - 1]) > 1)
<1>1. \A n \in 0..Len(A) : /\ Len(L[n]) \in Nat \ {0}
                           /\ Len(L[n]) = 1 \/ Len(L[n]) <= Len(A) - n
  BY Shrinks
<1> HIDE DEF L
<1>2. Len(A) \in S
  BY <1>1
<1>3. PICK x \in S : \A y \in S : x <= y
  <2>1. S \subseteq Nat /\ S # {}
    BY <1>2
  <2> HIDE DEF S
  <2> QED
    BY <2>1, Least
<1>4. x \in 0..Len(A) /\ IsTop(x)
  <2>1. x \in 0..Len(A) /\ Len(L[x]) = 1
    BY <1>3
  <2>2. ASSUME x > 0 PROVE Len(L[x - 1]) > 1
    <3>1. x - 1 \in 0..Len(A) /\ ~(x <= x - 1)
      BY <2>1, <2>2
    <3>2. x - 1 \notin S
      BY <1>3, <3>1
    <3>3. Len(L[x - 1]) # 1 /\ Len(L[x - 1]) \in Nat \ {0}
      BY <1>1, <3>1, <3>2
    <3>4. \A k \in Nat \ {0} : k # 1 => k > 1
      OBVIOUS
    <3> QED
      BY <3>3, <3>4, Zenon
  <2> QED
    BY <2>1, <2>2
<1>5. MaxLevel(A) = CHOOSE n \in 0..Len(A) : IsTop(n)
  BY DEF MaxLevel, L
<1>6. MaxLevel(A) \in 0..Len(A) /\ IsTop(MaxLevel(A))
  <2> HIDE DEF IsTop
  <2> QED
    BY <1>4, <1>5
<1> QED
  BY <1>6 DEF L

-----------------------------------------------------------------------------
Places(s) == 1..Len(s)

\* Two levels have the same nodes in the places both have.
Agree(s, t) == \A i \in Places(s) \cap Places(t) : s[i] = t[i]

\* Each node is in the pair that the next level has for it.
LEMMA Half ==
    ASSUME NEW s, Len(s) \in Nat, NEW i \in Places(s)
    PROVE  LET j == (i + 1) \div 2
               last == IF 2*j <= Len(s) THEN 2*j ELSE 2*j - 1
           IN  /\ j \in Places(LevelUp(s)) /\ 2*j - 1 \in Places(s) /\ last \in Places(s)
               /\ LevelUp(s)[j] = HashPair(s[2*j - 1], s[last])
               /\ i = 2*j - 1 \/ (i = 2*j /\ i = last)
<1> DEFINE j == (i + 1) \div 2
           last == IF 2*j <= Len(s) THEN 2*j ELSE 2*j - 1
<1>1. j \in 1..((Len(s) + 1) \div 2) /\ 2*j - 1 \in 1..Len(s) /\ last \in 1..Len(s)
  BY DEF Places
<1>2. i = 2*j - 1 \/ (i = 2*j /\ i = last)
  <2>1. i \in 1..Len(s) /\ j \in Nat /\ (i = 2*j - 1 \/ i = 2*j)
    BY DEF Places
  <2> QED
    BY <2>1
<1>3. /\ Len(LevelUp(s)) = (Len(s) + 1) \div 2
      /\ \A k \in 1..Len(LevelUp(s)) : LevelUp(s)[k] = Pair(s, k)
  BY Up
<1>4. LevelUp(s)[j] = HashPair(s[2*j - 1], s[last])
  BY <1>1, <1>3 DEF Pair
<1> QED
  BY <1>1, <1>2, <1>3, <1>4 DEF Places

\* The nodes that the j-th node of the next level is made of.
LEMMA Children ==
    ASSUME NEW s, Len(s) \in Nat, NEW j \in Places(LevelUp(s))
    PROVE  \E i \in Places(s), k \in Places(s) : LevelUp(s)[j] = HashPair(s[i], s[k])
<1>1. /\ Len(LevelUp(s)) = (Len(s) + 1) \div 2
      /\ \A k \in 1..Len(LevelUp(s)) : LevelUp(s)[k] = Pair(s, k)
  BY Up
<1>2. j \in 1..((Len(s) + 1) \div 2)
  BY <1>1 DEF Places
<1> DEFINE last == IF 2*j <= Len(s) THEN 2*j ELSE 2*j - 1
<1>3. 2*j - 1 \in Places(s) /\ last \in Places(s)
  BY <1>2 DEF Places
<1>4. LevelUp(s)[j] = HashPair(s[2*j - 1], s[last])
  BY <1>1 DEF Pair, Places
<1> QED
  BY <1>3, <1>4

\* Levels agree when those above them do.
LEMMA AgreeDown ==
    ASSUME NEW s, NEW t, Len(s) \in Nat, Len(t) \in Nat, Agree(LevelUp(s), LevelUp(t))
    PROVE  Agree(s, t)
<1>1. ASSUME NEW i \in Places(s) \cap Places(t) PROVE s[i] = t[i]
  <2> DEFINE j == (i + 1) \div 2
             m == IF 2*j <= Len(s) THEN 2*j ELSE 2*j - 1
             n == IF 2*j <= Len(t) THEN 2*j ELSE 2*j - 1
  <2>1. /\ j \in Places(LevelUp(s)) /\ LevelUp(s)[j] = HashPair(s[2*j - 1], s[m])
        /\ j \in Places(LevelUp(t)) /\ LevelUp(t)[j] = HashPair(t[2*j - 1], t[n])
        /\ i = 2*j - 1 \/ (i = 2*j /\ i = m)
        /\ i = 2*j - 1 \/ (i = 2*j /\ i = n)
    BY Half
  <2> HIDE DEF j, m, n
  <2>2. LevelUp(s)[j] = LevelUp(t)[j]
    BY <2>1 DEF Agree
  <2>3. s[2*j - 1] = t[2*j - 1] /\ s[m] = t[n]
    <3>1. HashPair(s[2*j - 1], s[m]) = HashPair(t[2*j - 1], t[n])
      BY <2>1, <2>2
    <3> QED
      BY <3>1, SamePair
  <2>4. i = 2*j - 1 \/ (i = m /\ i = n)
    <3>1. i \in Nat /\ j \in Nat
      BY DEF Places, j
    <3> QED
      BY <2>1, <3>1
  <2> QED
    BY <2>3, <2>4
<1> QED
  BY <1>1 DEF Agree

-----------------------------------------------------------------------------
\* The leaves of a version.
LEMMA LeafFacts ==
    ASSUME NEW f \in Files
    PROVE  /\ Len(Leaves(f)) \in Nat \ {0} /\ Len(Leaves(f)) = Len(f)
           /\ DOMAIN Leaves(f) = Places(Leaves(f))
           /\ f[1] \in Chunks /\ Leaves(f)[1] = HashChunk(f[1])
           /\ \A i \in Places(Leaves(f)) : Leaves(f)[i] = HashChunk(f[i])
<1>1. f \in Seq(Chunks) /\ Len(f) \in Nat \ {0}
  BY MigrationAssumption DEF MigrationAssumption
<1>2. DOMAIN Leaves(f) = 1..Len(f) /\ \A i \in 1..Len(f) : Leaves(f)[i] = HashChunk(f[i])
  BY DEF Leaves
<1>3. Len(Leaves(f)) = Len(f)
  BY <1>1, <1>2, LevelLen
<1> QED
  BY <1>1, <1>2, <1>3 DEF Places

\* Going down from equal roots, the levels of two trees agree.
LEMMA LevelsAgree ==
    ASSUME NEW A, NEW B, Len(A) \in Nat \ {0}, Len(B) \in Nat \ {0},
           RootHash(A) = RootHash(B), A # <<>>, B # <<>>
    PROVE  \A k \in Nat : k <= MaxLevel(A) /\ k <= MaxLevel(B) =>
               Agree(Levels(A)[MaxLevel(A) - k], Levels(B)[MaxLevel(B) - k])
<1> DEFINE L == Levels(A)
           M == MaxLevel(A)
           K == Levels(B)
           N == MaxLevel(B)
           S == {k \in Nat : k <= M /\ k <= N => Agree(L[M - k], K[N - k])}
<1>1. /\ M \in 0..Len(A) /\ Len(L[M]) = 1
      /\ N \in 0..Len(B) /\ Len(K[N]) = 1
  BY Top
<1>2. /\ \A n \in 1..Len(A) : L[n] = LevelUp(L[n - 1])
      /\ \A n \in 1..Len(B) : K[n] = LevelUp(K[n - 1])
  BY LevelStep
<1>3. /\ \A n \in 0..Len(A) : Len(L[n]) \in Nat
      /\ \A n \in 0..Len(B) : Len(K[n]) \in Nat
  BY Shrinks
<1>4. L[M][1] = K[N][1]
  BY DEF RootHash
<1> HIDE DEF L, K, M, N
<1>5. 0 \in S
  <2>1. Agree(L[M], K[N])
    <3>1. Places(L[M]) = {1} /\ Places(K[N]) = {1}
      BY <1>1 DEF Places
    <3> QED
      BY <1>4, <3>1 DEF Agree
  <2>2. M - 0 = M /\ N - 0 = N
    BY <1>1
  <2> QED
    BY <2>1, <2>2
<1>6. ASSUME NEW k \in Nat, k \in S PROVE k + 1 \in S
  <2> SUFFICES ASSUME k + 1 <= M, k + 1 <= N
               PROVE  Agree(L[M - (k + 1)], K[N - (k + 1)])
      OBVIOUS
  <2> DEFINE m == M - k
             n == N - k
  <2>1. /\ m \in 1..Len(A) /\ n \in 1..Len(B)
        /\ m - 1 \in 0..Len(A) /\ n - 1 \in 0..Len(B)
        /\ M - (k + 1) = m - 1 /\ N - (k + 1) = n - 1
    BY <1>1
  <2>2. Agree(L[m], K[n])
    BY <1>1, <1>6
  <2> HIDE DEF m, n
  <2>3. Agree(LevelUp(L[m - 1]), LevelUp(K[n - 1]))
    BY <1>2, <2>1, <2>2
  <2>4. Agree(L[m - 1], K[n - 1])
    BY <1>3, <2>1, <2>3, AgreeDown
  <2> QED
    BY <2>1, <2>4
<1>7. Nat \subseteq S
  <2> HIDE DEF S
  <2> QED
    BY <1>5, <1>6, Induct
<1>8. \A k \in Nat : k <= M /\ k <= N => Agree(L[M - k], K[N - k])
  BY <1>7
<1> QED
  BY <1>8 DEF L, K, M, N

\* Trees of as many leaves have levels of the same lengths.
LEMMA SameLengths ==
    ASSUME NEW A, NEW B, Len(A) \in Nat \ {0}, Len(B) = Len(A)
    PROVE  \A n \in 0..Len(A) : Len(Levels(A)[n]) = Len(Levels(B)[n])
<1> DEFINE L == Levels(A)
           K == Levels(B)
           S == {n \in Nat : n <= Len(A) => Len(L[n]) = Len(K[n])}
<1>1. /\ L[0] = A /\ \A n \in 1..Len(A) : L[n] = LevelUp(L[n - 1])
      /\ K[0] = B /\ \A n \in 1..Len(A) : K[n] = LevelUp(K[n - 1])
  BY LevelStep
<1>2. \A n \in 0..Len(A) : Len(L[n]) \in Nat /\ Len(K[n]) \in Nat
  BY Shrinks
<1> HIDE DEF L, K
<1>3. 0 \in S
  BY <1>1
<1>4. ASSUME NEW n \in Nat, n \in S PROVE n + 1 \in S
  <2> SUFFICES ASSUME n + 1 <= Len(A) PROVE Len(L[n + 1]) = Len(K[n + 1])
      OBVIOUS
  <2>1. n \in 0..Len(A) /\ n + 1 \in 1..Len(A) /\ (n + 1) - 1 = n
    OBVIOUS
  <2>2. L[n + 1] = LevelUp(L[n]) /\ K[n + 1] = LevelUp(K[n]) /\ Len(L[n]) = Len(K[n])
    BY <1>1, <1>4, <2>1
  <2> QED
    BY <1>2, <2>1, <2>2, Up
<1>5. Nat \subseteq S
  <2> HIDE DEF S
  <2> QED
    BY <1>3, <1>4, Induct
<1> QED
  BY <1>5 DEF L, K

\* A level of one node is followed by levels of one node.
LEMMA OneNodeOn ==
    ASSUME NEW A, Len(A) \in Nat \ {0}, NEW m \in 0..Len(A), Len(Levels(A)[m]) = 1
    PROVE  \A n \in m..Len(A) : Len(Levels(A)[n]) = 1
<1> DEFINE L == Levels(A)
           S == {k \in Nat : m + k <= Len(A) => Len(L[m + k]) = 1}
<1>1. \A n \in 1..Len(A) : L[n] = LevelUp(L[n - 1])
  BY LevelStep
<1> HIDE DEF L
<1>2. 0 \in S
  BY DEF L
<1>3. ASSUME NEW k \in Nat, k \in S PROVE k + 1 \in S
  <2> SUFFICES ASSUME m + (k + 1) <= Len(A) PROVE Len(L[m + (k + 1)]) = 1
      OBVIOUS
  <2>1. m + (k + 1) \in 1..Len(A) /\ (m + (k + 1)) - 1 = m + k /\ m + k <= Len(A)
    OBVIOUS
  <2>2. L[m + (k + 1)] = LevelUp(L[m + k]) /\ Len(L[m + k]) = 1
    BY <1>1, <1>3, <2>1
  <2> DEFINE s == L[m + k]
  <2>3. Len(s) \in Nat
    BY <2>2
  <2> HIDE DEF s
  <2>4. Len(LevelUp(s)) = (Len(s) + 1) \div 2
    BY <2>3, Up
  <2>5. Len(s) = 1
    BY <2>2 DEF s
  <2> QED
    BY <2>2, <2>4, <2>5 DEF s
<1>4. Nat \subseteq S
  <2> HIDE DEF S
  <2> QED
    BY <1>2, <1>3, Induct
<1>5. ASSUME NEW n \in m..Len(A) PROVE Len(L[n]) = 1
  <2>1. n - m \in Nat /\ m + (n - m) = n /\ n <= Len(A)
    OBVIOUS
  <2> QED
    BY <1>4, <2>1
<1> QED
  BY <1>5 DEF L

\* build stops at the same height for as many leaves.
LEMMA SameHeight ==
    ASSUME NEW A, NEW B, Len(A) \in Nat \ {0}, Len(B) = Len(A)
    PROVE  MaxLevel(A) = MaxLevel(B)
<1> DEFINE L == Levels(A)
           K == Levels(B)
           M == MaxLevel(A)
           N == MaxLevel(B)
<1>1. /\ M \in 0..Len(A) /\ Len(L[M]) = 1 /\ (M > 0 => Len(L[M - 1]) > 1)
      /\ N \in 0..Len(A) /\ Len(K[N]) = 1 /\ (N > 0 => Len(K[N - 1]) > 1)
  BY Top
<1>2. \A n \in 0..Len(A) : Len(L[n]) = Len(K[n])
  BY SameLengths
<1>3. /\ \A n \in M..Len(A) : Len(L[n]) = 1
      /\ \A n \in N..Len(A) : Len(K[n]) = 1
  BY <1>1, OneNodeOn
<1> HIDE DEF L, K, M, N
<1>4. ~(M < N)
  <2> SUFFICES ASSUME M < N PROVE FALSE
      OBVIOUS
  <2>1. N > 0 /\ N - 1 \in M..Len(A) /\ N - 1 \in 0..Len(A)
    BY <1>1
  <2>2. Len(K[N - 1]) = 1
    BY <1>2, <1>3, <2>1
  <2> QED
    BY <1>1, <2>1, <2>2
<1>5. ~(N < M)
  <2> SUFFICES ASSUME N < M PROVE FALSE
      OBVIOUS
  <2>1. M > 0 /\ M - 1 \in N..Len(A) /\ M - 1 \in 0..Len(A)
    BY <1>1
  <2>2. Len(L[M - 1]) = 1
    BY <1>2, <1>3, <2>1
  <2> QED
    BY <1>1, <2>1, <2>2
<1>6. M = N
  BY <1>1, <1>4, <1>5
<1> QED
  BY <1>6 DEF M, N

\* Two versions of as many chunks with the same root have the same leaves.
LEMMA SameRoot ==
    ASSUME NEW f \in Files, NEW g \in Files, Len(Leaves(f)) = Len(Leaves(g)),
           RootHash(Leaves(f)) = RootHash(Leaves(g))
    PROVE  Leaves(f) = Leaves(g)
<1> DEFINE A == Leaves(f)
           B == Leaves(g)
           L == Levels(A)
           K == Levels(B)
           M == MaxLevel(A)
           N == MaxLevel(B)
<1>1. /\ Len(A) \in Nat \ {0} /\ Len(B) = Len(A) /\ A # <<>> /\ B # <<>>
  BY LeafFacts
<1>2. M \in 0..Len(A) /\ M = N
  BY <1>1, Top, SameHeight
<1>3. L[0] = A /\ K[0] = B
  BY <1>1, LevelStep
<1>4. \A k \in Nat : k <= M /\ k <= N => Agree(L[M - k], K[N - k])
  BY <1>1, LevelsAgree
<1> HIDE DEF L, K, M, N
<1>5. Agree(A, B)
  <2>1. M \in Nat /\ M <= M /\ M <= N /\ M - M = 0 /\ N - M = 0
    BY <1>2
  <2>2. Agree(L[M - M], K[N - M])
    BY <1>4, <2>1
  <2> QED
    BY <1>3, <2>1, <2>2
<1>6. /\ A = [i \in 1..Len(f) |-> HashChunk(f[i])]
      /\ B = [i \in 1..Len(g) |-> HashChunk(g[i])]
      /\ Len(f) = Len(A) /\ Len(g) = Len(A)
  BY <1>1, LeafFacts DEF Leaves
<1>7. \A i \in 1..Len(A) : A[i] = B[i]
  BY <1>1, <1>5 DEF Agree, Places
<1> HIDE DEF A, B
<1>8. A = B
  BY <1>6, <1>7
<1> QED
  BY <1>8 DEF A, B

\* The same for the indices of a path and for the climb of verify_chunk.
LEMMA AncestorsDef ==
    ASSUME NEW index, NEW height \in Nat
    PROVE  Ancestors(index, height) =
              [l \in 0..height |->
                  IF l = 0 THEN index ELSE Ancestors(index, height)[l - 1] \div 2]
<1> DEFINE From(g, k) == g = [l \in 0..k |-> IF l = 0 THEN index ELSE g[l - 1] \div 2]
           S == {k \in Nat : \E g : From(g, k)}
<1>1. 0 \in S
  <2>1. From([l \in 0..0 |-> index], 0)
    OBVIOUS
  <2> QED
    BY <2>1
<1>2. ASSUME NEW k \in Nat, k \in S PROVE k + 1 \in S
  <2>1. PICK g : From(g, k)
    BY <1>2
  <2> DEFINE h == [l \in 0..k + 1 |-> IF l <= k THEN g[l] ELSE g[k] \div 2]
  <2>2. From(h, k + 1)
    <3> SUFFICES ASSUME NEW l \in 0..k + 1
                 PROVE  h[l] = IF l = 0 THEN index ELSE h[l - 1] \div 2
        OBVIOUS
    <3>1. CASE l = 0
      BY <3>1, <2>1
    <3>2. CASE l \in 1..k
      <4>1. h[l] = g[l] /\ h[l - 1] = g[l - 1]
        BY <3>2
      <4>2. g[l] = g[l - 1] \div 2
        BY <3>2, <2>1
      <4> QED
        BY <3>2, <4>1, <4>2
    <3>3. CASE l = k + 1
      <4>1. h[l] = g[k] \div 2 /\ h[l - 1] = g[k]
        BY <3>3
      <4> QED
        BY <3>3, <4>1
    <3> QED
      BY <3>1, <3>2, <3>3
  <2> HIDE DEF From, h
  <2> QED
    BY <2>2
<1>3. Nat \subseteq S
  <2> HIDE DEF S
  <2> QED
    BY <1>1, <1>2, Induct
<1>4. \E g : From(g, height)
  <2> HIDE DEF From
  <2> QED
    BY <1>3
<1>5. Ancestors(index, height) = CHOOSE g : From(g, height)
  BY DEF Ancestors
<1>6. From(Ancestors(index, height), height)
  <2> HIDE DEF From
  <2> QED
    BY <1>4, <1>5
<1> QED
  BY <1>6

LEMMA ClimbDef ==
    ASSUME NEW c, NEW p, Len(p) \in Nat
    PROVE  Climb(c, p) =
              [n \in 0..Len(p) |->
                  IF n = 0 THEN HashChunk(c)
                  ELSE IF p[n].left THEN HashPair(p[n].hash, Climb(c, p)[n - 1])
                  ELSE HashPair(Climb(c, p)[n - 1], p[n].hash)]
<1> DEFINE Above(x, n) == IF p[n].left THEN HashPair(p[n].hash, x)
                          ELSE HashPair(x, p[n].hash)
           From(g, k) == g = [n \in 0..k |-> IF n = 0 THEN HashChunk(c) ELSE Above(g[n - 1], n)]
           S == {k \in Nat : \E g : From(g, k)}
<1>1. 0 \in S
  <2>1. From([n \in 0..0 |-> HashChunk(c)], 0)
    OBVIOUS
  <2> QED
    BY <2>1
<1>2. ASSUME NEW k \in Nat, k \in S PROVE k + 1 \in S
  <2> HIDE DEF Above
  <2>1. PICK g : From(g, k)
    BY <1>2
  <2> DEFINE h == [n \in 0..k + 1 |-> IF n <= k THEN g[n] ELSE Above(g[k], n)]
  <2>2. From(h, k + 1)
    <3> SUFFICES ASSUME NEW n \in 0..k + 1
                 PROVE  h[n] = IF n = 0 THEN HashChunk(c) ELSE Above(h[n - 1], n)
        OBVIOUS
    <3>1. CASE n = 0
      BY <3>1, <2>1
    <3>2. CASE n \in 1..k
      <4>1. h[n] = g[n] /\ h[n - 1] = g[n - 1]
        BY <3>2
      <4>2. g[n] = Above(g[n - 1], n)
        BY <3>2, <2>1
      <4> QED
        BY <3>2, <4>1, <4>2
    <3>3. CASE n = k + 1
      <4>1. h[n] = Above(g[k], n) /\ h[n - 1] = g[k]
        BY <3>3
      <4> QED
        BY <3>3, <4>1
    <3> QED
      BY <3>1, <3>2, <3>3
  <2> HIDE DEF From, h
  <2> QED
    BY <2>2
<1>3. Nat \subseteq S
  <2> HIDE DEF S
  <2> QED
    BY <1>1, <1>2, Induct
<1>4. \E g : From(g, Len(p))
  <2> HIDE DEF From
  <2> QED
    BY <1>3
<1>5. Climb(c, p) = CHOOSE g : From(g, Len(p))
  BY DEF Climb
<1>6. From(Climb(c, p), Len(p))
  <2> HIDE DEF From
  <2> QED
    BY <1>4, <1>5
<1> QED
  BY <1>6

\* The path from a leaf stays within the levels.
LEMMA OnPath ==
    ASSUME NEW A, Len(A) \in Nat \ {0}, NEW index \in 0..Len(A) - 1
    PROVE  /\ Ancestors(index, MaxLevel(A))[0] = index
           /\ \A l \in 0..MaxLevel(A) :
                 /\ Ancestors(index, MaxLevel(A))[l] \in Nat
                 /\ Ancestors(index, MaxLevel(A))[l] < Len(Levels(A)[l])
           /\ \A l \in 1..MaxLevel(A) :
                 Ancestors(index, MaxLevel(A))[l] = Ancestors(index, MaxLevel(A))[l - 1] \div 2
<1> DEFINE M == MaxLevel(A)
           L == Levels(A)
           curr == Ancestors(index, M)
           Within(l) == curr[l] \in Nat /\ curr[l] < Len(L[l])
           S == {l \in Nat : l <= M => Within(l)}
<1>1. M \in 0..Len(A)
  BY Top
<1>2. curr[0] = index /\ \A l \in 1..M : curr[l] = curr[l - 1] \div 2
  <2> HIDE DEF M
  <2>1. curr = [l \in 0..M |-> IF l = 0 THEN index ELSE curr[l - 1] \div 2]
    BY <1>1, AncestorsDef
  <2> HIDE DEF curr
  <2> QED
    BY <1>1, <2>1
<1>3. L[0] = A /\ \A n \in 1..Len(A) : L[n] = LevelUp(L[n - 1])
  BY LevelStep
<1>4. \A n \in 0..Len(A) : Len(L[n]) \in Nat
  BY Shrinks
<1> HIDE DEF M, L, curr
<1>5. 0 \in S
  BY <1>2, <1>3
<1>6. ASSUME NEW l \in Nat, l \in S PROVE l + 1 \in S
  <2> SUFFICES ASSUME l + 1 <= M PROVE Within(l + 1)
      OBVIOUS
  <2>1. Within(l) /\ l \in 0..Len(A) /\ l + 1 \in 1..Len(A) /\ l + 1 \in 1..M
    BY <1>1, <1>6
  <2>2. L[l + 1] = LevelUp(L[l]) /\ curr[l + 1] = curr[l] \div 2
    BY <1>2, <1>3, <2>1
  <2>3. Len(L[l + 1]) = (Len(L[l]) + 1) \div 2
    BY <1>4, <2>1, <2>2, Up
  <2>4. \A a, n \in Nat : a < n => a \div 2 \in Nat /\ a \div 2 < (n + 1) \div 2
    OBVIOUS
  <2>5. curr[l] \in Nat /\ Len(L[l]) \in Nat /\ curr[l] < Len(L[l])
    BY <1>4, <2>1
  <2>6. curr[l] \div 2 \in Nat /\ curr[l] \div 2 < (Len(L[l]) + 1) \div 2
    BY <2>4, <2>5
  <2> QED
    BY <2>2, <2>3, <2>6
<1>7. Nat \subseteq S
  <2> HIDE DEF S
  <2> QED
    BY <1>5, <1>6, Induct
<1>8. \A l \in 0..M : Within(l)
  BY <1>1, <1>7
<1> QED
  BY <1>2, <1>8 DEF M, L, curr

\* A node and the hash that its proof gives for its sibling make the node above
\* them, and no other node makes it in its place.
LEMMA Joined ==
    ASSUME NEW s, Len(s) \in Nat, NEW a \in 0..Len(s) - 1, NEW x
    PROVE  LET hash == s[Sibling(s, a) + 1]
               above == LevelUp(s)[a \div 2 + 1]
           IN  /\ Sibling(s, a) < Len(s)
               /\ a % 2 = 1 => (HashPair(hash, x) = above <=> x = s[a + 1])
               /\ a % 2 # 1 => (HashPair(x, hash) = above <=> x = s[a + 1])
<1> DEFINE j == a \div 2 + 1
           i == a + 1
           last == IF 2*j <= Len(s) THEN 2*j ELSE 2*j - 1
           sib == Sibling(s, a)
           above == LevelUp(s)[j]
<1>1. i \in Places(s) /\ (i + 1) \div 2 = j
  BY DEF Places
<1>2. above = HashPair(s[2*j - 1], s[last])
  <2> HIDE DEF i, j, last
  <2> DEFINE k == (i + 1) \div 2
             top == IF 2*k <= Len(s) THEN 2*k ELSE 2*k - 1
  <2>1. LevelUp(s)[k] = HashPair(s[2*k - 1], s[top])
    BY <1>1, Half
  <2>2. k = j
    BY <1>1
  <2> QED
    BY <2>1, <2>2 DEF last
<1>3. CASE a % 2 = 1
  <2>1. sib + 1 = 2*j - 1 /\ last = a + 1 /\ sib < Len(s)
    BY <1>3 DEF Sibling
  <2>2. above = HashPair(s[sib + 1], s[a + 1])
    BY <1>2, <2>1
  <2> HIDE DEF above, sib
  <2>3. HashPair(s[sib + 1], x) = above <=> x = s[a + 1]
    <3>1. ASSUME HashPair(s[sib + 1], x) = above PROVE x = s[a + 1]
      <4>1. HashPair(s[sib + 1], x) = HashPair(s[sib + 1], s[a + 1])
        BY <2>2, <3>1
      <4> QED
        BY <4>1, SamePair
    <3> QED
      BY <2>2, <3>1
  <2> QED
    BY <1>3, <2>1, <2>3 DEF above, sib
<1>4. CASE a % 2 # 1
  <2>1. 2*j - 1 = a + 1 /\ last = sib + 1 /\ sib < Len(s)
    BY <1>4 DEF Sibling
  <2>2. above = HashPair(s[a + 1], s[sib + 1])
    BY <1>2, <2>1
  <2> HIDE DEF above, sib
  <2>3. HashPair(x, s[sib + 1]) = above <=> x = s[a + 1]
    <3>1. ASSUME HashPair(x, s[sib + 1]) = above PROVE x = s[a + 1]
      <4>1. HashPair(x, s[sib + 1]) = HashPair(s[a + 1], s[sib + 1])
        BY <2>2, <3>1
      <4> QED
        BY <4>1, SamePair
    <3> QED
      BY <2>2, <3>1
  <2> QED
    BY <1>4, <2>1, <2>3 DEF above, sib
<1> QED
  BY <1>3, <1>4

\* On every level the climb is at the node of the path exactly when it began
\* with the chunk of the leaf.
LEMMA Binds ==
    ASSUME NEW A, Len(A) \in Nat \ {0}, A # <<>>, NEW index \in 0..Len(A) - 1, NEW c
    PROVE  VerifyChunk(c, Proof(A, index), RootHash(A)) <=> HashChunk(c) = A[index + 1]
<1> DEFINE M == MaxLevel(A)
           L == Levels(A)
           curr == Ancestors(index, M)
           p == Proof(A, index)
           climb == Climb(c, p)
           At(n) == climb[n] = L[n][curr[n] + 1]
           S == {n \in Nat : n <= M => (At(n) <=> HashChunk(c) = A[index + 1])}
<1>1. M \in 0..Len(A) /\ Len(L[M]) = 1
  BY Top
<1>2. /\ curr[0] = index
      /\ \A l \in 0..M : curr[l] \in Nat /\ curr[l] < Len(L[l])
      /\ \A l \in 1..M : curr[l] = curr[l - 1] \div 2
  BY OnPath
<1>3. L[0] = A /\ \A n \in 1..Len(A) : L[n] = LevelUp(L[n - 1])
  BY LevelStep
<1>4. \A n \in 0..Len(A) : Len(L[n]) \in Nat
  BY Shrinks
<1>5. Height(A) = M /\ RootHash(A) = L[M][1]
  BY DEF Height, RootHash
<1>6. /\ DOMAIN p = 1..M
      /\ \A l \in 1..M : LET sibling == Sibling(L[l - 1], curr[l - 1])
                         IN  p[l] = [hash |-> IF sibling < Len(L[l - 1])
                                              THEN L[l - 1][sibling + 1] ELSE NoHash,
                                     left |-> curr[l - 1] % 2 = 1]
  BY <1>5 DEF Proof
<1>7. Len(p) = M
  <2> HIDE DEF M, p
  <2> QED
    BY <1>1, <1>6, LevelLen
<1>8. /\ climb[0] = HashChunk(c)
      /\ \A n \in 1..M : climb[n] = IF p[n].left THEN HashPair(p[n].hash, climb[n - 1])
                                    ELSE HashPair(climb[n - 1], p[n].hash)
  <2> HIDE DEF M, p
  <2>1. climb = [n \in 0..M |->
                    IF n = 0 THEN HashChunk(c)
                    ELSE IF p[n].left THEN HashPair(p[n].hash, climb[n - 1])
                    ELSE HashPair(climb[n - 1], p[n].hash)]
    BY <1>1, <1>7, ClimbDef
  <2> HIDE DEF climb
  <2> QED
    BY <1>1, <2>1
<1>9. VerifyChunk(c, p, RootHash(A)) <=> climb[M] = L[M][1]
  <2> HIDE DEF M, p, L
  <2> QED
    BY <1>5, <1>7 DEF VerifyChunk
<1> HIDE DEF M, L, curr, p, climb
<1>10. 0 \in S
  BY <1>2, <1>3, <1>8
<1>11. ASSUME NEW n \in Nat, n \in S PROVE n + 1 \in S
  <2> SUFFICES ASSUME n + 1 <= M PROVE At(n + 1) <=> At(n)
    <3> HIDE DEF At
    <3> QED
      BY <1>1, <1>11
  <2> DEFINE s == L[n]
             a == curr[n]
             x == climb[n]
             hash == s[Sibling(s, a) + 1]
             above == LevelUp(s)[a \div 2 + 1]
  <2>1. n \in 0..M /\ n + 1 \in 1..M /\ n + 1 \in 1..Len(A) /\ n \in 0..Len(A)
    BY <1>1
  <2>2. (n + 1) - 1 = n
    OBVIOUS
  <2>3. L[n + 1][curr[n + 1] + 1] = above
    BY <1>2, <1>3, <2>1, <2>2
  <2>4. Len(s) \in Nat /\ a \in 0..Len(s) - 1
    BY <1>2, <1>4, <2>1
  <2>5. /\ Sibling(s, a) < Len(s)
        /\ a % 2 = 1 => (HashPair(hash, x) = above <=> x = s[a + 1])
        /\ a % 2 # 1 => (HashPair(x, hash) = above <=> x = s[a + 1])
    <3> HIDE DEF s, a, x
    <3> QED
      BY <2>4, Joined
  <2>6. p[n + 1] = [hash |-> hash, left |-> a % 2 = 1]
    <3>1. p[n + 1] = [hash |-> IF Sibling(s, a) < Len(s) THEN s[Sibling(s, a) + 1] ELSE NoHash,
                      left |-> a % 2 = 1]
      BY <1>6, <2>1, <2>2
    <3> QED
      BY <2>5, <3>1
  <2>7. climb[n + 1] = IF a % 2 = 1 THEN HashPair(hash, x) ELSE HashPair(x, hash)
    <3>1. climb[n + 1] = IF p[n + 1].left THEN HashPair(p[n + 1].hash, x)
                         ELSE HashPair(x, p[n + 1].hash)
      BY <1>8, <2>1, <2>2
    <3>2. p[n + 1].hash = hash /\ (p[n + 1].left <=> a % 2 = 1)
      <4>1. \A h : \A b \in BOOLEAN : LET q == [hash |-> h, left |-> b]
                                       IN  q.hash = h /\ q.left = b
        OBVIOUS
      <4>2. (a % 2 = 1) \in BOOLEAN
        OBVIOUS
      <4> HIDE DEF a, hash
      <4> QED
        BY <2>6, <4>1, <4>2, Zenon
    <3> QED
      BY <3>1, <3>2
  <2> HIDE DEF s, a, x, hash, above
  <2>8. climb[n + 1] = above <=> x = s[a + 1]
    BY <2>5, <2>7
  <2> QED
    BY <2>3, <2>8 DEF s, a, x
<1>12. Nat \subseteq S
  <2> HIDE DEF S
  <2> QED
    BY <1>10, <1>11, Induct
<1>13. climb[M] = L[M][1] <=> HashChunk(c) = A[index + 1]
  <2>1. M \in S /\ M \in Nat /\ M <= M
    BY <1>1, <1>12
  <2>2. curr[M] = 0
    <3>1. M \in 0..M /\ Len(L[M]) = 1
      BY <1>1
    <3>2. curr[M] \in Nat /\ curr[M] < 1
      BY <1>2, <3>1
    <3> QED
      BY <3>2
  <2> QED
    BY <2>1, <2>2
<1> QED
  BY <1>9, <1>13 DEF p

-----------------------------------------------------------------------------
\* A manifest is that of a version, or the one that is not there.
LEMMA ManifestFacts ==
    ASSUME NEW m \in Manifests
    PROVE  \/ m = NoManifest
           \/ \E f \in Files : m.root = RootHash(Leaves(f)) /\ m.hashes = Leaves(f)
BY DEF Manifests, Manifest

LEMMA RootOfFile == \A f \in Files : RootHash(Leaves(f)) # NoHash
<1> SUFFICES ASSUME NEW f \in Files PROVE RootHash(Leaves(f)) # NoHash
    OBVIOUS
<1> DEFINE A == Leaves(f)
           L == Levels(A)
           M == MaxLevel(A)
<1>1. Len(A) \in Nat \ {0} /\ A # <<>> /\ A[1] = HashChunk(f[1])
  BY LeafFacts
<1>2. M \in 0..Len(A) /\ Len(L[M]) = 1
  BY <1>1, Top
<1>3. L[0] = A /\ \A n \in 1..Len(A) : L[n] = LevelUp(L[n - 1])
  BY <1>1, LevelStep
<1>4. \A n \in 0..Len(A) : Len(L[n]) \in Nat
  BY <1>1, Shrinks
<1>5. RootHash(A) = L[M][1]
  BY <1>1 DEF RootHash
<1> HIDE DEF A, L, M
<1>6. CASE M = 0
  BY <1>1, <1>3, <1>5, <1>6, Hashes DEF A
<1>7. CASE M > 0
  <2>1. L[M] = LevelUp(L[M - 1]) /\ Len(L[M - 1]) \in Nat
    BY <1>2, <1>3, <1>4, <1>7
  <2>2. 1 \in Places(LevelUp(L[M - 1]))
    <3>1. Len(LevelUp(L[M - 1])) = 1
      BY <1>2, <2>1
    <3> QED
      BY <3>1 DEF Places
  <2>3. \E x, y : L[M][1] = HashPair(x, y)
    BY <2>1, <2>2, Children
  <2> QED
    BY <1>5, <2>3, Hashes DEF A
<1> QED
  BY <1>2, <1>6, <1>7

\* Both properties of the tree are properties of manifests.
LEMMA SameLists ==
    ASSUME NEW m \in Manifests, NEW n \in Manifests, m.root = n.root,
           Len(m.hashes) = Len(n.hashes)
    PROVE  m.hashes = n.hashes
<1>1. CASE m = NoManifest /\ n = NoManifest
  BY <1>1
<1>2. CASE m # NoManifest \/ n # NoManifest
  <2>1. NoManifest.root = NoHash
    BY DEF NoManifest
  <2>2. PICK f \in Files, g \in Files : /\ m.root = RootHash(Leaves(f)) /\ m.hashes = Leaves(f)
                                        /\ n.root = RootHash(Leaves(g)) /\ n.hashes = Leaves(g)
    BY <1>2, <2>1, ManifestFacts, RootOfFile
  <2> QED
    BY <2>2, SameRoot
<1> QED
  BY <1>1, <1>2

LEMMA Bound ==
    ASSUME NEW m \in Manifests, NEW i \in DOMAIN m.hashes, NEW c
    PROVE  VerifyChunk(c, Proof(m.hashes, i - 1), m.root) <=> HashChunk(c) = m.hashes[i]
<1>1. m # NoManifest
  BY DEF NoManifest
<1>2. PICK f \in Files : m.root = RootHash(Leaves(f)) /\ m.hashes = Leaves(f)
  BY <1>1, ManifestFacts
<1> DEFINE A == Leaves(f)
<1>3. Len(A) \in Nat \ {0} /\ A # <<>> /\ DOMAIN A = Places(A)
  BY LeafFacts
<1> HIDE DEF A
<1>4. i - 1 \in 0..Len(A) - 1 /\ (i - 1) + 1 = i
  BY <1>2, <1>3 DEF A, Places
<1>5. VerifyChunk(c, Proof(A, i - 1), RootHash(A)) <=> HashChunk(c) = A[(i - 1) + 1]
  BY <1>3, <1>4, Binds
<1> QED
  BY <1>2, <1>4, <1>5 DEF A

-----------------------------------------------------------------------------
\* The variables of sync_envelope and of both stores keep their types.
THEOREM TypeCorrect == Spec => []TypeOK
<1>1. IndInv => TypeOK
  BY DEF IndInv
<1> QED
  BY <1>1, Invariance, PTL

\* A sync that reports success leaves a destination that matches its manifest,
\* however many syncs were lost before, if the source held still.
THEOREM RetryRepairs == Spec => []SuccessIsExact
<1>1. IndInv => SuccessIsExact
  BY DEF IndInv, Settled, SuccessIsExact, Listed
<1> QED
  BY <1>1, Invariance, PTL

\* Manifests with equal roots and as many chunks list the same chunks, for
\* versions of any length.
THEOREM RootBinds == Spec => []RootFixesChunks
<1>1. TypeOK => RootFixesChunks
  BY SameLists DEF TypeOK, RootFixesChunks
<1> QED
  BY <1>1, TypeCorrect, PTL

\* Against the root of a manifest the path that get_proof gives for an index is
\* accepted by verify_chunk for the chunk that is there and for no other.
THEOREM Binding == Spec => []ProofsBind
<1>1. TypeOK => ProofsBind
  BY Bound DEF TypeOK, ProofsBind
<1> QED
  BY <1>1, TypeCorrect, PTL
=============================================================================
