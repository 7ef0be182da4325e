------------------------------- MODULE Merkle -------------------------------
(***************************************************************************)
(* The hash tree of koot/storage/integrity/merkle.py as operators.  A      *)
(* digest is the term it was computed from, so that two digests are equal  *)
(* exactly when their inputs are.  As in the code a leaf and an inner node *)
(* are hashed alike.  The nodes table is the function Levels, built bottom *)
(* up.                                                                     *)
(***************************************************************************)
EXTENDS Integers, Sequences

Sha256(data) == [sha256 |-> data]
HashChunk(chunk) == Sha256(chunk)
HashPair(left, right) == Sha256(<<left, right>>)

\* get_root_hash of a tree without leaves, and the sibling that is not there.
NoHash == [empty |-> <<>>]

\* The leaves add_chunk has inserted for a file.
Leaves(file) == [i \in 1..Len(file) |-> HashChunk(file[i])]

\* Faulty variant: the last node of an odd level is forgotten.
LevelUpPairs(level) ==
    [i \in 1..(Len(level) \div 2) |-> HashPair(level[2*i - 1], level[2*i])]

\* One round of build; the last node of an odd level is its own sibling.
LevelUp(level) ==
    [i \in 1..((Len(level) + 1) \div 2) |->
        HashPair(level[2*i - 1], level[IF 2*i <= Len(level) THEN 2*i ELSE 2*i - 1])]

Levels(leaves) ==
    LET level[n \in 0..Len(leaves)] ==
            IF n = 0 THEN leaves ELSE LevelUp(level[n - 1])
    IN  level

MaxLevel(leaves) ==
    CHOOSE n \in 0..Len(leaves) :
        /\ Len(Levels(leaves)[n]) = 1
        /\ n > 0 => Len(Levels(leaves)[n - 1]) > 1

RootHash(leaves) ==
    IF leaves = <<>> THEN NoHash ELSE Levels(leaves)[MaxLevel(leaves)][1]

\* curr_index of get_proof on each level, counted from 0.
Ancestors(index, height) ==
    LET curr[l \in 0..height] == IF l = 0 THEN index ELSE curr[l - 1] \div 2
    IN  curr

Height(leaves) == IF leaves = <<>> THEN 0 ELSE MaxLevel(leaves)

\* The sibling of a node, the node itself when it has none.
Sibling(level, curr) ==
    IF curr % 2 = 1 THEN curr - 1 ELSE IF curr + 1 < Len(level) THEN curr + 1 ELSE curr

\* Faulty variant: every sibling is put on the right.
ProofOneSided(leaves, index) ==
    LET levels == Levels(leaves)
        curr == Ancestors(index, Height(leaves))
    IN  [l \in 1..Height(leaves) |->
            [hash |-> levels[l - 1][Sibling(levels[l - 1], curr[l - 1]) + 1],
             left |-> FALSE]]

\* The path of get_proof: the sibling on each level and whether it is on the
\* left; the hash of a node that is not there is empty.
Proof(leaves, index) ==
    LET levels == Levels(leaves)
        curr == Ancestors(index, Height(leaves))
    IN  [l \in 1..Height(leaves) |->
            LET sibling == Sibling(levels[l - 1], curr[l - 1])
            IN  [hash |-> IF sibling < Len(levels[l - 1])
                          THEN levels[l - 1][sibling + 1] ELSE NoHash,
                 left |-> curr[l - 1] % 2 = 1]]

\* StreamingVerifier.verify_chunk climbs the path.
Climb(chunk, proof) ==
    LET climb[n \in 0..Len(proof)] ==
            IF n = 0 THEN HashChunk(chunk)
            ELSE IF proof[n].left THEN HashPair(proof[n].hash, climb[n - 1])
            ELSE HashPair(climb[n - 1], proof[n].hash)
    IN  climb

VerifyChunk(chunk, proof, root) == Climb(chunk, proof)[Len(proof)] = root
=============================================================================
