------------------------------ MODULE Enclave ------------------------------
(***************************************************************************)
(* Locked memory for keys: memory_lock.c (koot/crypto/enclave) as threads  *)
(* of EnclaveManager (wrapper.py) use it.  ctypes releases the GIL during  *)
(* a call, so that the steps of two calls interleave.                      *)
(*                                                                         *)
(* malloc hands out blocks, and several share a page; mlock and munlock    *)
(* work on whole pages, and do not count: one munlock undoes every mlock   *)
(* of the page.  A block that was unlocked and freed is wiped; the process *)
(* may pin PinLimit pages at a time (RLIMIT_MEMLOCK).                      *)
(***************************************************************************)
EXTENDS Naturals, FiniteSets

CONSTANTS
    Blocks, Pages,
    PageOf,         \* the page each block is on
    PinLimit        \* pages that may be locked

ASSUME EnclaveAssumption == PageOf \in [Blocks -> Pages] /\ PinLimit \in Nat

VARIABLES
    at,         \* what was last done with each block: see Stages
    key,        \* blocks that contain the bytes of a key
    pinned,     \* pages that are locked
    exposed     \* history: blocks with a neighbour that was destroyed

enclaveVars == <<at, key, pinned, exposed>>

\* "free"; "malloc", "mlock" in allocate_secure_key; "held" by the
\* manager; "wiped", "munlock" in destroy_secure_key.
Stages == {"free", "malloc", "mlock", "held", "wiped", "munlock"}

Neighbours(b) == {c \in Blocks \ {b} : PageOf[c] = PageOf[b]}
Step(b, from, to) == at[b] = from /\ at' = [at EXCEPT ![b] = to]

-----------------------------------------------------------------------------
\* EnclaveManager.allocate: allocate_secure_key ...
Malloc(b) ==
    /\ Step(b, "free", "malloc")
    /\ UNCHANGED <<key, pinned, exposed>>

Mlock(b) ==
    /\ Step(b, "malloc", "mlock")
    /\ Cardinality(pinned \union {PageOf[b]}) <= PinLimit
    /\ pinned' = pinned \union {PageOf[b]}
    /\ exposed' = exposed \ {b}
    /\ UNCHANGED key

\* Faulty variant: a page that cannot be locked does not stop the call.
MlockFailsOn(b) ==
    /\ Step(b, "malloc", "mlock")
    /\ Cardinality(pinned \union {PageOf[b]}) > PinLimit
    /\ UNCHANGED <<key, pinned, exposed>>

\* ... which frees the block if the limit is reached, and the manager raises ...
MlockFails(b) ==
    /\ Step(b, "malloc", "free")
    /\ Cardinality(pinned \union {PageOf[b]}) > PinLimit
    /\ UNCHANGED <<key, pinned, exposed>>

\* ... or copies the key to where the pointer points.
Memmove(b) ==
    /\ Step(b, "mlock", "held")
    /\ key' = key \union {b}
    /\ UNCHANGED <<pinned, exposed>>

-----------------------------------------------------------------------------
\* EnclaveManager.destroy: destroy_secure_key
SecureWipe(b) ==
    /\ Step(b, "held", "wiped")
    /\ key' = key \ {b}
    /\ UNCHANGED <<pinned, exposed>>

\* Faulty variant: the page is not unlocked.
MunlockNever(b) ==
    /\ Step(b, "wiped", "munlock")
    /\ exposed' = exposed \union Neighbours(b)
    /\ UNCHANGED <<key, pinned>>

Munlock(b) ==
    /\ Step(b, "wiped", "munlock")
    /\ pinned' = pinned \ {PageOf[b]}
    /\ exposed' = exposed \union Neighbours(b)
    /\ UNCHANGED key

Free(b) ==
    /\ Step(b, "munlock", "free")
    /\ UNCHANGED <<key, pinned, exposed>>

-----------------------------------------------------------------------------
\* The names tell this specification from the other that its proofs extend.
EnclaveInit ==
    /\ at = [b \in Blocks |-> "free"]
    /\ key = {} /\ pinned = {} /\ exposed = {}

EnclaveNext ==
    \E b \in Blocks :
        \/ Malloc(b) \/ Mlock(b) \/ MlockFails(b) \/ Memmove(b)
        \/ SecureWipe(b) \/ Munlock(b) \/ Free(b)

EnclaveSpec == EnclaveInit /\ [][EnclaveNext]_enclaveVars

-----------------------------------------------------------------------------

EnclaveTypeOK ==
    /\ at \in [Blocks -> Stages] /\ key \subseteq Blocks
    /\ pinned \subseteq Pages /\ exposed \subseteq Blocks

\* A key is in locked memory for as long as it exists, unless the key of a
\* neighbour on its page was destroyed since, which unlocks both.
KeysArePinned == \A b \in key : PageOf[b] \in pinned \/ b \in exposed

\* A page that stays locked has a block in use: however the calls interleave,
\* nothing is kept from the limit when all keys are destroyed.
PinsAreReturned ==
    \A p \in pinned : \E b \in Blocks : PageOf[b] = p /\ at[b] \in {"mlock", "held", "wiped"}
=============================================================================
