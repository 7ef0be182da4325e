----------------------------- MODULE MCStorage -----------------------------
(***************************************************************************)
(* TLC instance of Storage and of Chunkers, which cuts what Storage stores *)
(* in parts.  They share neither state nor a step, so part says which of   *)
(* the two moves in a behaviour, beside the other at rest.                 *)
(*                                                                         *)
(* Two tenants with a secret each, so that a save of one meets the calls   *)
(* for the other; a payload that expires and one that does not, in one     *)
(* part or two; two saves make an overwrite of one secret, or one that     *)
(* goes on beside the other.                                               *)
(*                                                                         *)
(* Two streams of files around the boundaries of the two chunkers; the     *)
(* highest bound of the adaptive one is low enough to be reached in them.  *)
(*                                                                         *)
(* The symmetry of the workers is sound for StreamsEnd too: neither it nor *)
(* the fairness speaks of a worker, and while Chunkers moves they are idle.*)
(***************************************************************************)
EXTENDS Storage, Chunkers, TLC

CONSTANTS a, b, A, B

VARIABLE part

TwoTenants == (a :> A) @@ (b :> B)

Symmetry == Permutations(Workers)

-----------------------------------------------------------------------------
Stores == part = "storage" /\ UNCHANGED <<part, chunkerVars>>
Streams == part = "chunkers" /\ UNCHANGED <<part, vars>>

\* A component at rest is in one of its initial states.
MCInit ==
    /\ part \in {"storage", "chunkers"}
    /\ Init /\ ChunkersInit
    /\ part = "storage" => kind = "buffered"
    /\ part = "chunkers" => /\ envelope = "shipped" /\ driver = "local_fs"
                            /\ \A w \in Workers : job[w].s = a

MCNext ==
    \/ \E w \in Workers :
        \/ Stores /\ WritePart(w)
        \/ Stores /\ WriteFails(w)
        \/ Stores /\ UpdateIndex(w)
        \/ Stores /\ ReadPart(w)
        \/ Stores /\ Return(w)
        \/ Stores /\ Wipe(w)
        \/ \E s \in Secrets : \/ \E c \in Cuts : Stores /\ BeginSave(w, s, c)
                              \/ Stores /\ BeginRead(w, s)
                              \/ \E i \in 1..MaxParts : Stores /\ BeginPurge(w, s, i)
    \/ \E t \in Tenants : Stores /\ AddTenant(t)
    \/ Stores /\ Crash
    \/ \E p \in Physical : \/ Streams /\ Fill(p)
                           \/ Streams /\ YieldTail(p)
                           \/ Streams /\ NoTail(p)
    \/ Streams /\ Drain
    \/ Streams /\ ClearTail
    \/ \E e \in Evaluations : \/ Streams /\ ReadAndYield(e)
                              \/ Streams /\ End(e)
    \/ Streams /\ Drop
    \/ \E n \in Sizes : Streams /\ Open(n)

MCSpec == MCInit /\ [][MCNext]_<<part, vars, chunkerVars>> /\ WF_chunkerVars(Resume)
=============================================================================
