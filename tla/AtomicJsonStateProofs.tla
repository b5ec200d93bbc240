------------------------ MODULE AtomicJsonStateProofs ------------------------
(***************************************************************************)
(* Saves that exclude each other are atomic, whoever dies at whatever step *)
(* and whatever temporary file is left behind.                             *)
(***************************************************************************)
EXTENDS AtomicJsonState, TLAPS

\* The path holds the document that was saved before.
LEMMA AtomicInit == Init => AtomicInv
<1> SUFFICES ASSUME Init PROVE AtomicInv
    OBVIOUS
<1>1. TypeOK
    BY AtomicConstants DEF Init, TypeOK, Contents, Steps
<1>2. data[path] = "old" /\ path # tmp
    BY <1>1, AtomicConstants DEF Init
<1>3. \A w \in Writers : pc[w] = "idle"
    BY DEF Init
<1> QED
    BY <1>1, <1>2, <1>3 DEF AtomicInv, PathHoldsWholeDocument, SavesSucceed, Saving

\* Every step of a serialized save keeps the invariant.
LEMMA AtomicNext ==
    ASSUME Serialized, AtomicInv, [Next]_vars
    PROVE  AtomicInv'
<1> USE AtomicConstants DEF AtomicInv, TypeOK, PathHoldsWholeDocument, SavesSucceed, Saving,
                            Contents, Steps
<1>1. CASE UNCHANGED vars
    BY <1>1 DEF vars
<1>2. ASSUME NEW w \in Writers, Open(w) PROVE AtomicInv'
    BY <1>2 DEF Open, MayStart, InUse
<1>3. ASSUME NEW w \in Writers, Write(w) PROVE AtomicInv'
    BY <1>3 DEF Write, Written
<1>4. ASSUME NEW w \in Writers, WriteFails(w) PROVE AtomicInv'
    BY <1>4 DEF WriteFails
<1>5. ASSUME NEW w \in Writers, Replace(w) PROVE AtomicInv'
    BY <1>5 DEF Replace
<1>6. ASSUME NEW w \in Writers, Cleanup(w) PROVE AtomicInv'
    BY <1>6 DEF Cleanup
<1>7. ASSUME NEW w \in Writers, Crash(w) PROVE AtomicInv'
    BY <1>7 DEF Crash
<1> QED
    BY <1>1, <1>2, <1>3, <1>4, <1>5, <1>6, <1>7 DEF Next

\* The inductive invariant holds in every reachable state.
THEOREM AtomicInvariant == ASSUME Serialized PROVE Spec => []AtomicInv
<1>1. AtomicInv /\ [Next]_vars => AtomicInv'
    BY AtomicNext
<1> QED
    BY AtomicInit, <1>1, PTL DEF Spec

\* write_text_atomic() under a lock: a reader never finds half a document.
THEOREM SerializedSavesAtomic == ASSUME Serialized PROVE Spec => []PathHoldsWholeDocument
<1>1. AtomicInv => PathHoldsWholeDocument
    BY DEF AtomicInv
<1> QED
    BY <1>1, AtomicInvariant, PTL

\* write_text_atomic() under a lock: the rename finds its temporary file.
THEOREM SerializedSavesSucceed == ASSUME Serialized PROVE Spec => []SavesSucceed
<1>1. AtomicInv => SavesSucceed
    BY DEF AtomicInv
<1> QED
    BY <1>1, AtomicInvariant, PTL
=============================================================================
