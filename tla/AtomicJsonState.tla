--------------------------- MODULE AtomicJsonState ---------------------------
(***************************************************************************)
(* Saving a JSON document by replacing the file (atlas/atomic.py, used     *)
(* through save_json by the scheduler, the registries and the profiles).   *)
(* The document is written to a temporary file whose name is fixed, and    *)
(* the temporary file is renamed over the path.  Writers that do not       *)
(* exclude each other share that temporary file.                           *)
(*                                                                         *)
(* A path names an inode.  A writer that has opened the temporary file     *)
(* keeps writing to its inode, whichever path names it by then.            *)
(***************************************************************************)
EXTENDS Naturals, FiniteSets

CONSTANTS
    Writers,
    Inodes,
    Serialized,  \* the callers hold a lock around every save
    MaxCrashes,  \* bound on the number of writers that die
    None

ASSUME AtomicConstants ==
    /\ Serialized \in BOOLEAN
    /\ None \notin Writers \cup Inodes
    /\ Writers \cap {"old", "torn"} = {}
    /\ IsFiniteSet(Writers) /\ IsFiniteSet(Inodes)
    /\ Cardinality(Inodes) > Cardinality(Writers) + 1

VARIABLES
    path,     \* the inode the document's path names, or None
    tmp,      \* the inode the temporary path names, or None
    data,     \* inode -> whose document it holds, "torn" or "old"
    pc,       \* writer -> where its save is
    fd,       \* writer -> the inode it has open
    crashes

vars == <<path, tmp, data, pc, fd, crashes>>

Contents == Writers \cup {"old", "torn"}

Steps == {"idle", "write", "replace", "cleanup", "failed"}

TypeOK ==
    /\ path \in Inodes
    /\ tmp \in Inodes \cup {None}
    /\ data \in [Inodes -> Contents]
    /\ pc \in [Writers -> Steps]
    /\ fd \in [Writers -> Inodes \cup {None}]
    /\ crashes \in Nat

\* A document has been saved before.
Init ==
    /\ path \in Inodes
    /\ tmp = None
    /\ data = [i \in Inodes |-> IF i = path THEN "old" ELSE "torn"]
    /\ pc = [w \in Writers |-> "idle"]
    /\ fd = [w \in Writers |-> None]
    /\ crashes = 0

-----------------------------------------------------------------------------
Saving(w) == pc[w] \in {"write", "replace", "cleanup"}

MayStart(w) ==
    /\ pc[w] \in {"idle", "failed"}
    /\ Serialized => \A v \in Writers : ~Saving(v)

InUse(i) == i \in {path, tmp} \/ \E w \in Writers : fd[w] = i

\* Mutant: the document is written over the old one.
OpenMutant(w) ==
    /\ MayStart(w)
    /\ tmp' = path
    /\ data' = [data EXCEPT ![path] = "torn"]
    /\ fd' = [fd EXCEPT ![w] = path]
    /\ pc' = [pc EXCEPT ![w] = "write"]
    /\ UNCHANGED <<path, crashes>>

\* write_text() creates the temporary file, or truncates the one that a
\* dead or concurrent writer has left there.
Open(w) ==
    /\ MayStart(w)
    /\ \E i \in Inodes :
          /\ IF tmp = None THEN ~InUse(i) ELSE i = tmp
          /\ tmp' = i
          /\ data' = [data EXCEPT ![i] = "torn"]
          /\ fd' = [fd EXCEPT ![w] = i]
    /\ pc' = [pc EXCEPT ![w] = "write"]
    /\ UNCHANGED <<path, crashes>>

\* A document written over another one of a different length is a mixture.
Written(w) ==
    IF data[fd[w]] = "torn" THEN {w} ELSE {w, "torn"}

\* Mutant: the temporary file is deleted when it is closed.
WriteMutant(w) ==
    /\ pc[w] = "write"
    /\ \E d \in Written(w) : data' = [data EXCEPT ![fd[w]] = d]
    /\ fd' = [fd EXCEPT ![w] = None]
    /\ tmp' = None
    /\ pc' = [pc EXCEPT ![w] = "replace"]
    /\ UNCHANGED <<path, crashes>>

Write(w) ==
    /\ pc[w] = "write"
    /\ \E d \in Written(w) : data' = [data EXCEPT ![fd[w]] = d]
    /\ fd' = [fd EXCEPT ![w] = None]
    /\ pc' = [pc EXCEPT ![w] = "replace"]
    /\ UNCHANGED <<path, tmp, crashes>>

\* The disk is full: finally removes the temporary file, the caller gets the
\* error and the old document stays.
WriteFails(w) ==
    /\ pc[w] = "write"
    /\ tmp' = None
    /\ fd' = [fd EXCEPT ![w] = None]
    /\ pc' = [pc EXCEPT ![w] = "idle"]
    /\ UNCHANGED <<path, data, crashes>>

\* replace() moves whatever the temporary path names; without one it raises
\* FileNotFoundError, and finally finds nothing to remove.
Replace(w) ==
    /\ pc[w] = "replace"
    /\ IF tmp = None
         THEN /\ pc' = [pc EXCEPT ![w] = "failed"]
              /\ UNCHANGED <<path, tmp>>
         ELSE /\ path' = tmp /\ tmp' = None
              /\ pc' = [pc EXCEPT ![w] = "cleanup"]
    /\ UNCHANGED <<data, fd, crashes>>

\* finally: a temporary file that exists by now is removed.
Cleanup(w) ==
    /\ pc[w] = "cleanup"
    /\ tmp' = None
    /\ pc' = [pc EXCEPT ![w] = "idle"]
    /\ UNCHANGED <<path, data, fd, crashes>>

Crash(w) ==
    /\ Saving(w)
    /\ crashes < MaxCrashes
    /\ crashes' = crashes + 1
    /\ pc' = [pc EXCEPT ![w] = "idle"]
    /\ fd' = [fd EXCEPT ![w] = None]
    /\ UNCHANGED <<path, tmp, data>>

Next ==
    \E w \in Writers :
        Open(w) \/ Write(w) \/ WriteFails(w) \/ Replace(w) \/ Cleanup(w) \/ Crash(w)

Spec == Init /\ [][Next]_vars

-----------------------------------------------------------------------------
(* Properties.                                                             *)

\* A reader of the path always finds a whole document, at every step of a
\* save and after a crash at any of them.
PathHoldsWholeDocument == data[path] # "torn"

\* A document that was written is also moved into place, also after a crash left a
\* temporary file behind.
SavesSucceed == \A w \in Writers : pc[w] # "failed"

-----------------------------------------------------------------------------
(* The strengthening under which both are inductive when saves are         *)
(* serialized: one save at a time, and the temporary file is its own.      *)

AtomicInv ==
    /\ TypeOK
    /\ path # tmp
    /\ PathHoldsWholeDocument
    /\ SavesSucceed
    /\ \A v, w \in Writers : Saving(v) /\ Saving(w) => v = w
    /\ \A w \in Writers :
          /\ pc[w] = "write" => tmp \in Inodes /\ tmp = fd[w] /\ data[tmp] = "torn"
          /\ pc[w] = "replace" => tmp \in Inodes /\ data[tmp] # "torn"
          /\ pc[w] = "cleanup" => tmp = None
=============================================================================
