-------------------------- MODULE MCAtomicJsonState --------------------------
(* A small instance of AtomicJsonState for TLC.                            *)
EXTENDS AtomicJsonState, TLC

CONSTANTS w1, w2, w3

MCSymmetry == Permutations({w1, w2, w3}) \cup Permutations(Inodes)
=============================================================================
