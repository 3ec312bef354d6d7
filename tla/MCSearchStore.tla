---------------------------- MODULE MCSearchStore ----------------------------
(* The document shrinks from three chunks to two; the one record of its      *)
(* third version is too large.                                               *)
EXTENDS SearchStore, TLC

MCVersions == 1 .. 3
MCNumChunks == <<3, 2, 1>>
MCTooLarge == <<{}, {}, {1}>>

CallerSymmetry == Permutations(Callers)
=============================================================================
