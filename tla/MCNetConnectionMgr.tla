-------------------------- MODULE MCNetConnectionMgr --------------------------
(***************************************************************************)
(* Small instances of NetConnectionMgr.                                    *)
(***************************************************************************)
EXTENDS NetConnectionMgr, TLC

\* The threads are interchangeable.
Symmetry == Permutations(Threads)

===============================================================================
