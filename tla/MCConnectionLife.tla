--------------------------- MODULE MCConnectionLife ---------------------------
(* Two connections and two objects, so that the registry can mix them up; two *)
(* uses of each, so that a completion of the first can meet the second; two   *)
(* network threads, so that one can end what the other is beginning.          *)
EXTENDS ConnectionLife, TLC

Symmetry == Permutations(Workers) \cup Permutations(Objs)

=============================================================================
