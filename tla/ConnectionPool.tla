---------------------------- MODULE ConnectionPool ----------------------------
(***************************************************************************)
(* What the connection manager promises of each NetConnection, without     *)
(* maps, keys, locks or threads: a connection goes round                   *)
(*     free -> pending -> busy -> free                                     *)
(* and enters a new generation exactly when it becomes busy.  It is never  *)
(* in two places and it never leaves the round.                            *)
(***************************************************************************)
EXTENDS Integers

CONSTANTS Cons,          \* the connections
          MaxGeneration  \* how often one of them can be put to use

VARIABLES phase,         \* phase[c]: where c is on its round
          generation     \* generation[c]: how often c has become busy

poolVars == <<phase, generation>>

Init ==
    /\ phase = [c \in Cons |-> "free"]
    /\ generation = [c \in Cons |-> 0]

\* A game object takes c into its possession.
Register(c) ==
    /\ phase[c] = "free"
    /\ phase' = [phase EXCEPT ![c] = "pending"]
    /\ UNCHANGED generation

\* c is given a socket: a new use of c begins.
Use(c) ==
    /\ phase[c] = "pending"
    /\ generation[c] < MaxGeneration
    /\ phase' = [phase EXCEPT ![c] = "busy"]
    /\ generation' = [generation EXCEPT ![c] = @ + 1]

\* The use of c ends.
Release(c) ==
    /\ phase[c] = "busy"
    /\ phase' = [phase EXCEPT ![c] = "free"]
    /\ UNCHANGED generation

Next == \E c \in Cons : Register(c) \/ Use(c) \/ Release(c)

Spec == Init /\ [][Next]_poolVars

===============================================================================
