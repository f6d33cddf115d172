---------------------------- MODULE MCCircularBuffer ----------------------------
(***************************************************************************)
(* A small instance of CircularBuffer.                                     *)
(***************************************************************************)
EXTENDS CircularBuffer

================================================================================
