---------------------------- MODULE MCNetAcceptor ----------------------------
(* Three accept buffers, two connections, six peers: two are served, three   *)
(* refused, which takes all the buffers, and one waits.                      *)
EXTENDS NetAcceptor

=============================================================================
