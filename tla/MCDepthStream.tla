--------------------------- MODULE MCDepthStream ----------------------------
(***************************************************************************)
(* DepthStream for TLC: two threads overlap over two clients.           *)
(***************************************************************************)
EXTENDS DepthStream
=============================================================================
