------------------------------ MODULE MCVirtIO ------------------------------
(* A read of the first sector, a write whose sector wraps to it, a write     *)
(* that reaches the end of the image and a request that fails.               *)
EXTENDS VirtIO

Request(type, sector, buffers) ==
  [type |-> type, sector |-> sector, buffers |-> buffers, whole |-> TRUE, value |-> 1]

MCRequests ==
  {Request("IN", 0, 3), Request("OUT", 4, 3), Request("OUT", 1, 3),
   Request("OTHER", 0, 3)}
=============================================================================
