----------------------------- MODULE MCEndpoint -----------------------------
(***************************************************************************)
(* A small instance of Endpoint for TLC: data stages of two packets, and   *)
(* every request that acts on the endpoint itself.                         *)
(***************************************************************************)
EXTENDS Endpoint

MCRequests ==
  [kind : {"read", "write"}, packets : {2}] \cup
  [kind : {"plain", "set_halt", "clear_halt", "clear_halt_in", "unknown"},
   packets : {1}]
=============================================================================
