-------------------------- MODULE MCTopologyWatch --------------------------
(***************************************************************************)
(* A small instance of TopologyWatch for TLC: a server that is registered  *)
(* under one id and calls by its own name, and one browser.                *)
(***************************************************************************)
EXTENDS TopologyWatch

CONSTANTS calc, math, adder, absent

server == [name |-> calc, iface |-> math, role |-> adder, address |-> absent]

MCDescription == {server}
=============================================================================
