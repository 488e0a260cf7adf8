-------------------------- MODULE MCTopologyStore --------------------------
(***************************************************************************)
(* Small instances of TopologyStore for TLC: two ids, a server that is     *)
(* known by its interface and role and a client that has an address, and   *)
(* two targets of which one is nobody's name.                              *)
(***************************************************************************)
EXTENDS TopologyStore, TLC

CONSTANTS s1, s2, calc, client, math, adder, port, ghost, absent, unknown, healthy

server == [name |-> calc, iface |-> math, role |-> adder, address |-> absent]
consumer == [name |-> client, iface |-> absent, role |-> absent, address |-> port]

MCServiceId == {s1, s2}
MCDescription == {server, consumer}
MCServer == {server}
MCTarget == {<<math, adder>>, ghost}
MCHealth == {unknown, healthy}

\* What config.ts:9 says of timeoutMultiplier, "Number of missed heartbeats
\* before a service is considered stale": a stale service has been silent for
\* more than that many heartbeat intervals, and so missed that many heartbeats.
StaleAfterMultiplier ==
    \A id \in DOMAIN services :
        services[id].state = "STALE" =>
            services[id].heartbeatAge > HeartbeatInterval * TimeoutMultiplier

Symmetry == Permutations(MCServiceId)
=============================================================================
