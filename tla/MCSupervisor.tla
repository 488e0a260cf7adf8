---------------------------- MODULE MCSupervisor ----------------------------
(***************************************************************************)
(* Instances of Supervisor: services with the three restart policies, the  *)
(* last of which is also exempt from restarts after an unexpected exit.    *)
(***************************************************************************)
EXTENDS Supervisor

CONSTANTS broker, bridge, dashboard

MCPolicy ==
    [s \in Service |->
        CASE s = broker -> "always" [] s = bridge -> "on-failure" [] OTHER -> "never"]

MCMaxRestarts == [s \in Service |-> IF s = broker THEN 2 ELSE 1]

MCRestartOnExit == [s \in Service |-> s # dashboard]
=============================================================================
