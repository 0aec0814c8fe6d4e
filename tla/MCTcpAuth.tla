------------------------------ MODULE MCTcpAuth ------------------------------
(* Settings of TcpAuth for TLC.                                            *)
(*   Learning: connections older and newer than the program, the filter    *)
(*     switched at any moment;                                             *)
(*   Closing: two connections, the filter on, time enough for a FIN, its   *)
(*     grace period and what comes after;                                  *)
(*   Racing: ingress and egress programs on two CPUs at one address.       *)
EXTENDS TcpAuth
CONSTANTS a1, a2, c1, c2
Learning == [addrs |-> {a1, a2}, cpus |-> {c1}, timeout |-> 1, toggle |-> TRUE,
             reuse |-> FALSE, last |-> 2]
Closing  == [addrs |-> {a1, a2}, cpus |-> {c1}, timeout |-> 2, toggle |-> FALSE,
             reuse |-> FALSE, last |-> 4]
Racing   == [addrs |-> {a1}, cpus |-> {c1, c2}, timeout |-> 1, toggle |-> TRUE,
             reuse |-> FALSE, last |-> 2]
MCSetting == {Learning, Closing, Racing}
=============================================================================
