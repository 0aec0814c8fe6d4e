---------------------------- MODULE MCRateLimiter ----------------------------
(* Settings of RateLimiter for TLC: one CPU through three windows of four  *)
(* jiffies with packets of two sizes, and two CPUs racing through four     *)
(* windows of one jiffy.                                                   *)
EXTENDS RateLimiter
CONSTANTS c1, c2
MCSetting == {[cpus |-> {c1}, shift |-> 2, jiffies |-> 4, pkts |-> 2, bytes |-> 3, sizes |-> {1, 2}, last |-> 11],
              [cpus |-> {c1, c2}, shift |-> 0, jiffies |-> 1, pkts |-> 2, bytes |-> 5, sizes |-> {1}, last |-> 3]}
=============================================================================
