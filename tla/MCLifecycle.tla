----------------------------- MODULE MCLifecycle -----------------------------
(* An instance of Lifecycle for TLC: two devices, of which one may be taken *)
(* out of the configuration, a change of mode and of the PID file.          *)
EXTENDS Lifecycle
Conf(d, mode, dns, p) == [devs |-> d, deployment |-> mode, dns |-> dns, pidfile |-> p]
MCConfigs == {Conf(<<"eth0", "eth1">>, "host", FALSE, "default"),
              Conf(<<"eth0">>, "gw", TRUE, "default"),
              Conf(<<"eth0">>, "host", TRUE, "custom")}
=============================================================================
