------------------------- MODULE MCServiceHandler -------------------------
(***************************************************************************)
(* The collector with two daemons "gw0" and "st1", browsing one          *)
(* interface (the configured iface) or all of them (IF_UNSPEC).          *)
(***************************************************************************)
EXTENDS ServiceHandler, TLC

MCNames == {"collector", "gw0", "st1"}
OneIface == {"eth0"}
TwoIfaces == {"eth0", "eth1"}

=============================================================================
