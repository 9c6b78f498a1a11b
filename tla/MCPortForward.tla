---------------------------- MODULE MCPortForward ----------------------------
(* PortForward with two tunnels of any kind, that may want the same port.      *)
EXTENDS PortForward

CONSTANTS u1, u2, k1, k2, p1
=============================================================================
