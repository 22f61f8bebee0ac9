----------------------------- MODULE MCKeepalive ------------------------------
(* A unit of time is 5/3 seconds: 3 units are pingInterval.                    *)
EXTENDS Keepalive
CONSTANTS x1, x2, x3, x4
MCSids == {x1, x2, x3, x4}
===============================================================================
