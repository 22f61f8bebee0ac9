--------------------------- MODULE MCServerSessions ---------------------------
\* Two addresses, two logins, one hub.  a1 and a2 are the same login from two
\* addresses; a1 and a3 come from the same address.
EXTENDS ServerSessions

CONSTANTS a1, a2, a3, i1, i2, u, v, h, w1, w2

TwoAttempts == {a1, a2}
ThreeAttempts == {a1, a2, a3}
TwoIPs == {i1, i2}
TwoLogins == {u, v}
OneHub == {h}
From == [a \in Attempts |-> IF a = a2 THEN i2 ELSE i1]
Says == [a \in Attempts |-> IF a = a3 THEN v ELSE u]
Into == [a \in Attempts |-> h]
Stream == {a1} \cap Attempts
===============================================================================
