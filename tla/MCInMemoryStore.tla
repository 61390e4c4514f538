-------------------------- MODULE MCInMemoryStore --------------------------
(* Small instances of InMemoryStore for TLC.                               *)
EXTENDS InMemoryStore

CONSTANTS c1, c2, k1, k2, s1

MCClients1 == {c1}
MCClients2 == {c1, c2}
MCKeys1 == {k1}
MCKeys2 == {k1, k2}
MCStrs == {s1}

(* FOREVER, DEFAULT, half a second (truncated to 0s) and one second.       *)
MCTTLs == {FOREVER, DEFAULT, 1, 2}
(* 1 and 2^W - 1, whose int() is -1.                                       *)
MCNs == {1, 3}
=============================================================================
