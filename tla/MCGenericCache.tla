--------------------------- MODULE MCGenericCache ----------------------------
(* GenericCache instantiated for TLC: one key, string and integer values. *)
EXTENDS GenericCache

CONSTANTS k1, s1, s2

MCKeys == {k1}
MCStrs == {s1, s2}
\* one payload: the integer and its counted values tell a stale read apart
MCOneStr == {s1}
\* FOREVER, DEFAULT, a sub-second TTL and one second
MCTTLs == {FOREVER, 0, 1, 2}
\* one integer; n = 2 counts it up to 3, and takes 1 below 0 (the floor)
MCInts == {1}
MCNs == {2}

Conf(b, e, r) == [backend |-> b, encrypt |-> e, readCache |-> r]

\* every configuration NewCacheWithPool / NewCacheWithMultiPools can build
MCAllConfigs == Config
MCInMemoryEncrypted == {Conf("inmemory", TRUE, FALSE)}
MCInMemoryPlain == {Conf("inmemory", FALSE, FALSE)}
MCRedisPlain == {Conf("redis", FALSE, FALSE)}
MCRedisReplica == {Conf("redis", FALSE, TRUE)}
MCPlainStores == MCRedisPlain \cup MCInMemoryPlain
MCReadContractConfigs == MCInMemoryEncrypted \cup MCRedisReplica \cup MCPlainStores
====
