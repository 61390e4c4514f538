----------------------------- MODULE MCRedisPool ------------------------------
(* RedisPool instantiated for TLC: two goroutines and two redis servers.  *)
EXTENDS RedisPool

CONSTANTS c1, c2, n1, n2

MCClients == {c1, c2}
MCNodes == {n1, n2}

Conf(k, p, s, t) == [kind |-> k, password |-> p, selectDb |-> s, test |-> t]

\* the sentinel pool with a password and a database, built by InitRedisCache
\* (which tests it), and the read-only pool with and without a password
MCPoolConfigs == {Conf("sentinel", TRUE, TRUE, TRUE), Conf("readonly", TRUE, FALSE, FALSE),
                  Conf("readonly", FALSE, TRUE, FALSE)}
MCReadOnlyConfigs == {Conf("readonly", FALSE, FALSE, FALSE)}
\* the sentinel pool of InitRedisCache without password or database
MCSentinelConfigs == {Conf("sentinel", FALSE, FALSE, TRUE)}
====
