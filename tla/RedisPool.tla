------------------------------ MODULE RedisPool -------------------------------
(***************************************************************************)
(* The remote connector of redispool.go: the two connection pools it       *)
(* builds and the redis servers they talk to.                              *)
(*                                                                         *)
(*  - the sentinel pool of NewSentinelPool: MaxIdle 3, MaxActive 64,       *)
(*    Wait, IdleTimeout 240 s; its Dial asks sentinel for the master       *)
(*    address, dials it, sends AUTH when a password is set and SELECT when *)
(*    the database is not 0, closing the connection when either fails; its *)
(*    TestOnBorrow skips connections used less than a minute ago and       *)
(*    otherwise asks the server for its ROLE;                              *)
(*  - the read-only pool of InitReadOnlyRedisCache: MaxIdle = MaxActive =  *)
(*    maxConnections and no Wait; its Dial dials one fixed address and     *)
(*    sends AUTH, or PING when there is no password, then SELECT; its      *)
(*    TestOnBorrow PINGs connections idle for a minute or more.            *)
(*                                                                         *)
(* The pool itself (Get, Put, idle list, active count) is the redigo       *)
(* library's redis.Pool and the servers and sentinel are external; they    *)
(* are modelled from their documented behaviour.  Each client stands for   *)
(* a goroutine of the persistence store that does Get, one command, Close. *)
(* A Get (prune, TestOnBorrow of idle connections, Dial) is one step.      *)
(*                                                                         *)
(* Faults: a node crashes (its connections break), sentinel promotes a     *)
(* live replica when the master is down, a crashed node restarts and is    *)
(* reconfigured as a replica; any network round trip of a Dial may time    *)
(* out.  Crashes and timeouts are bounded by MaxCrashes and MaxFaults so   *)
(* that liveness can be stated for the time after the last fault.          *)
(***************************************************************************)
EXTENDS Integers, Sequences, FiniteSets
LOCAL INSTANCE FiniteSetsExt
LOCAL INSTANCE Functions

CONSTANTS
    Clients,          \* goroutines using the pool
    Builder,          \* the goroutine that runs the constructor
    Nodes,            \* redis servers monitored by one sentinel
    InitialMaster,    \* the master when the pool is built
    ReadOnlyAddr,     \* the node InitReadOnlyRedisCache dials (realURL.Host)
    NoConn,           \* a client holds no connection
    Configs,          \* the pool configurations the run may start in
    SentinelMaxIdle,  \* MaxIdle: 3 (scaled)
    SentinelMaxActive,\* MaxActive: 64 (scaled)
    MaxConnections,   \* maxConnections of InitReadOnlyRedisCache
    MinuteTicks,      \* time.Minute in ticks
    IdleTimeoutTicks, \* IdleTimeout: 240 s in ticks
    MaxFaults,        \* bound on network timeouts during Dial
    MaxCrashes        \* bound on node crashes

ASSUME /\ Builder \in Clients /\ InitialMaster \in Nodes /\ ReadOnlyAddr \in Nodes
       /\ 0 < MinuteTicks /\ MinuteTicks < IdleTimeoutTicks

(* kind: which constructor built the pool; password: a non-empty password *)
(* was configured; selectDb: the selected database is not 0; test: the    *)
(* constructor runs its write/read test (InitRedisCache always, New when  *)
(* testWriteRead, InitReadOnlyRedisCache never).                          *)
Config == [kind : {"sentinel", "readonly"}, password : BOOLEAN, selectDb : BOOLEAN,
           test : BOOLEAN]

(* Steps of the constructor's test: Set("test"), then testCache's Set and *)
(* Get; "running" once the constructor has returned.                      *)
Phases == {"testSet", "testCacheSet", "testCacheGet", "running"}

(* A pooled connection: the node it is connected to, the ticks since it   *)
(* was last returned to the pool, and whether its TCP stream is dead.     *)
Conn == [node : Nodes, age : 0..IdleTimeoutTicks, broken : BOOLEAN]

Results == {"none", "ok", "readOnly", "ioError", "dialError", "exhausted"}

VARIABLES
    conf,           \* the pool configuration
    up,             \* node -> the server process is running
    role,           \* node -> the role the server reports for itself
    sentinelMaster, \* the address sentinel answers for MasterAddr
    idle,           \* redigo's idle list, most recently returned first
    conn,           \* client -> the connection it holds, or NoConn
    pc,             \* client -> "ready" or "holding"
    last,           \* client -> result of its last request
    serverConns,    \* node -> client connections the server has open
    faults,         \* Dial timeouts so far
    crashes,        \* node crashes so far
    phase,          \* step of the constructor's test
    built           \* what the constructor returned

vars == <<conf, up, role, sentinelMaster, idle, conn, pc, last, serverConns,
          faults, crashes, phase, built>>

TypeOK ==
    /\ conf \in Config
    /\ up \in [Nodes -> BOOLEAN]
    /\ role \in [Nodes -> {"master", "replica"}]
    /\ sentinelMaster \in Nodes
    /\ idle \in Seq(Conn)
    /\ conn \in [Clients -> Conn \cup {NoConn}]
    /\ pc \in [Clients -> {"ready", "holding"}]
    /\ last \in [Clients -> Results]
    /\ serverConns \in [Nodes -> Nat]
    /\ faults \in 0..MaxFaults
    /\ crashes \in 0..MaxCrashes
    /\ phase \in Phases
    /\ built \in {"pending", "ok", "err", "cacheAndErr"}

-----------------------------------------------------------------------------
(* Pool settings of NewSentinelPool and of InitReadOnlyRedisCache (which  *)
(* leaves Wait false).                                                     *)
SentinelPoolSettings ==
    [maxIdle |-> SentinelMaxIdle, maxActive |-> SentinelMaxActive, wait |-> TRUE]
ReadOnlyPoolSettings ==
    [maxIdle |-> MaxConnections, maxActive |-> MaxConnections, wait |-> FALSE]

Pool == IF conf.kind = "sentinel" THEN SentinelPoolSettings ELSE ReadOnlyPoolSettings

Holders == {c \in Clients : pc[c] = "holding"}

(* Number of live (unbroken) connections to n in a sequence of them.      *)
LiveTo(seq, n) == Cardinality({i \in 1..Len(seq) : seq[i].node = n /\ ~seq[i].broken})

(* Server side effect of closing the connections of seq.                   *)
CloseAll(seq) == [n \in Nodes |-> serverConns[n] - LiveTo(seq, n)]

(* Outcome of a Dial: ok with the new connection's node, or an error.      *)
(* fault counts a network timeout; opened names a node on which a         *)
(* connection is left open although the Dial failed (NoConn: none).        *)
DialOk(n)   == [ok |-> TRUE,  node |-> n,      fault |-> 0, opened |-> n]
DialFail(f) == [ok |-> FALSE, node |-> NoConn, fault |-> f, opened |-> NoConn]

CanTimeOut == faults < MaxFaults

(* Mutant: the failed command's connection is returned on without Close. *)
CommandFailLeaksConn(n) == [DialFail(1) EXCEPT !.opened = n]

(* A command sent on the fresh connection c (AUTH, PING, SELECT) fails:    *)
(* the code calls c.Close() and returns the error.                         *)
CommandFailClosed(n) == DialFail(1)

(* The same in the Dial of InitReadOnlyRedisCache.                         *)
ReadOnlyCommandFailClosed(n) == DialFail(1)

SentinelAddr == sentinelMaster

(* The Dial of NewSentinelPool.                                            *)
SentinelDial ==
    LET addr == SentinelAddr
    IN  (IF CanTimeOut THEN {DialFail(1)} ELSE {})       \* MasterAddr or DialTimeout times out
        \cup (IF ~up[addr] THEN {DialFail(0)}              \* connection refused
              ELSE (IF CanTimeOut /\ conf.password THEN {CommandFailClosed(addr)} ELSE {})
                   \cup (IF CanTimeOut /\ conf.selectDb THEN {CommandFailClosed(addr)} ELSE {})
                   \cup {DialOk(addr)})

(* The Dial of InitReadOnlyRedisCache: AUTH when a password is set, PING   *)
(* otherwise, then SELECT.                                                 *)
ReadOnlyDial ==
    LET addr == ReadOnlyAddr
    IN  (IF CanTimeOut THEN {DialFail(1)} ELSE {})
        \cup (IF ~up[addr] THEN {DialFail(0)}
              ELSE (IF CanTimeOut THEN {ReadOnlyCommandFailClosed(addr)} ELSE {})
                   \cup (IF CanTimeOut /\ conf.selectDb THEN {ReadOnlyCommandFailClosed(addr)} ELSE {})
                   \cup {DialOk(addr)})

Dial == IF conf.kind = "sentinel" THEN SentinelDial ELSE ReadOnlyDial

(* TestOnBorrow: a connection returned less than a minute ago is handed    *)
(* out untested; otherwise the sentinel pool asks ROLE and wants "master" *)
(* (sentinel.TestRole), the read-only pool sends PING.  A dead stream      *)
(* fails either command.                                                   *)
SentinelTestOnBorrow(x) ==
    x.age < MinuteTicks \/ (up[x.node] /\ ~x.broken /\ role[x.node] = "master")

ReadOnlyTestOnBorrow(x) ==
    x.age < MinuteTicks \/ (up[x.node] /\ ~x.broken)

TestOnBorrow(x) ==
    IF conf.kind = "sentinel" THEN SentinelTestOnBorrow(x) ELSE ReadOnlyTestOnBorrow(x)

(* The constructor of the sentinel pool (New with UseSentinel,           *)
(* InitRedisCache) starts its test with Set("test") when it tests.         *)
FirstPhase == IF conf.kind = "sentinel" /\ conf.test THEN "testSet" ELSE "running"

(* testCache: Set, then Get of what was set.                               *)
NextPhase(p) == CASE p = "testSet" -> "testCacheSet"
                  [] p = "testCacheSet" -> "testCacheGet"
                  [] p = "testCacheGet" -> "running"

(* What the constructor returns when a test step fails: nil, err after    *)
(* the Set("test"); cache, err after testCache.                            *)
TestFailed(p) == IF p = "testSet" THEN "err" ELSE "cacheAndErr"

(* The goroutines other than the constructor's start once it has returned *)
(* a cache; the constructor's own goroutine goes on as a client.           *)
MayRequest(c) == IF phase = "running" THEN built # "err" ELSE c = Builder

(* The command of a request: writes, except testCache's Get.               *)
IsWrite == conf.kind = "sentinel" /\ phase # "testCacheGet"

(* Record the result of c's request; during the constructor's test, go on *)
(* to the next step, or return.                                            *)
Report(c, res) ==
    /\ last' = [last EXCEPT ![c] = res]
    /\ IF phase = "running" THEN UNCHANGED <<phase, built>>
       ELSE IF res = "ok"
            THEN /\ phase' = NextPhase(phase)
                 /\ built' = IF NextPhase(phase) = "running" THEN "ok" ELSE built
            ELSE /\ phase' = "running"
                 /\ built' = TestFailed(phase)

-----------------------------------------------------------------------------
Init ==
    /\ conf \in Configs
    /\ up = [n \in Nodes |-> TRUE]
    /\ role = [n \in Nodes |-> IF n = InitialMaster THEN "master" ELSE "replica"]
    /\ sentinelMaster = InitialMaster
    /\ idle = <<>>
    /\ conn = [c \in Clients |-> NoConn]
    /\ pc = [c \in Clients |-> "ready"]
    /\ last = [c \in Clients |-> "none"]
    /\ serverConns = [n \in Nodes |-> 0]
    /\ faults = 0
    /\ crashes = 0
    /\ phase = FirstPhase
    /\ built = IF phase = "running" THEN "ok" ELSE "pending"

(* pool.Get(): with Wait, block until fewer than MaxActive connections are *)
(* out; close idle connections older than IdleTimeout; take idle           *)
(* connections from the front, closing each that fails TestOnBorrow; with *)
(* none left, fail with ErrPoolExhausted when not waiting and MaxActive    *)
(* are out, else Dial.                                                     *)
Borrow(c) ==
    LET fresh   == SelectSeq(idle, LAMBDA x : x.age < IdleTimeoutTicks)
        expired == SelectSeq(idle, LAMBDA x : x.age >= IdleTimeoutTicks)
        passing == {i \in 1..Len(fresh) : TestOnBorrow(fresh[i])}
        closed  == CloseAll(idle)
    IN  /\ pc[c] = "ready" /\ MayRequest(c)
        /\ Pool.wait => Cardinality(Holders) < Pool.maxActive
        /\ \/ /\ passing # {}
              /\ LET i == Min(passing)
                 IN  /\ conn' = [conn EXCEPT ![c] = fresh[i]]
                     /\ idle' = SubSeq(fresh, i + 1, Len(fresh))
                     /\ serverConns' = CloseAll(expired \o SubSeq(fresh, 1, i - 1))
              /\ pc' = [pc EXCEPT ![c] = "holding"]
              /\ UNCHANGED <<last, faults, phase, built>>
           \/ /\ passing = {}
              /\ ~Pool.wait /\ Cardinality(Holders) >= Pool.maxActive
              /\ Report(c, "exhausted")
              /\ idle' = <<>>
              /\ serverConns' = closed
              /\ UNCHANGED <<conn, pc, faults>>
           \/ /\ passing = {}
              /\ Pool.wait \/ Cardinality(Holders) < Pool.maxActive
              /\ idle' = <<>>
              /\ \E d \in Dial :
                    /\ faults' = faults + d.fault
                    /\ serverConns' = [n \in Nodes |-> closed[n] + IF d.opened = n THEN 1 ELSE 0]
                    /\ IF d.ok
                       THEN /\ conn' = [conn EXCEPT ![c] = [node |-> d.node, age |-> 0, broken |-> FALSE]]
                            /\ pc' = [pc EXCEPT ![c] = "holding"]
                            /\ UNCHANGED <<last, phase, built>>
                       ELSE /\ Report(c, "dialError")
                            /\ UNCHANGED <<conn, pc>>
        /\ UNCHANGED <<conf, up, role, sentinelMaster, crashes>>

(* conn.Do(cmd) then conn.Close(): a write on the sentinel pool, a read on *)
(* the read-only pool.  A dead stream is an I/O error that marks the       *)
(* connection failed, and Close then closes it; otherwise Close pushes it  *)
(* on the front of the idle list and closes the oldest idle connection    *)
(* when there are more than MaxIdle.                                       *)
Use(c) ==
    LET x     == conn[c]
        fatal == ~up[x.node] \/ x.broken
        back  == <<[x EXCEPT !.age = 0]>> \o idle
    IN  /\ pc[c] = "holding"
        /\ Report(c, IF fatal THEN "ioError"
                     ELSE IF IsWrite /\ role[x.node] # "master" THEN "readOnly"
                     ELSE "ok")
        /\ pc' = [pc EXCEPT ![c] = "ready"]
        /\ conn' = [conn EXCEPT ![c] = NoConn]
        /\ \/ /\ fatal
              /\ UNCHANGED <<idle, serverConns>>
           \/ /\ ~fatal /\ Len(back) <= Pool.maxIdle
              /\ idle' = back
              /\ UNCHANGED serverConns
           \/ /\ ~fatal /\ Len(back) > Pool.maxIdle
              /\ idle' = SubSeq(back, 1, Len(back) - 1)
              /\ serverConns' = CloseAll(<<back[Len(back)]>>)
        /\ UNCHANGED <<conf, up, role, sentinelMaster, faults, crashes>>

Break(x, n) == IF x.node = n THEN [x EXCEPT !.broken = TRUE] ELSE x

(* A redis server crashes: every connection to it is dead.                 *)
Crash(n) ==
    /\ up[n] /\ crashes < MaxCrashes
    /\ up' = [up EXCEPT ![n] = FALSE]
    /\ idle' = [i \in 1..Len(idle) |-> Break(idle[i], n)]
    /\ conn' = [c \in Clients |-> IF conn[c] = NoConn THEN NoConn ELSE Break(conn[c], n)]
    /\ serverConns' = [serverConns EXCEPT ![n] = 0]
    /\ crashes' = crashes + 1
    /\ UNCHANGED <<conf, role, sentinelMaster, pc, last, faults, phase, built>>

(* Sentinel sees the master down and promotes a running replica.           *)
Failover ==
    /\ ~up[sentinelMaster]
    /\ \E m \in Nodes :
          /\ up[m]
          /\ sentinelMaster' = m
          /\ role' = [role EXCEPT ![m] = "master"]
    /\ UNCHANGED <<conf, up, idle, conn, pc, last, serverConns, faults, crashes,
                   phase, built>>

(* A crashed server restarts; sentinel reconfigures a former master that  *)
(* is no longer the one it reports as a replica.                           *)
Restart(n) ==
    /\ ~up[n]
    /\ up' = [up EXCEPT ![n] = TRUE]
    /\ role' = [role EXCEPT ![n] = IF n = sentinelMaster THEN "master" ELSE "replica"]
    /\ UNCHANGED <<conf, sentinelMaster, idle, conn, pc, last, serverConns, faults,
                   crashes, phase, built>>

(* Time passes for the idle connections (ages saturate at IdleTimeout).    *)
Tick ==
    /\ \E i \in 1..Len(idle) : idle[i].age < IdleTimeoutTicks
    /\ idle' = [i \in 1..Len(idle) |->
                  [idle[i] EXCEPT !.age = IF @ < IdleTimeoutTicks THEN @ + 1 ELSE @]]
    /\ UNCHANGED <<conf, up, role, sentinelMaster, conn, pc, last, serverConns,
                   faults, crashes, phase, built>>

(* The constructor returned nil and an error: the program has no cache.  *)
Stopped == built = "err" /\ UNCHANGED vars

Next ==
    \/ \E c \in Clients : Borrow(c) \/ Use(c)
    \/ Stopped
    \/ \E n \in Nodes : Crash(n) \/ Restart(n)
    \/ Failover
    \/ Tick

(* Goroutines blocked in Get on the Wait channel are woken in FIFO order,  *)
(* so a waiter that is repeatedly enabled is eventually served (strong     *)
(* fairness); a held connection is used and closed; sentinel eventually    *)
(* fails over a down master, and a crashed server is eventually restarted. *)
Fairness ==
    /\ \A c \in Clients : SF_vars(Borrow(c)) /\ WF_vars(Use(c))
    /\ WF_vars(Failover)
    /\ \A n \in Nodes : WF_vars(Restart(n))

Spec == Init /\ [][Next]_vars /\ Fairness

-----------------------------------------------------------------------------
(* Dial closes the connection when AUTH, PING or SELECT fails, and the     *)
(* pool closes what it prunes, fails on TestOnBorrow or drops beyond       *)
(* MaxIdle: every connection a running server has open is one the pool     *)
(* holds, idle or lent out.                                                *)
NoLeakedConnections ==
    \A n \in Nodes :
        up[n] => serverConns[n] = LiveTo(idle, n)
                   + Cardinality({c \in Holders : conn[c].node = n /\ ~conn[c].broken})

(* A caller beyond the pool's bound waits for a connection: Get never      *)
(* fails with ErrPoolExhausted.                                            *)
NeverExhausted == \A c \in Clients : last[c] # "exhausted"

OpenConns == FoldFunction(LAMBDA x, acc : x + acc, 0, serverConns)

Outcome(r) == CASE r = "none" -> "none" [] r = "ok" -> "ok" [] OTHER -> "err"

Connector == INSTANCE ConnectorSpec WITH
    master <- IF conf.kind = "sentinel" THEN sentinelMaster ELSE ReadOnlyAddr,
    alive <- up,
    outcome <- [c \in Clients |-> Outcome(last[c])],
    open <- OpenConns, bound <- Pool.maxActive

(* The pools implement the connector's promise: a request is accepted     *)
(* only while the master sentinel names is running (a pooled connection to *)
(* a crashed or demoted master never serves a write), no more than         *)
(* MaxActive connections are ever open, and failover replaces only a down  *)
(* master.                                                                 *)
ImplementsConnector == Connector!Spec

(* A constructor that returns an error returns no cache (spec 4.4: the    *)
(* test is there to fail fast at startup).                                 *)
FailedBuildReturnsNoCache == built # "cacheAndErr"
====
