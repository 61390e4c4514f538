----------------------------- MODULE PageCache -----------------------------
(***************************************************************************)
(* The gin page-cache middleware of src/galapagos_gin/cache/cache.go:     *)
(* SiteCache, CachePage, CachePageAtomic and the cachedWriter that stores  *)
(* what a handler writes.  Concurrent requests for one page run through a  *)
(* chain of gin handlers over one CacheStore key (urlEscape of the URI).   *)
(*                                                                         *)
(* The page a handler produces is a sequence of chunks, one per            *)
(* c.Writer.Write call; a chunk names the resource version the handler     *)
(* read, its index, the number of chunks and whether the handler set the   *)
(* x-okay-to-cache header.  What the client receives is the sequence of    *)
(* chunks written to its ResponseWriter.                                   *)
(***************************************************************************)
EXTENDS Naturals, Sequences

CONSTANTS
    Requests,     \* goroutines serving requests for the page
    NoReq,        \* the unlocked state of CachePageAtomic's sync.Mutex
    MaxChunks,    \* most Write calls one handler run makes
    MaxVersion,   \* bound on updates of the resource the handler renders
    MaxFaults,    \* bound on failed store calls (redis backend)
    Configs       \* middleware chains to check

ASSUME NoReq \notin Requests

(* The chain: an optional SiteCache before the route, whose decorator is   *)
(* CachePage or CachePageAtomic, over an in-memory or a redis store.       *)
Config == [site : BOOLEAN, route : {"CachePage", "CachePageAtomic"},
           backend : {"inmemory", "redis"}]

Chunk == [v : 0..MaxVersion, i : 1..MaxChunks, n : 1..MaxChunks, ok : BOOLEAN]

(* A ResponseCache as the store holds it: Header (only x-okay-to-cache     *)
(* matters) and Data.                                                      *)
NoEntry == [none |-> TRUE]
ResponseCache == [okay : BOOLEAN, data : Seq(Chunk)]

(* One run of the route's handler: the version it rendered, how many       *)
(* chunks it writes, the next one, the header it set, and whether it       *)
(* writes through WriteString (c.String) rather than Write (c.Data, JSON). *)
NoJob == [none |-> TRUE]
Job == [v : 0..MaxVersion, n : 1..MaxChunks, next : 1..MaxChunks + 1, ok : BOOLEAN,
        str : BOOLEAN]

Phases == {"idle", "site", "route", "page", "handle", "finish", "done"}

VARIABLES
    conf,      \* the middleware chain
    version,   \* the resource the handler renders
    store,     \* the CacheStore entry under the page's key
    holder,    \* CachePageAtomic's mutex
    pc,        \* where each request is in the chain
    resp,      \* the chunks written to each request's client
    job,       \* each request's handler run
    faults     \* store calls that failed so far

vars == <<conf, version, store, holder, pc, resp, job, faults>>

TypeOK ==
    /\ conf \in Config
    /\ version \in 0..MaxVersion
    /\ store \in ResponseCache \cup {NoEntry}
    /\ holder \in Requests \cup {NoReq}
    /\ pc \in [Requests -> Phases]
    /\ resp \in [Requests -> Seq(Chunk)]
    /\ job \in [Requests -> Job \cup {NoJob}]
    /\ faults \in 0..MaxFaults

Atomic == conf.route = "CachePageAtomic"

(* A redis store call may fail; the middleware sees any Get error as a     *)
(* miss and ignores Set errors.  The in-memory store does not fail.        *)
CanFail == conf.backend = "redis" /\ faults < MaxFaults

(* store.Get(key, &cache): the entry, or a miss, or an error.              *)
Lookups == {[entry |-> store, fault |-> 0]}
           \cup (IF CanFail THEN {[entry |-> NoEntry, fault |-> 1]} ELSE {})

Hit(l) == l.entry # NoEntry

Init ==
    /\ conf \in Configs
    /\ version = 0
    /\ store = NoEntry
    /\ holder = NoReq
    /\ pc = [r \in Requests |-> "idle"]
    /\ resp = [r \in Requests |-> <<>>]
    /\ job = [r \in Requests |-> NoJob]
    /\ faults = 0

(* A request enters the chain: gin runs SiteCache first when it is used.   *)
Arrive(r) ==
    /\ pc[r] \in {"idle", "done"}
    /\ pc' = [pc EXCEPT ![r] = IF conf.site THEN "site" ELSE "route"]
    /\ resp' = [resp EXCEPT ![r] = <<>>]
    /\ job' = [job EXCEPT ![r] = NoJob]
    /\ UNCHANGED <<conf, version, store, holder, faults>>

(* SiteCache: on a hit it writes the cached page (whatever its header) and *)
(* returns without c.Abort(), so gin goes on to the route; on a miss it    *)
(* calls c.Next(), which also runs the route.                              *)
SiteCache(r) ==
    /\ pc[r] = "site"
    /\ \E l \in Lookups :
          /\ resp' = [resp EXCEPT ![r] = IF Hit(l) THEN @ \o l.entry.data ELSE @]
          /\ faults' = faults + l.fault
    /\ pc' = [pc EXCEPT ![r] = "route"]
    /\ UNCHANGED <<conf, version, store, holder, job>>

(* Mutant: a lock that does not wait for its holder.                      *)
LockIgnoringHolder(r) == holder' = r

(* m.Lock() of CachePageAtomic.                                            *)
Lock(r) == holder = NoReq /\ holder' = r

(* CachePageAtomic takes the lock before the decorated handler; CachePage  *)
(* enters directly.                                                        *)
RouteEnter(r) ==
    /\ pc[r] = "route"
    /\ \/ Atomic /\ Lock(r)
       \/ ~Atomic /\ UNCHANGED holder
    /\ pc' = [pc EXCEPT ![r] = "page"]
    /\ UNCHANGED <<conf, version, store, resp, job, faults>>

(* The handler starts rendering the current version behind a cachedWriter. *)
StartHandler(r) ==
    \E n \in 1..MaxChunks, ok, str \in BOOLEAN :
       job' = [job EXCEPT ![r] = [v |-> version, n |-> n, next |-> 1, ok |-> ok,
                                  str |-> str]]

(* CachePage: on a miss or error, or a hit without x-okay-to-cache, it     *)
(* replaces the writer and runs the handler; on an okay hit it writes the  *)
(* cached page.                                                            *)
CachePage(r) ==
    /\ pc[r] = "page"
    /\ \E l \in Lookups :
          /\ faults' = faults + l.fault
          /\ \/ /\ Hit(l) /\ l.entry.okay
                /\ resp' = [resp EXCEPT ![r] = @ \o l.entry.data]
                /\ pc' = [pc EXCEPT ![r] = "finish"]
                /\ UNCHANGED job
             \/ /\ ~(Hit(l) /\ l.entry.okay)
                /\ StartHandler(r)
                /\ pc' = [pc EXCEPT ![r] = "handle"]
                /\ UNCHANGED resp
    /\ UNCHANGED <<conf, version, store, holder>>

(* cachedWriter.Write: the chunk goes to the client, then store.Set(key,   *)
(* ResponseCache{status, Header, data}) stores this write's bytes only; a  *)
(* failed Set is ignored.                                                  *)
CachedData(c) == <<c>>

(* The chunk the handler writes next.                                      *)
NextChunk(r) == [v |-> job[r].v, i |-> job[r].next, n |-> job[r].n, ok |-> job[r].ok]

Write(r) ==
    /\ pc[r] = "handle"
    /\ ~job[r].str
    /\ job[r].next <= job[r].n
    /\ LET c == NextChunk(r)
       IN  /\ resp' = [resp EXCEPT ![r] = Append(@, c)]
           /\ \/ /\ store' = [okay |-> c.ok, data |-> CachedData(c)]
                 /\ UNCHANGED faults
              \/ /\ CanFail
                 /\ faults' = faults + 1
                 /\ UNCHANGED store
    /\ job' = [job EXCEPT ![r].next = @ + 1]
    /\ UNCHANGED <<conf, version, holder, pc>>

(* cachedWriter.WriteString: the string goes to the client, then the same  *)
(* Set; a failed Set is returned as (0, err) although the bytes were sent. *)
(* gin's Render panics on a render error and gin.Recovery ends the chain:  *)
(* the handler writes nothing more, and the deferred Unlock still runs.    *)
WriteString(r) ==
    /\ pc[r] = "handle"
    /\ job[r].str
    /\ job[r].next <= job[r].n
    /\ LET c == NextChunk(r)
       IN  /\ resp' = [resp EXCEPT ![r] = Append(@, c)]
           /\ \/ /\ store' = [okay |-> c.ok, data |-> CachedData(c)]
                 /\ job' = [job EXCEPT ![r].next = @ + 1]
                 /\ UNCHANGED <<faults, pc>>
              \/ /\ CanFail
                 /\ faults' = faults + 1
                 /\ pc' = [pc EXCEPT ![r] = "finish"]
                 /\ UNCHANGED <<store, job>>
    /\ UNCHANGED <<conf, version, holder>>

HandlerReturn(r) ==
    /\ pc[r] = "handle"
    /\ job[r].next > job[r].n
    /\ pc' = [pc EXCEPT ![r] = "finish"]
    /\ UNCHANGED <<conf, version, store, holder, resp, job, faults>>

(* Mutant: the lock is not released when the decorated handler returns.   *)
UnlockForgotten(r) == UNCHANGED holder

(* The deferred m.Unlock() of CachePageAtomic.                             *)
Unlock(r) == holder' = NoReq

Finish(r) ==
    /\ pc[r] = "finish"
    /\ IF Atomic THEN Unlock(r) ELSE UNCHANGED holder
    /\ pc' = [pc EXCEPT ![r] = "done"]
    /\ UNCHANGED <<conf, version, store, resp, job, faults>>

(* Another endpoint updates the resource.                                  *)
Mutate ==
    /\ version < MaxVersion
    /\ version' = version + 1
    /\ UNCHANGED <<conf, store, holder, pc, resp, job, faults>>

(* The entry's expire TTL elapses, or the store evicts it.                 *)
Expire ==
    /\ store # NoEntry
    /\ store' = NoEntry
    /\ UNCHANGED <<conf, version, holder, pc, resp, job, faults>>

RequestStep(r) ==
    \/ SiteCache(r) \/ RouteEnter(r) \/ CachePage(r)
    \/ Write(r) \/ WriteString(r) \/ HandlerReturn(r) \/ Finish(r)

Next ==
    \/ \E r \in Requests : Arrive(r) \/ RequestStep(r)
    \/ Mutate
    \/ Expire

(* gin runs each request on its own goroutine to the end of the chain.     *)
(* sync.Mutex switches to FIFO hand-off for a waiter blocked over 1ms, so  *)
(* a request waiting on CachePageAtomic's lock is not passed over for ever *)
(* (strong fairness).  Requests arriving and the environment are not fair. *)
Fairness ==
    /\ \A r \in Requests :
          /\ WF_vars(SiteCache(r) \/ CachePage(r) \/ Write(r) \/ WriteString(r)
                     \/ HandlerReturn(r) \/ Finish(r))
          /\ SF_vars(RouteEnter(r))

Spec == Init /\ [][Next]_vars /\ Fairness

-----------------------------------------------------------------------------
(* CachePageAtomic is the "thread-safe" decorator: its mutex spans the     *)
(* handler's render and every cachedWriter.Write Set, so the page version  *)
(* the store holds never goes back.  Without it a slow handler that read   *)
(* an older version can Set after a faster one stored a newer page.        *)
CachedVersionMonotone ==
    [][(Atomic /\ store # NoEntry /\ store' # NoEntry)
          => store'.data[1].v >= store.data[1].v]_store

(* Every request that entered the chain gets to its end: CachePageAtomic's *)
(* lock is released by its deferred Unlock, and a waiter gets it.          *)
RequestsComplete ==
    \A r \in Requests : (pc[r] \notin {"idle", "done"}) ~> (pc[r] = "done")

(* The client of a finished request received exactly one whole page: the   *)
(* chunks 1..n of one handler run, in order, as the handler wrote them.    *)
(* About SiteCache returning on a hit without c.Abort(), cachedWriter.Write *)
(* storing only the bytes of its own call, and WriteString failing a page  *)
(* half sent when its Set fails.                                           *)
WholePage(s) ==
    /\ s # <<>>
    /\ Len(s) = s[1].n
    /\ \A i \in 1..Len(s) : s[i] = [s[1] EXCEPT !.i = i]

ResponseIsOnePage == \A r \in Requests : pc[r] = "done" => WholePage(resp[r])

=============================================================================
