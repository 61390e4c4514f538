---------------------------- MODULE GenericCache -----------------------------
(***************************************************************************)
(* The GenericCache front end of src/generic.go over one backing           *)
(* CacheStore, and, when built by NewCacheWithMultiPools, a nested         *)
(* read-only GenericCache over a replica of that store.                    *)
(*                                                                         *)
(* GenericCache keeps no mutable state of its own: each operation is one   *)
(* call on the backing store, wrapped in default-TTL selection, the        *)
(* EncryptData path and the destination-type switch of Get.  Each store    *)
(* call is one atomic step here; the interleaving of the lru calls inside  *)
(* an InMemoryStore operation is the subject of InMemoryStore.tla.         *)
(*                                                                         *)
(* Backend "inmemory" is src/inmemory.go, taken as one caller sees it.     *)
(* Backend "redis" is the persistence.RedisStore of the cache library      *)
(* (not in this repository): a value is stored as it is given (gob) with   *)
(* a server-side TTL, and a replica copies the primary asynchronously.     *)
(*                                                                         *)
(* Abstractions.  A value is a string payload, a []byte ciphertext of a    *)
(* payload, or a GenericCacheEntry; encryptEntry / decryptEntry are        *)
(* modelled by what they do to that value (Codec.tla checks the padding    *)
(* and key derivation they rely on).  Time is kept as in InMemoryStore:    *)
(* now in Unix seconds, durations in ticks of 1/SecondTicks second.        *)
(***************************************************************************)
EXTENDS Integers

CONSTANTS
    Keys, Strs, NoEntry,
    Configs,         \* the configurations checked (see Config)
    SecondTicks,
    DefaultExp,      \* GenericCache.DefaultExp (expirySeconds), in ticks
    StoreDefaultExp, \* the backing store's own default expiry, in ticks
    TTLs,            \* exp arguments callers pass, in ticks
    Ints,            \* integer values callers Set
    Ns,              \* n arguments of Increment / Decrement
    MaxCount,        \* bound on a counter's value
    MaxTime

FOREVER == -1
EntryType == "cache.GenericCacheEntry"

(* How the cache was built: the backing store ("inmemory", "redis", or     *)
(* "nil" for a nil pool handed to NewCacheWithPool), EncryptData, and      *)
(* whether NewCacheWithMultiPools gave it a read cache (over a redis       *)
(* replica).                                                               *)
Config == {c \in [backend: {"inmemory", "redis", "nil"}, encrypt: BOOLEAN, readCache: BOOLEAN] :
              c.readCache => c.backend = "redis"}

ASSUME Configs \subseteq Config

(* Values, tagged with their Go dynamic type; x is an entry's ExpiresAt.   *)
Str(s)  == [t |-> "string", v |-> s, x |-> 0]
Blob(d) == [t |-> "[]byte", v |-> d, x |-> 0]
IntVal(i)  == [t |-> "int", v |-> i, x |-> 0]
EntryOf(d, x) == [t |-> EntryType, v |-> d, x |-> x]

(* Destination types of Get: scalar pointers, the entry shape, and an      *)
(* unsupported one.  A scalar destination takes a value of its own type.  *)
EntryDest == "*cache.GenericCacheEntry"
ScalarType == [d \in {"*string", "*int"} |-> IF d = "*string" THEN "string" ELSE "int"]
Dests == DOMAIN ScalarType \cup {EntryDest, "*bool"}

VARIABLES
    conf,     \* the configuration, fixed at construction
    now,      \* time.Now().Unix()
    store,    \* the backing store: key -> [val, expiresAt] or NoEntry
    replica,  \* the read-only replica of a redis store
    ret,      \* the result of the caller's last operation
    written   \* history: the last value a write stored under each key

vars == <<conf, now, store, replica, ret, written>>

Backend == conf.backend
EncryptData == conf.encrypt
HasReadCache == conf.readCache

GoDiv(a, b) == IF a >= 0 THEN a \div b ELSE -((-a) \div b)

(* GenericCacheEntry.Expired.                                              *)
Expired(x) == x # 0 /\ x <= now

(* GenericCache.NewGenericCacheEntry: FOREVER is not special; -1ns / 1s    *)
(* truncates to 0 and the entry expires at once.                           *)
NewGenericCacheEntry(d, exp) ==
    LET t == IF exp # 0 THEN exp ELSE DefaultExp
    IN  EntryOf(d, now + GoDiv(t, SecondTicks))

(* The TTL every write hands the store: exp, or DefaultExp when exp is 0.  *)
StoreTTL(exp) == IF exp # 0 THEN exp ELSE DefaultExp

------------------------------------------------------------------------------
(* The backing store.                                                      *)

(* The absolute expiry a store gives a TTL (doAddSet; the same rule for    *)
(* redis TTLs): FOREVER never, 0 the store's default.                      *)
StoreExpiry(t) ==
    IF t = FOREVER THEN 0
    ELSE IF t # 0 THEN now + GoDiv(t, SecondTicks)
    ELSE now + GoDiv(StoreDefaultExp, SecondTicks)

(* The record a Set of value v with TTL t leaves: InMemoryStore unwraps a  *)
(* GenericCacheEntry to its Data, a redis store keeps the value whole.     *)
StoreRecord(v, t) ==
    [val |-> IF Backend = "inmemory" /\ v.t = EntryType THEN v.v ELSE v,
     expiresAt |-> StoreExpiry(t)]

Live(r) == r # NoEntry /\ ~Expired(r.expiresAt)

(* Whether Add / Replace / Delete find the key: InMemoryStore asks lru.Get *)
(* and never looks at expiry; redis has already dropped an expired key.    *)
Found(r) == IF Backend = "inmemory" THEN r # NoEntry ELSE Live(r)

(* The store's Get of record r into dest: [code, val, x].                  *)
Res(code, v, x) == [code |-> code, val |-> v, x |-> x]

InMemoryGet(r, dest) ==
    CASE ~Live(r) -> Res("miss", NoEntry, 0)
      [] dest \in DOMAIN ScalarType ->
            IF r.val.t = ScalarType[dest] THEN Res("ok", r.val, 0) ELSE Res("panic", NoEntry, 0)
      [] OTHER -> Res("ok", r.val, r.expiresAt)

RedisGet(r, dest) ==
    CASE ~Live(r) -> Res("miss", NoEntry, 0)
      [] dest \in DOMAIN ScalarType ->
            IF r.val.t = ScalarType[dest] THEN Res("ok", r.val, 0) ELSE Res("decodeError", NoEntry, 0)
      [] OTHER ->
            IF r.val.t = EntryType THEN Res("ok", r.val.v, r.val.x) ELSE Res("decodeError", NoEntry, 0)

StoreGet(r, dest) == IF Backend = "inmemory" THEN InMemoryGet(r, dest) ELSE RedisGet(r, dest)

(* InMemoryStore.Get removes an expired entry it finds.                    *)
AfterGet(k) ==
    IF Backend = "inmemory" /\ store[k] # NoEntry /\ ~Live(store[k])
    THEN [store EXCEPT ![k] = NoEntry] ELSE store

------------------------------------------------------------------------------
(* The EncryptData path.                                                   *)

(* encryptEntry of the gob encoding of d.                                  *)
EncryptEntry(d) == Blob(d)

(* Get's entry branch after the store call: entry.Data.([]byte) panics on  *)
(* anything but a []byte; decryptEntry and gob decoding restore d.         *)
EntryData(data) ==
    IF data.t = "[]byte" THEN Res("ok", data.v, 0) ELSE Res("panic", NoEntry, 0)

(* GenericCache.Get on a store snapshot st.                                *)
CacheGet(st, k, dest) ==
    LET r == StoreGet(st[k], dest)
    IN  CASE dest = "*bool" -> Res("notSupported", NoEntry, 0)
          [] dest = EntryDest /\ EncryptData /\ r.code = "ok" ->
                [EntryData(r.val) EXCEPT !.x = r.x]
          [] OTHER -> r

(* dest is Get's destination type, or the n of a counter operation; at is *)
(* the time of a read.                                                     *)
Result(op, k, dest, r) ==
    [op |-> op, key |-> k, dest |-> dest, code |-> r.code, val |-> r.val, x |-> r.x,
     at |-> IF op \in {"get", "exists"} THEN now ELSE 0]

Done(op, k, code) == ret' = Result(op, k, "none", Res(code, NoEntry, 0))

(* The expiry spec 4.3 gives a write with exp, in whole seconds: FOREVER  *)
(* never, 0 the default, a positive TTL now + ttl.                         *)
SpecDeadline(exp) ==
    LET t == StoreTTL(exp)
    IN  CASE t = FOREVER -> 0
          [] t = 0 -> now + StoreDefaultExp \div SecondTicks
          [] OTHER -> now + t \div SecondTicks

(* History of writes, read only by the properties.                        *)
Wrote(k, path, v, deadline) ==
    written' = [written EXCEPT ![k] = [path |-> path, val |-> v, deadline |-> deadline]]

Init ==
    /\ conf \in Configs
    /\ now = 2
    /\ store = [k \in Keys |-> NoEntry]
    /\ replica = [k \in Keys |-> NoEntry]
    /\ ret = Result("none", NoEntry, "none", Res("none", NoEntry, 0))
    /\ written = [k \in Keys |-> NoEntry]

------------------------------------------------------------------------------
(* The operations.  Each is the whole GenericCache method with the store   *)
(* call it makes.                                                          *)

(* Set: with EncryptData, a GenericCacheEntry's Data is gob-encoded and    *)
(* encrypted and re-wrapped by NewGenericCacheEntry(encrypted, exp) (exp,  *)
(* not t); every other value is stored as it is.                           *)
Set(k, v, exp) ==
    LET data == IF EncryptData /\ v.t = EntryType
                THEN NewGenericCacheEntry(EncryptEntry(v.v), exp) ELSE v
        rec  == StoreRecord(data, StoreTTL(exp))
    IN  /\ store' = [store EXCEPT ![k] = rec]
        /\ Done("set", k, "ok")
        /\ Wrote(k, "set", v, SpecDeadline(exp))
        /\ UNCHANGED <<now, replica>>

(* Add / Replace: the value goes to the store's Add / Replace unencrypted. *)
Add(k, v, exp) ==
    \/ /\ Found(store[k])
       /\ Done("add", k, "notStored")
       /\ UNCHANGED <<now, store, replica, written>>
    \/ /\ ~Found(store[k])
       /\ store' = [store EXCEPT ![k] = StoreRecord(v, StoreTTL(exp))]
       /\ Done("add", k, "ok")
       /\ Wrote(k, "add", v, SpecDeadline(exp))
       /\ UNCHANGED <<now, replica>>

Replace(k, v, exp) ==
    \/ /\ ~Found(store[k])
       /\ Done("replace", k, "notStored")
       /\ UNCHANGED <<now, store, replica, written>>
    \/ /\ Found(store[k])
       /\ store' = [store EXCEPT ![k] = StoreRecord(v, StoreTTL(exp))]
       /\ Done("replace", k, "ok")
       /\ Wrote(k, "replace", v, SpecDeadline(exp))
       /\ UNCHANGED <<now, replica>>

(* AddExistingEntry: Set(key, entry, (expiresAt - now) seconds), no        *)
(* encryption.  The caller hands an entry it read, with its ExpiresAt.     *)
AddExistingEntry(k, e, expiresAt) ==
    LET rec == StoreRecord(e, (expiresAt - now) * SecondTicks)
    IN  /\ store' = [store EXCEPT ![k] = rec]
        /\ Done("addExisting", k, "ok")
        /\ Wrote(k, "existing", e, expiresAt)
        /\ UNCHANGED <<now, replica>>

(* Delete: a store miss is passed through as ErrCacheMiss.                 *)
Delete(k) ==
    /\ \/ /\ Found(store[k])
          /\ store' = [store EXCEPT ![k] = NoEntry]
          /\ Done("delete", k, "ok")
       \/ /\ ~Found(store[k])
          /\ Done("delete", k, "miss")
          /\ UNCHANGED store
    /\ written' = [written EXCEPT ![k] = NoEntry]
    /\ UNCHANGED <<now, replica>>

Flush ==
    /\ store' = [k \in Keys |-> NoEntry]
    /\ written' = [k \in Keys |-> NoEntry]
    /\ Done("flush", NoEntry, "ok")
    /\ UNCHANGED <<now, replica>>

------------------------------------------------------------------------------
(* Counters.                                                               *)

(* What the spec says a counter becomes (spec 4.3): Decrement floors at 0. *)
(* Increment wraps at 2^64, far above MaxCount; InMemoryStore.tla checks   *)
(* the wrap in a reduced word.  Read only by the properties.               *)
SpecCount(v, op, n) ==
    IF op = "decr" THEN (IF n > v THEN 0 ELSE v - n) ELSE v + n

(* The history after a counter call: the counted value, spec-computed from *)
(* the last value written; the entry keeps the deadline of its write.      *)
Counted(k, op, n) ==
    written' = IF written[k] # NoEntry /\ written[k].val.t = "int"
               THEN [written EXCEPT ![k].path = "counter",
                                    ![k].val = IntVal(SpecCount(@.v, op, n))]
               ELSE written

(* InMemoryStore.Increment: entry.Data.(int) + int(n).                     *)
IncrementValue(v, n) == v + n

(* InMemoryStore.Decrement: 0 when int(n) > the value, else the value - n; *)
(* the redis store DECRBYs the current value when n exceeds it.  The two   *)
(* agree for the values checked here, far below 2^63.                      *)
DecrementValue(v, n) == IF n > v THEN 0 ELSE v - n

CounterDone(op, k, n, code, v) == ret' = Result(op, k, n, Res(code, v, 0))

(* The store's Increment / Decrement: a miss unless the store finds the    *)
(* key (lru.Get, expired or not; redis EXISTS / GET, live only), an error  *)
(* for a value that is not an int, and otherwise the new value written     *)
(* back into the same entry (lru.Add of the updated copy; INCRBY / DECRBY  *)
(* keep the TTL).  GenericCache returns the error, or the value.           *)
Counter(k, op, n) ==
    LET r == store[k]
        v == IF op = "incr" THEN IncrementValue(r.val.v, n) ELSE DecrementValue(r.val.v, n)
    IN  /\ \/ /\ ~Found(r)
              /\ CounterDone(op, k, n, "miss", NoEntry)
              /\ UNCHANGED <<store, written>>
           \/ /\ Found(r) /\ r.val.t # "int"
              /\ CounterDone(op, k, n, "notSupported", NoEntry)
              /\ UNCHANGED <<store, written>>
           \/ /\ Found(r) /\ r.val.t = "int"
              /\ v <= MaxCount
              /\ store' = [store EXCEPT ![k].val = IntVal(v)]
              /\ CounterDone(op, k, n, "ok", IntVal(v))
              /\ Counted(k, op, n)
        /\ UNCHANGED <<now, replica>>

Increment(k, n) == Counter(k, "incr", n)
Decrement(k, n) == Counter(k, "decr", n)

(* RedisExpireAt, RedisGetExpiresIn and RedisIncrementAtomic assert the   *)
(* store to the persistence.RedisStore pointer type: over any other store  *)
(* the unchecked type assertion panics.                                    *)
RedisOnly(op, k, n) ==
    /\ Backend = "inmemory"
    /\ ret' = Result(op, k, n, Res("panic", NoEntry, 0))
    /\ UNCHANGED <<now, store, replica, written>>

(* RedisIncrementAtomic: INCRBY, which starts a missing key at 0 with no   *)
(* TTL and keeps the TTL of a live one.                                     *)
RedisIncrementAtomic(k, n) ==
    \/ RedisOnly("incrAtomic", k, n)
    \/ /\ Backend = "redis"
       /\ LET r == store[k]
          IN  \/ /\ Live(r) /\ r.val.t # "int"
                 /\ CounterDone("incrAtomic", k, n, "notInteger", NoEntry)
                 /\ UNCHANGED <<store, written>>
              \/ /\ Live(r) /\ r.val.t = "int"
                 /\ r.val.v + n <= MaxCount
                 /\ store' = [store EXCEPT ![k].val = IntVal(r.val.v + n)]
                 /\ CounterDone("incrAtomic", k, n, "ok", IntVal(r.val.v + n))
                 /\ Counted(k, "incrAtomic", n)
              \/ /\ ~Live(r)
                 /\ store' = [store EXCEPT ![k] = [val |-> IntVal(n), expiresAt |-> 0]]
                 /\ CounterDone("incrAtomic", k, n, "ok", IntVal(n))
                 /\ written' = [written EXCEPT ![k] =
                                  [path |-> "counter", val |-> IntVal(n), deadline |-> 0]]
       /\ UNCHANGED <<now, replica>>

(* RedisExpireAt: EXPIREAT gives a live key the deadline epoc (an epoc     *)
(* already passed removes it); a missing key is left alone.                *)
RedisExpireAt(k, epoc) ==
    \/ RedisOnly("expireAt", k, 0)
    \/ /\ Backend = "redis"
       /\ \/ /\ Live(store[k])
             /\ store' = [store EXCEPT ![k].expiresAt = epoc]
             /\ written' = IF written[k] = NoEntry THEN written
                           ELSE [written EXCEPT ![k].deadline = epoc]
          \/ /\ ~Live(store[k])
             /\ UNCHANGED <<store, written>>
       /\ Done("expireAt", k, "ok")
       /\ UNCHANGED <<now, replica>>

(* RedisGetExpiresIn: the key's TTL in seconds (-2 missing, -1 none).      *)
RedisGetExpiresIn(k) ==
    \/ RedisOnly("expiresIn", k, 0)
    \/ /\ Backend = "redis"
       /\ LET r == store[k]
              ttl == CASE ~Live(r) -> -2 [] r.expiresAt = 0 -> -1 [] OTHER -> r.expiresAt - now
          IN  ret' = Result("expiresIn", k, 0, Res("ok", NoEntry, ttl))
       /\ UNCHANGED <<now, store, replica, written>>

(* Every method first checks c.Cache == nil and returns an error.          *)
NoCache ==
    /\ Backend = "nil"
    /\ \E op \in {"set", "add", "replace", "delete", "flush", "get", "exists", "incr", "decr"}, k \in Keys :
          Done(op, k, "noCache")
    /\ UNCHANGED <<now, store, replica, written>>

\* a Get that, as spec 4.5 describes, reads the read cache when there is one
GetReadCache(k, dest) ==
    /\ ret' = Result("get", k, dest, CacheGet(IF HasReadCache THEN replica ELSE store, k, dest))
    /\ store' = IF dest = "*bool" \/ HasReadCache THEN store ELSE AfterGet(k)
    /\ UNCHANGED <<now, replica, written>>

(* Get: the type switch, the store's Get, and for the entry shape with     *)
(* EncryptData the decrypt.  It always reads the write store.              *)
Get(k, dest) ==
    /\ ret' = Result("get", k, dest, CacheGet(store, k, dest))
    /\ store' = IF dest = "*bool" THEN store ELSE AfterGet(k)
    /\ UNCHANGED <<now, replica, written>>

(* Exists: with a read cache, ReadCache.Exists, i.e. a Get of the entry    *)
(* shape on the replica; otherwise Get(key, &entry) on the write store.    *)
Exists(k) ==
    \/ /\ HasReadCache
       /\ ret' = Result("exists", k, EntryDest, CacheGet(replica, k, EntryDest))
       /\ UNCHANGED <<store, replica>>
    \/ /\ ~HasReadCache
       /\ ret' = Result("exists", k, EntryDest, CacheGet(store, k, EntryDest))
       /\ store' = AfterGet(k)
       /\ UNCHANGED replica
    /\ UNCHANGED <<now, written>>

(* The janitor's DeleteExpired, as one step.                               *)
Sweep ==
    /\ Backend = "inmemory"
    /\ \E k \in Keys : store[k] # NoEntry /\ ~Live(store[k])
    /\ store' = [k \in Keys |-> IF Live(store[k]) THEN store[k] ELSE NoEntry]
    /\ UNCHANGED <<now, replica, ret, written>>

(* Asynchronous replication of one key to the read-only replica.          *)
Replicate(k) ==
    /\ HasReadCache
    /\ replica[k] # store[k]
    /\ replica' = [replica EXCEPT ![k] = store[k]]
    /\ UNCHANGED <<now, store, ret, written>>

Tick ==
    /\ now < MaxTime
    /\ now' = now + 1
    /\ UNCHANGED <<store, replica, ret, written>>

(* Values callers write: a string, or an entry they built with             *)
(* NewGenericCacheEntry(value, exp) for the same exp.                      *)
Values(exp) == {Str(s) : s \in Strs} \cup {IntVal(i) : i \in Ints}
                \cup {NewGenericCacheEntry(Str(s), exp) : s \in Strs}

Step ==
    \/ \E k \in Keys, exp \in TTLs : \E v \in Values(exp) :
          Set(k, v, exp) \/ Add(k, v, exp) \/ Replace(k, v, exp)
    \/ \E k \in Keys, s \in Strs, x \in {0} \cup (now - 1 .. now + 1) :
          AddExistingEntry(k, EntryOf(Str(s), x), x)
    \/ \E k \in Keys : Delete(k) \/ Exists(k) \/ Replicate(k)
    \/ \E k \in Keys, dest \in Dests : Get(k, dest)
    \/ \E k \in Keys, n \in Ns :
          Increment(k, n) \/ Decrement(k, n) \/ RedisIncrementAtomic(k, n)
    \/ \E k \in Keys, epoc \in {now, now + 1} : RedisExpireAt(k, epoc)
    \/ \E k \in Keys : RedisGetExpiresIn(k)
    \/ Flush \/ Sweep \/ Tick

Next == ((Backend # "nil" /\ Step) \/ NoCache) /\ UNCHANGED conf

Spec == Init /\ [][Next]_vars

------------------------------------------------------------------------------
(* Properties.                                                             *)

Logical(v) == IF v.t = EntryType THEN v.v ELSE v
ShapeOf(v) == CASE v.t = EntryType -> EntryDest [] v.t = "int" -> "*int" [] OTHER -> "*string"

(* The last read (op) of a key whose last write took one of paths, into    *)
(* the shape that write stored, before the expiry that write set, found    *)
(* the payload that was written.                                           *)
ReadBack(paths, op) ==
    LET w == written[ret.key]
    IN  (/\ ret.op = op /\ w # NoEntry /\ w.path \in paths
         /\ ret.dest = ShapeOf(w.val)
         /\ ~(w.deadline # 0 /\ w.deadline <= ret.at))
        => ret.code = "ok" /\ ret.val = Logical(w.val)

(* Round trip (spec 8): Get after Set returns the value, through Set's     *)
(* EncryptData wrapping, the store, Get's type switch and decryptEntry.    *)
SetRoundTrip == ReadBack({"set"}, "get")

(* Read-your-writes (spec 5, spec 8): Get after any successful write      *)
(* (Set, Add, Replace, AddExistingEntry) returns the value, and Exists      *)
(* after Set finds it.  Add, Replace and AddExistingEntry store the value  *)
(* unencrypted while Get of an entry always decrypts; Exists reads the    *)
(* read cache.                                                             *)
ReadYourWrites ==
    /\ ReadBack({"set", "add", "replace", "existing"}, "get")
    /\ ReadBack({"set"}, "exists")

(* A read honours the expiry its write asked for (spec 4.3, 4.5): an     *)
(* entry written by Set or AddExistingEntry is not returned once its      *)
(* deadline has passed, and one written to never expire comes back with  *)
(* an ExpiresAt that is not Expired().                                    *)
ReadHonoursExpiry ==
    LET w == written[ret.key]
    IN  (/\ ret.op \in {"get", "exists"} /\ ret.code = "ok"
         /\ w # NoEntry /\ w.path \in {"set", "existing"})
        => /\ w.deadline # 0 => ret.at < w.deadline
           /\ (ret.dest = EntryDest /\ w.deadline = 0) => ~(ret.x # 0 /\ ret.x <= ret.at)

(* The read contract of spec 8 (Round trip, Expiry) and spec 5: a read    *)
(* returns what the key's last write stored for as long as that write     *)
(* asked it to live, and never an entry past its expiry.  Both halves     *)
(* are about one Get or Exists against the write history of its key,      *)
(* through every configuration the constructors build.                    *)
ReadContract == ReadYourWrites /\ ReadHonoursExpiry
====
