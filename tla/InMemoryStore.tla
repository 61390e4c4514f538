---------------------------- MODULE InMemoryStore ----------------------------
(***************************************************************************)
(* The in-process store of src/inmemory.go: an ARC cache (hashicorp        *)
(* golang-lru, internally locked per call) holding GenericCacheEntry       *)
(* values, used concurrently by caller goroutines and by the janitor       *)
(* goroutine that runs DeleteExpired on every tick.                        *)
(*                                                                         *)
(* InMemoryStore holds no lock of its own: every public operation is a     *)
(* sequence of separately locked lru calls.  Each client action below is   *)
(* one such call (plus the local computation that follows it up to the     *)
(* next lru call), so the model interleaves callers and the janitor       *)
(* exactly where the Go scheduler can.                                     *)
(*                                                                         *)
(* Abstractions.  The ARC policy is a library's: it is kept only as "the   *)
(* map never holds more than MaxEntries keys, and inserting a new key      *)
(* into a full map evicts some other key".  TimeAdded is not kept (nothing *)
(* in the store reads it).  Durations are counted in ticks, SecondTicks    *)
(* per second, so that a sub-second TTL and FOREVER (-1ns) truncate the    *)
(* way int64(t/time.Second) does.  Go's 64-bit int is a W-bit two's        *)
(* complement integer.                                                     *)
(***************************************************************************)
EXTENDS Integers, FiniteSets

CONSTANTS
    Clients,        \* caller goroutines
    Keys,           \* cache keys
    Strs,           \* string payloads (model values)
    NoEntry,        \* lru miss
    W,              \* bit width of Go's int / uint64
    MaxEntries,     \* the size passed to lru.NewARC
    SecondTicks,    \* ticks per second in a time.Duration
    DefaultExp,     \* inMemoryStore.DefaultExp, in ticks
    TTLs,           \* the exp arguments callers pass, in ticks
    SetInts,        \* int payloads callers store
    Ns,             \* the n arguments of Increment / Decrement
    MaxTime,        \* bound on the clock (Unix seconds)
    JanitorRunning  \* cleanupInterval > 0 in NewInMemoryStore

FOREVER == -1       \* persistence.FOREVER == time.Duration(-1)
DEFAULT == 0        \* persistence.DEFAULT

Mod  == 2^W
Half == 2^(W-1)
IntRange == -Half .. Half - 1

ASSUME /\ W \in Nat \ {0}
       /\ MaxEntries \in Nat \ {0}
       /\ SecondTicks \in Nat \ {0}
       /\ TTLs \subseteq Int /\ DefaultExp \in Nat
       /\ SetInts \subseteq IntRange /\ Ns \subseteq 0 .. Mod - 1
       /\ JanitorRunning \in BOOLEAN

(* A payload, tagged with its Go dynamic type (%T).                        *)
StrData(s) == [t |-> "string", v |-> s]
IntData(i) == [t |-> "int", v |-> i]
Data == [t: {"string"}, v: Strs] \cup [t: {"int"}, v: IntRange]
Payloads == {StrData(s) : s \in Strs} \cup {IntData(i) : i \in SetInts}

(* Destination types a caller hands to Get.                                *)
Dests == {"*string", "*int", "*cache.GenericCacheEntry", "*float64"}

Codes == {"none", "ok", "hit", "miss", "notStored", "notSupported", "panic"}

VARIABLES
    now,     \* time.Now().Unix()
    lru,     \* the ARC cache: key -> entry or NoEntry
    pc,      \* per caller: the lru call it makes next
    arg,     \* per caller: what it carries from one lru call to the next
    ret,     \* per caller: the error code of its last completed call
    jpc,     \* janitor: "wait" for a tick, "scan" its key snapshot, "remove"
    jkeys,   \* janitor: keys of the snapshot still to visit
    jkey     \* janitor: the key it is about to Remove

vars == <<now, lru, pc, arg, ret, jpc, jkeys, jkey>>

Entry == [data: Data, expiresAt: Int]
NoArg == [key |-> NoEntry, data |-> NoEntry, exp |-> 0, n |-> 0, seen |-> NoEntry]

------------------------------------------------------------------------------
(* Go arithmetic and conversions.                                          *)

\* a / b on Go integers truncates toward zero
GoDiv(a, b) == IF a >= 0 THEN a \div b ELSE -((-a) \div b)
\* int(n) for a uint64 n
ToInt(n) == IF n < Half THEN n ELSE n - Mod
\* the result of a Go int operation that overflows
WrapInt(x) == ((x + Half) % Mod) - Half
\* uint64(i) for an int i
ToUint(i) == i % Mod

(* GenericCacheEntry.Expired: ExpiresAt != 0 and time.Unix(ExpiresAt,0)   *)
(* is before time.Now().  The clock value now stands for an instant       *)
(* inside second now, which is after time.Unix(now, 0).                    *)
Expired(e) == e.expiresAt # 0 /\ e.expiresAt <= now

Present(k) == lru[k] # NoEntry

(* The expiry doAddSet computes for exp.                                   *)
AddSetExpiry(exp) ==
    IF exp = FOREVER THEN 0
    ELSE IF exp # 0 THEN now + GoDiv(exp, SecondTicks)
    ELSE now + GoDiv(DefaultExp, SecondTicks)

(* InMemoryStore.NewGenericCacheEntry: FOREVER is not special here.        *)
NewGenericCacheEntry(data, exp) ==
    LET t == IF exp # 0 THEN exp ELSE DefaultExp
    IN  [data |-> data, expiresAt |-> now + GoDiv(t, SecondTicks)]

(* The maps lru.Add(k, e) may leave: ARC evicts some resident key when a  *)
(* new key does not fit.                                                   *)
LruAdd(k, e) ==
    IF Present(k) \/ Cardinality({j \in Keys : Present(j)}) < MaxEntries
    THEN {[lru EXCEPT ![k] = e]}
    ELSE {[lru EXCEPT ![k] = e, ![v] = NoEntry] : v \in {j \in Keys : Present(j)}}

(* doAddSet: the payload (a GenericCacheEntry's inner Data) is wrapped in  *)
(* a fresh entry and stored with one lru.Add.                              *)
doAddSet(k, data, exp) ==
    lru' \in LruAdd(k, [data |-> data, expiresAt |-> AddSetExpiry(exp)])

Call(c, code) ==
    /\ pc' = [pc EXCEPT ![c] = "idle"]
    /\ arg' = [arg EXCEPT ![c] = NoArg]
    /\ ret' = [ret EXCEPT ![c] = code]

Await(c, next, a) ==
    /\ pc' = [pc EXCEPT ![c] = next]
    /\ arg' = [arg EXCEPT ![c] = a]

Init ==
    /\ now = 1
    /\ lru = [k \in Keys |-> NoEntry]
    /\ pc = [c \in Clients |-> "idle"]
    /\ arg = [c \in Clients |-> NoArg]
    /\ ret = [c \in Clients |-> "none"]
    /\ jpc = "wait"
    /\ jkeys = {}
    /\ jkey = NoEntry

------------------------------------------------------------------------------
(* Get: lru.Get, the Expired check and the type switch; an expired entry  *)
(* is removed with a second lru call.                                      *)
GetHitCode(e, dest) ==
    CASE dest = "*string" -> IF e.data.t = "string" THEN "hit" ELSE "panic"
      [] dest = "*int" -> IF e.data.t = "int" THEN "hit" ELSE "panic"
      [] dest = "*cache.GenericCacheEntry" -> "hit"
      [] OTHER -> "notSupported"

Get(c, k, dest) ==
    /\ pc[c] = "idle"
    /\ \/ /\ ~Present(k)
          /\ Call(c, "miss")
       \/ /\ Present(k) /\ Expired(lru[k])
          /\ Await(c, "getRemove", [NoArg EXCEPT !.key = k])
          /\ UNCHANGED ret
       \/ /\ Present(k) /\ ~Expired(lru[k])
          /\ Call(c, GetHitCode(lru[k], dest))
    /\ UNCHANGED <<now, lru, jpc, jkeys, jkey>>

GetRemove(c) ==
    /\ pc[c] = "getRemove"
    /\ lru' = [lru EXCEPT ![arg[c].key] = NoEntry]
    /\ Call(c, "miss")
    /\ UNCHANGED <<now, jpc, jkeys, jkey>>

(* Set: doAddSet, a single lru.Add.                                        *)
Set(c, k, data, exp) ==
    /\ pc[c] = "idle"
    /\ doAddSet(k, data, exp)
    /\ Call(c, "ok")
    /\ UNCHANGED <<now, jpc, jkeys, jkey>>

(* Add: lru.Get, then doAddSet if the key was not found.                   *)
Add(c, k, data, exp) ==
    /\ pc[c] = "idle"
    /\ \/ /\ Present(k)
          /\ Call(c, "notStored")
       \/ /\ ~Present(k)
          /\ Await(c, "addSet", [NoArg EXCEPT !.key = k, !.data = data, !.exp = exp])
          /\ UNCHANGED ret
    /\ UNCHANGED <<now, lru, jpc, jkeys, jkey>>

(* Replace: lru.Get, then doAddSet if the key was found.                   *)
Replace(c, k, data, exp) ==
    /\ pc[c] = "idle"
    /\ \/ /\ Present(k)
          /\ Await(c, "replaceSet", [NoArg EXCEPT !.key = k, !.data = data, !.exp = exp])
          /\ UNCHANGED ret
       \/ /\ ~Present(k)
          /\ Call(c, "notStored")
    /\ UNCHANGED <<now, lru, jpc, jkeys, jkey>>

AddSetCommit(c) ==
    /\ pc[c] \in {"addSet", "replaceSet"}
    /\ doAddSet(arg[c].key, arg[c].data, arg[c].exp)
    /\ Call(c, "ok")
    /\ UNCHANGED <<now, jpc, jkeys, jkey>>

(* Update: lru.Get, then lru.Add of the caller's entry, which the caller   *)
(* built with NewGenericCacheEntry before the call.                        *)
Update(c, k, data, exp) ==
    /\ pc[c] = "idle"
    /\ \/ /\ Present(k)
          /\ Await(c, "updateSet", [NoArg EXCEPT !.key = k,
                                      !.seen = NewGenericCacheEntry(data, exp)])
          /\ UNCHANGED ret
       \/ /\ ~Present(k)
          /\ Call(c, "notStored")
    /\ UNCHANGED <<now, lru, jpc, jkeys, jkey>>

UpdateCommit(c) ==
    /\ pc[c] = "updateSet"
    /\ lru' \in LruAdd(arg[c].key, arg[c].seen)
    /\ Call(c, "ok")
    /\ UNCHANGED <<now, jpc, jkeys, jkey>>

(* Delete: lru.Get, then lru.Remove if the key was found.                  *)
Delete(c, k) ==
    /\ pc[c] = "idle"
    /\ \/ /\ Present(k)
          /\ Await(c, "deleteRemove", [NoArg EXCEPT !.key = k])
          /\ UNCHANGED ret
       \/ /\ ~Present(k)
          /\ Call(c, "miss")
    /\ UNCHANGED <<now, lru, jpc, jkeys, jkey>>

DeleteRemove(c) ==
    /\ pc[c] = "deleteRemove"
    /\ lru' = [lru EXCEPT ![arg[c].key] = NoEntry]
    /\ Call(c, "ok")
    /\ UNCHANGED <<now, jpc, jkeys, jkey>>

(* Increment / Decrement: lru.Get, the type switch on the entry's Data,    *)
(* then lru.Add of the copied entry with the new int.                      *)
Counter(c, k, n, op) ==
    /\ pc[c] = "idle"
    /\ \/ /\ ~Present(k)
          /\ Call(c, "miss")
       \/ /\ Present(k) /\ lru[k].data.t # "int"
          /\ Call(c, "notSupported")
       \/ /\ Present(k) /\ lru[k].data.t = "int"
          /\ Await(c, op, [NoArg EXCEPT !.key = k, !.n = n, !.seen = lru[k]])
          /\ UNCHANGED ret
    /\ UNCHANGED <<now, lru, jpc, jkeys, jkey>>

Increment(c, k, n) == Counter(c, k, n, "incrSet")
Decrement(c, k, n) == Counter(c, k, n, "decrSet")

IncrementValue(d, n) == WrapInt(d + ToInt(n))
DecrementValue(d, n) == IF ToInt(n) > d THEN 0 ELSE WrapInt(d - ToInt(n))

CounterCommit(c) ==
    LET a == arg[c]
        d == IF pc[c] = "incrSet" THEN IncrementValue(a.seen.data.v, a.n)
                                  ELSE DecrementValue(a.seen.data.v, a.n)
    IN  /\ pc[c] \in {"incrSet", "decrSet"}
        /\ lru' \in LruAdd(a.key, [a.seen EXCEPT !.data = IntData(d)])
        /\ Call(c, "ok")
        /\ UNCHANGED <<now, jpc, jkeys, jkey>>

(* Flush: lru.Purge.                                                       *)
Flush(c) ==
    /\ pc[c] = "idle"
    /\ lru' = [k \in Keys |-> NoEntry]
    /\ Call(c, "ok")
    /\ UNCHANGED <<now, jpc, jkeys, jkey>>

------------------------------------------------------------------------------
(* The janitor: on a tick, DeleteExpired takes lru.Keys() and for each key *)
(* calls lru.Get, checks Expired and calls lru.Remove.                     *)
JanitorTick ==
    /\ JanitorRunning /\ jpc = "wait"
    /\ jpc' = "scan"
    /\ jkeys' = {k \in Keys : Present(k)}
    /\ UNCHANGED <<now, lru, pc, arg, ret, jkey>>

JanitorScan ==
    /\ jpc = "scan"
    /\ \/ \E k \in jkeys :
             /\ jkeys' = jkeys \ {k}
             /\ IF Present(k) /\ Expired(lru[k])
                THEN jpc' = "remove" /\ jkey' = k
                ELSE UNCHANGED <<jpc, jkey>>
       \/ /\ jkeys = {}
          /\ jpc' = "wait"
          /\ UNCHANGED <<jkeys, jkey>>
    /\ UNCHANGED <<now, lru, pc, arg, ret>>

(* A variant of JanitorRemove that looks the key up instead of removing it. *)
JanitorRemoveKeepsEntry ==
    /\ jpc = "remove"
    /\ jpc' = "scan"
    /\ jkey' = NoEntry
    /\ UNCHANGED <<now, lru, pc, arg, ret, jkeys>>

JanitorRemove ==
    /\ jpc = "remove"
    /\ lru' = [lru EXCEPT ![jkey] = NoEntry]
    /\ jpc' = "scan"
    /\ jkey' = NoEntry
    /\ UNCHANGED <<now, pc, arg, ret, jkeys>>

Janitor == JanitorTick \/ JanitorScan \/ JanitorRemove

(* Time passes.                                                            *)
Tick ==
    /\ now < MaxTime
    /\ now' = now + 1
    /\ UNCHANGED <<lru, pc, arg, ret, jpc, jkeys, jkey>>

ClientStep(c) ==
    \/ \E k \in Keys :
          \/ \E d \in Dests : Get(c, k, d)
          \/ \E data \in Payloads, exp \in TTLs :
                \/ Set(c, k, data, exp)
                \/ Add(c, k, data, exp)
                \/ Replace(c, k, data, exp)
                \/ Update(c, k, data, exp)
          \/ Delete(c, k)
          \/ \E n \in Ns : Increment(c, k, n) \/ Decrement(c, k, n)
    \/ Flush(c)
    \/ GetRemove(c)
    \/ AddSetCommit(c)
    \/ UpdateCommit(c)
    \/ DeleteRemove(c)
    \/ CounterCommit(c)

Next == Tick \/ Janitor \/ \E c \in Clients : ClientStep(c)

(* The janitor goroutine is scheduled whenever it is runnable and the      *)
(* ticker keeps firing; callers may stop calling at any time.              *)
Spec == Init /\ [][Next]_vars /\ WF_vars(Janitor)

------------------------------------------------------------------------------
TypeOK ==
    /\ now \in 1 .. MaxTime
    /\ lru \in [Keys -> Entry \cup {NoEntry}]
    /\ pc \in [Clients -> {"idle", "getRemove", "addSet", "replaceSet",
                           "updateSet", "deleteRemove", "incrSet", "decrSet"}]
    /\ ret \in [Clients -> Codes]
    /\ jpc \in {"wait", "scan", "remove"}
    /\ jkeys \subseteq Keys
    /\ jkey \in Keys \cup {NoEntry}
    /\ \A k \in Keys : Present(k) => lru[k].data \in Data

------------------------------------------------------------------------------
(* While the janitor runs, an entry that has expired does not stay in the  *)
(* store: it is removed, or replaced by an unexpired one.                  *)
ExpiredEventuallySwept ==
    \A k \in Keys :
        (Present(k) /\ Expired(lru[k])) ~> (~Present(k) \/ ~Expired(lru[k]))

(* The refinement mapping: a caller sees the entries that are present and *)
(* not expired (spec 7: a miss is "key absent or expired").               *)
VisibleStore == [k \in Keys |-> IF Present(k) /\ ~Expired(lru[k]) THEN lru[k] ELSE NoEntry]

(* The operation a caller is in the middle of: the one whose check it has *)
(* made and whose write or removal it has still to make.                  *)
OpOf == [getRemove |-> "get", addSet |-> "add", replaceSet |-> "replace",
         updateSet |-> "update", deleteRemove |-> "delete",
         incrSet |-> "incr", decrSet |-> "decr"]
PendingOp == [c \in Clients |-> IF pc[c] = "idle" THEN [op |-> "none", key |-> NoEntry]
                                 ELSE [op |-> OpOf[pc[c]], key |-> arg[c].key]]

CacheStore == INSTANCE CacheStoreSpec WITH store <- VisibleStore, pending <- PendingOp

(* InMemoryStore implements the CacheStore contract (spec 5: safe for     *)
(* concurrent use; spec 7 and 8; spec 9 on the in-process Add): each      *)
(* operation's sequence of lru calls takes effect as one atomic step on   *)
(* the visible store.  Add writes only over a miss, Replace and Update    *)
(* only over a visible entry; Delete and the counters answer miss for an  *)
(* expired entry; a counter applies uint64 arithmetic to the value it      *)
(* replaces, flooring Decrement at 0; removals of expired entries (Get's  *)
(* Remove, the janitor's) change nothing a caller can see.                *)
ImplementsCacheStore == CacheStore!Spec

=============================================================================
